------------------------ MODULE CompanyConsoleProofs ------------------------
(***************************************************************************)
(* Proofs about CompanyConsole, for any checkboxes and bounds.  A page's   *)
(* promise that nothing is done twice rests on what the page remembers of  *)
(* its last acknowledged write (the settings, the three forms of the       *)
(* mailbox page) or on the ledger of a receipt (the recovery page).  That  *)
(* a form overwrites nothing unseen, and that a review releases it, rest   *)
(* on what the form was filled from.  The theorems are at the end; the     *)
(* other pages are in ConsolePagesProofs.                                  *)
(***************************************************************************)
EXTENDS ConsolePagesProofs

-----------------------------------------------------------------------------
(* The settings page.                                                      *)

Floor == [minimum : Int, newer : Int]
Draft(c) == Fields(c, {"name", "zone", "rev", "seen"}) /\ c.rev \in Int

SettingsRow(s) == Fields(s, {"set", "zones", "next"}) /\ s.set.rev \in Nat

FormShape(u) == Fields(u, {"data", "zones", "failed", "edit", "review", "high", "acked"})

\* What the form knows is above what it got acknowledged, or a review is due
\* that must return more than that.
SettingsForm(u) ==
  /\ FormShape(u)
  /\ u.data.rev \in Int /\ u.high \in Int /\ u.acked \in Int
  /\ u.edit # None => Draft(u.edit)
  /\ u.review = None => u.high > u.acked
  /\ u.review # None => u.review \in Floor /\ u.review.minimum > u.acked

\* A save is for a revision above the acknowledged one; a reload remembers the
\* review it is for.
PutRun(r, u) ==
  /\ Fields(r, {"sub", "op", "mine", "steady"}) /\ r.op = "put"
  /\ Draft(r.sub) /\ r.sub.rev > u.acked
ReloadRun(r, u) ==
  /\ Fields(r, {"forReview", "draft", "review", "high", "op", "mine", "steady"})
  /\ r.op = "reload"
  /\ Draft(r.draft) /\ r.high \in Int /\ r.review = u.review
  /\ r.review # None => r.forReview
SettingsRun(r, u) == r = None \/ PutRun(r, u) \/ ReloadRun(r, u)

\* Answers under way; one that is good shows settings.
SettingsAnswer(a) ==
  a # None => /\ a.ok => ~a.conflict /\ ~a.garbled /\ a.data.set.rev \in Nat
              /\ a.conflict => ~a.garbled
              /\ a.ok \in BOOLEAN
SettingsNet(n) ==
  n # None => /\ Packet(n) /\ n.cmd.kind \in {"settings", "put"}
              /\ SettingsAnswer(n.answer)

OtherRun(r) ==
  /\ Fields(r, DOMAIN r) /\ {"op", "mine", "steady"} \subseteq DOMAIN r
  /\ r.op \in {"add", "verify", "delete", "list"}

SettingsOK ==
  /\ form = "settings" =>
       /\ SettingsRow(srv) /\ SettingsForm(ui) /\ SettingsRun(run, ui) /\ SettingsNet(net)
       /\ \A m \in stray : m.kind = "put"
  /\ form # "settings" => run = None \/ OtherRun(run)

\* What the invariant of the settings page promises.
LEMMA SettingsMeans == ASSUME SettingsOK PROVE Settings!SavedOnce
<1>1. CASE form = "settings" /\ run # None /\ run.op = "put"
  <2>1. PutRun(run, ui)
    BY <1>1 DEF SettingsOK, SettingsRun, ReloadRun
  <2>. QED BY <2>1 DEF PutRun, Settings!SavedOnce
<1>2. CASE form # "settings" /\ run # None
  BY <1>2 DEF SettingsOK, OtherRun, Settings!SavedOnce, Settings!Doing
<1>. QED BY <1>1, <1>2 DEF Settings!SavedOnce, Settings!Doing

\* The larger of two revisions.
LEMMA SettingsMax ==
  ASSUME NEW a \in Int, NEW b \in Int
  PROVE  Settings!Max2(a, b) \in Int /\ Settings!Max2(a, b) >= a /\ Settings!Max2(a, b) >= b
BY DEF Settings!Max2

\* A transaction keeps the row a row.
LEMMA ConfigureRow ==
  ASSUME NEW s, SettingsRow(s), NEW m
  PROVE  SettingsRow(Settings!ConfigureCompany(s, m).srv)
<1>. DEFINE new == [rev |-> s.set.rev + 1, name |-> m.name, zone |-> m.zone]
            t == [s EXCEPT !.set = new]
<1>1. new.rev \in Nat
  BY DEF SettingsRow, Fields
<1>. HIDE DEF new
<1>2. SettingsRow(t)
  BY <1>1 DEF SettingsRow, Fields
<1>. HIDE DEF t
<1>3. Settings!ConfigureCompany(s, m).srv \in {s, t}
  BY DEF Settings!ConfigureCompany, Settings!Out, t, new
<1>. QED BY <1>2, <1>3

\* A request of the settings form keeps the row, and its answer shows it.
LEMMA SettingsRequest ==
  ASSUME NEW s, SettingsRow(s), NEW m, m.kind \in {"settings", "put"},
         NEW o \in Settings!Handle(s, m)
  PROVE  /\ SettingsRow(o.srv)
         /\ (m.kind = "put" => ~o.a.ok) => SettingsAnswer(o.a)
<1>1. CASE m.kind = "settings"
  <2>1. o = Settings!Out(s, Settings!Yes([set |-> s.set, zones |-> s.zones]))
    BY <1>1 DEF Settings!Handle
  <2>. QED BY <2>1 DEF Settings!Out, Settings!Yes, SettingsAnswer, SettingsRow, Fields
<1>2. CASE m.kind = "put"
  <2>1. o = Settings!ConfigureCompany(s, m)
    BY <1>2 DEF Settings!Handle
  <2>2. o.a.ok \in BOOLEAN /\ (o.a.conflict => ~o.a.garbled)
    BY <2>1
    DEF Settings!ConfigureCompany, Settings!Out, Settings!Yes, Settings!No, Settings!Conflict
  <2>. QED BY <1>2, <2>1, <2>2, ConfigureRow DEF SettingsAnswer
<1>. QED BY <1>1, <1>2

\* Typing, and a cache that is read again, mark the running action and no more.
LEMMA MarkedRun ==
  ASSUME SettingsRun(run, ui), NEW u, u.acked = ui.acked, u.review = ui.review,
         NEW r, r \in {run, Settings!Edited, Settings!Moved}
  PROVE  SettingsRun(r, u)
<1>1. CASE run = None
  BY <1>1 DEF SettingsRun, Settings!Edited, Settings!Moved
<1>2. CASE run # None /\ PutRun(run, ui)
  BY <1>2 DEF SettingsRun, PutRun, Settings!Edited, Settings!Moved, Fields
<1>3. CASE run # None /\ ReloadRun(run, ui)
  BY <1>3 DEF SettingsRun, ReloadRun, Settings!Edited, Settings!Moved, Fields
<1>. QED BY <1>1, <1>2, <1>3 DEF SettingsRun

\* The draft a form is filled with names the revision it was filled from.
LEMMA ConfigDraft ==
  ASSUME SettingsForm(ui)
  PROVE  Draft(Settings!config(ui))
BY DEF SettingsForm, Settings!config, Draft, Fields

\* Showing newer data never lowers what the form knows.
LEMMA ShownForm ==
  ASSUME NEW u, SettingsForm(u), NEW d, d.rev \in Int
  PROVE  /\ SettingsForm(Settings!Shown(u, d))
         /\ Settings!Shown(u, d).acked = u.acked /\ Settings!Shown(u, d).review = u.review
         /\ Settings!Shown(u, d).edit = u.edit
         /\ Settings!Shown(u, d).high >= d.rev /\ Settings!Shown(u, d).high >= u.high
<1>. DEFINE h == Settings!Max2(u.high, d.rev)
<1>1. h \in Int /\ h >= u.high /\ h >= d.rev
  BY SettingsMax DEF SettingsForm
<1>. HIDE DEF h
<1>2. Settings!Shown(u, d) = [u EXCEPT !.data = d, !.high = h, !.failed = FALSE]
  BY DEF Settings!Shown, h
<1>. DEFINE v == [u EXCEPT !.data = d, !.high = h, !.failed = FALSE]
<1>3. /\ FormShape(v) /\ v.data = d /\ v.high = h /\ v.edit = u.edit
      /\ v.review = u.review /\ v.acked = u.acked
  BY DEF SettingsForm, FormShape, Fields
<1>. HIDE DEF v
<1>4. SettingsForm(v)
  BY <1>1, <1>3 DEF SettingsForm
<1>. QED BY <1>1, <1>2, <1>3, <1>4 DEF v

\* The domains shown are of no concern to the form.
LEMMA ZonesForm ==
  ASSUME NEW u, SettingsForm(u), NEW z
  PROVE  /\ SettingsForm([u EXCEPT !.zones = z]) /\ SettingsForm([u EXCEPT !.failed = z])
         /\ [u EXCEPT !.zones = z].acked = u.acked /\ [u EXCEPT !.zones = z].review = u.review
         /\ [u EXCEPT !.failed = z].acked = u.acked /\ [u EXCEPT !.failed = z].review = u.review
         /\ [u EXCEPT !.zones = z].high = u.high /\ [u EXCEPT !.zones = z].edit = u.edit
BY DEF SettingsForm, FormShape, Fields

\* Typing replaces the draft.
LEMMA EditForm ==
  ASSUME NEW u, SettingsForm(u), NEW c, Draft(c)
  PROVE  /\ SettingsForm([u EXCEPT !.edit = c])
         /\ [u EXCEPT !.edit = c].acked = u.acked /\ [u EXCEPT !.edit = c].review = u.review
BY DEF SettingsForm, FormShape, Fields

\* A review that is released has returned more than was acknowledged.
LEMMA ReloadedForm ==
  ASSUME SettingsForm(ui), ReloadRun(run, ui), NEW a, SettingsAnswer(a), a # None,
         Settings!reviewable(run, a)
  PROVE  LET shown == [Settings!Shown(ui, a.data.set) EXCEPT !.zones = a.data.zones] IN
         /\ ~run.forReview => SettingsForm(shown)
         /\ run.forReview =>
              SettingsForm([shown EXCEPT
                !.edit = [run.draft EXCEPT !.rev = a.data.set.rev, !.seen = a.data.set],
                !.review = None])
<1>. DEFINE fresh == a.data.set
            u == Settings!Shown(ui, fresh)
            shown == [u EXCEPT !.zones = a.data.zones]
            d == [run.draft EXCEPT !.rev = fresh.rev, !.seen = fresh]
<1>1. a.ok /\ fresh.rev \in Int
  BY DEF Settings!reviewable, SettingsAnswer
<1>2. Draft(d)
  <2>1. Draft(run.draft)
    BY DEF ReloadRun, Fields
  <2>. QED BY <1>1, <2>1 DEF Draft, Fields
<1>3. ui.review # None => fresh.rev > ui.acked
  <2>. SUFFICES ASSUME ui.review # None PROVE fresh.rev > ui.acked
    OBVIOUS
  <2>1. /\ run.review # None /\ run.review.minimum \in Int /\ run.review.minimum > ui.acked
        /\ run.high \in Int /\ ui.acked \in Int
    BY DEF ReloadRun, SettingsForm, Floor, Fields
  <2>2. fresh.rev >= Settings!Max2(run.high, run.review.minimum)
    BY <2>1 DEF Settings!reviewable
  <2>3. Settings!Max2(run.high, run.review.minimum) \in Int
        /\ Settings!Max2(run.high, run.review.minimum) >= run.review.minimum
    BY <2>1, SettingsMax
  <2>. QED BY <1>1, <2>1, <2>2, <2>3
<1>. HIDE DEF fresh
<1>4. SettingsForm(u) /\ u.acked = ui.acked /\ u.high >= fresh.rev /\ u.review = ui.review
  BY <1>1, ShownForm
<1>. HIDE DEF u
<1>5. /\ SettingsForm(shown) /\ shown.acked = ui.acked /\ shown.high = u.high
      /\ shown.review = ui.review
  BY <1>4, ZonesForm
<1>. HIDE DEF shown, d
<1>6. shown.high > shown.acked
  BY <1>1, <1>3, <1>4, <1>5 DEF SettingsForm
<1>. DEFINE v == [shown EXCEPT !.edit = d, !.review = None]
<1>7. /\ FormShape(v) /\ v.data = shown.data /\ v.high = shown.high /\ v.acked = shown.acked
      /\ v.edit = d /\ v.review = None
  BY <1>5 DEF SettingsForm, FormShape, Fields
<1>. HIDE DEF v
<1>8. SettingsForm(v)
  BY <1>2, <1>5, <1>6, <1>7 DEF SettingsForm
<1>. QED BY <1>5, <1>8 DEF fresh, u, shown, d, v

\* A latched form owes a review.
LEMMA LatchForm ==
  ASSUME NEW u, SettingsForm(u), NEW e, Draft(e), NEW f \in Floor, NEW k \in Int, f.minimum > k
  PROVE  SettingsForm([u EXCEPT !.edit = e, !.review = f, !.acked = k])
<1>. DEFINE v == [u EXCEPT !.edit = e, !.review = f, !.acked = k]
<1>1. /\ FormShape(v) /\ v.data = u.data /\ v.high = u.high /\ v.acked = k
      /\ v.edit = e /\ v.review = f
  BY DEF SettingsForm, FormShape, Fields
<1>2. f # None
  BY ConsoleBounds DEF Floor
<1>. HIDE DEF v
<1>3. SettingsForm(v)
  BY <1>1, <1>2 DEF SettingsForm
<1>. QED BY <1>3 DEF v

\* What Saved makes of an answer.
SavedAs(a) ==
  LET r == run
      base == Settings!Max2(r.sub.rev, ui.high)
      least == Settings!Max2(r.sub.rev + 1, ui.high)
      latch(minimum, newer) ==
        [ui EXCEPT !.edit = Settings!Kept(ui, r.sub),
                   !.review = [minimum |-> minimum, newer |-> newer],
                   !.acked = IF a.ok THEN r.sub.rev ELSE @] IN
  CASE a.conflict -> latch(base, r.sub.rev)
    [] a.garbled -> latch(base, -1)
    [] a.ok /\ a.data.set.rev < least -> latch(least, r.sub.rev)
    [] a.ok /\ a.data.set.rev >= least ->
         Settings!acknowledged([Settings!Shown(ui, a.data.set) EXCEPT !.acked = r.sub.rev], r)
    [] OTHER -> ui

\* However a save ends, the form is above what is acknowledged or has a review
\* to do that ends above it.
LEMMA SavedForm ==
  ASSUME SettingsForm(ui), PutRun(run, ui), NEW a, SettingsAnswer(a), a # None
  PROVE  SettingsForm(SavedAs(a))
<1>. DEFINE u == SavedAs(a)
            rev == run.sub.rev
            base == Settings!Max2(rev, ui.high)
            least == Settings!Max2(rev + 1, ui.high)
            kept == Settings!Kept(ui, run.sub)
<1>. SUFFICES SettingsForm(u)
  OBVIOUS
<1>1. /\ rev \in Int /\ rev > ui.acked /\ ui.high \in Int /\ ui.acked \in Int
  BY DEF PutRun, Draft, SettingsForm, Fields
<1>2. base \in Int /\ base >= rev /\ least \in Int /\ least >= rev + 1
  <2>1. rev + 1 \in Int
    BY <1>1
  <2>2. base \in Int /\ base >= rev
    BY <1>1, SettingsMax
  <2>3. least \in Int /\ least >= rev + 1
    BY <1>1, <2>1, SettingsMax
  <2>. QED BY <2>2, <2>3
<1>3. Draft(kept)
  BY DEF PutRun, SettingsForm, Settings!Kept
<1>. HIDE DEF u, rev, base, least, kept
<1>5. CASE a.ok
  <2>1. ~a.conflict /\ ~a.garbled /\ a.data.set.rev \in Int
    BY <1>5 DEF SettingsAnswer
  <2>2. CASE a.data.set.rev < least
    <3>. DEFINE f == [minimum |-> least, newer |-> rev]
    <3>1. f \in Floor /\ f.minimum > rev
      BY <1>1, <1>2 DEF Floor
    <3>2. u = [ui EXCEPT !.edit = kept, !.review = f, !.acked = rev]
      BY <1>2, <1>5, <2>1, <2>2 DEF u, SavedAs, rev, least, kept
    <3>. HIDE DEF f
    <3>. QED BY <1>1, <1>3, <3>1, <3>2, LatchForm
  <2>3. CASE a.data.set.rev >= least
    <3>. DEFINE v == Settings!Shown(ui, a.data.set)
                w == [v EXCEPT !.acked = rev]
    <3>1. SettingsForm(v) /\ v.high >= a.data.set.rev /\ v.high \in Int
      BY <2>1, ShownForm DEF SettingsForm
    <3>. HIDE DEF v
    <3>2. /\ FormShape(w) /\ w.data.rev \in Int /\ w.high \in Int /\ w.acked = rev /\ w.high > rev
          /\ w.edit # None => Draft(w.edit)
      BY <1>1, <1>2, <2>1, <2>3, <3>1 DEF SettingsForm, FormShape, Fields
    <3>3. u = Settings!acknowledged(w, run)
      BY <1>2, <1>5, <2>1, <2>3 DEF u, SavedAs, rev, least, v
    <3>. HIDE DEF w
    <3>4. CASE run.mine
      <4>1. u = [w EXCEPT !.edit = None, !.review = None]
        BY <3>3, <3>4 DEF Settings!acknowledged
      <4>. QED BY <1>1, <3>2, <4>1 DEF SettingsForm, FormShape, Fields
    <3>5. CASE ~run.mine
      <4>. DEFINE f == [minimum |-> w.high, newer |-> -1]
      <4>1. f \in Floor /\ f.minimum = w.high /\ f # None
        BY <3>2, ConsoleBounds DEF Floor
      <4>. HIDE DEF f
      <4>2. u = [w EXCEPT !.review = f]
        BY <3>3, <3>5 DEF Settings!acknowledged, f
      <4>. QED BY <1>1, <3>2, <4>1, <4>2 DEF SettingsForm, FormShape, Fields
    <3>. QED BY <3>4, <3>5
  <2>. QED BY <1>2, <2>1, <2>2, <2>3
<1>6. CASE ~a.ok
  <2>2. CASE a.conflict
    <3>. DEFINE f == [minimum |-> base, newer |-> rev]
    <3>1. f \in Floor /\ f.minimum > ui.acked
      BY <1>1, <1>2 DEF Floor
    <3>2. u = [ui EXCEPT !.edit = kept, !.review = f, !.acked = ui.acked]
      BY <1>6, <2>2 DEF SettingsAnswer, u, SavedAs, rev, base, kept
    <3>. HIDE DEF f
    <3>. QED BY <1>1, <1>3, <3>1, <3>2, LatchForm
  <2>3. CASE ~a.conflict /\ a.garbled
    <3>. DEFINE f == [minimum |-> base, newer |-> -1]
    <3>1. f \in Floor /\ f.minimum > ui.acked
      BY <1>1, <1>2 DEF Floor
    <3>2. u = [ui EXCEPT !.edit = kept, !.review = f, !.acked = ui.acked]
      BY <1>6, <2>3 DEF u, SavedAs, rev, base, kept
    <3>. HIDE DEF f
    <3>. QED BY <1>1, <1>3, <3>1, <3>2, LatchForm
  <2>4. CASE ~a.conflict /\ ~a.garbled
    BY <1>6, <2>4 DEF u, SavedAs
  <2>. QED BY <2>2, <2>3, <2>4
<1>. QED BY <1>5, <1>6 DEF SettingsAnswer

\* The actions a form starts.
LEMMA StartPut ==
  ASSUME NEW c, Draft(c), NEW u, c.rev > u.acked
  PROVE  PutRun(Settings!Start("put", [sub |-> c]), u)
<1>. DEFINE r == Settings!Start("put", [sub |-> c])
<1>1. r \in [sub : {c}, op : {"put"}, mine : BOOLEAN, steady : BOOLEAN]
  BY DEF Settings!Start, Settings!Over
<1>2. Fields(r, {"sub", "op", "mine", "steady"}) /\ r.op = "put" /\ r.sub = c
  BY <1>1 DEF Fields
<1>. QED BY <1>2 DEF PutRun

\* A reload starts with the review it is for.
LEMMA StartReload ==
  ASSUME NEW d, Draft(d), NEW u, NEW h \in Int, NEW f, u.review # None => f
  PROVE  ReloadRun(Settings!Start("reload", [forReview |-> f, draft |-> d, review |-> u.review,
                                             high |-> h]), u)
<1>. DEFINE r == Settings!Start("reload", [forReview |-> f, draft |-> d, review |-> u.review,
                                           high |-> h])
<1>1. r \in [forReview : {f}, draft : {d}, review : {u.review}, high : {h},
             op : {"reload"}, mine : BOOLEAN, steady : BOOLEAN]
  BY DEF Settings!Start, Settings!Over
<1>2. /\ Fields(r, {"forReview", "draft", "review", "high", "op", "mine", "steady"})
      /\ r.op = "reload" /\ r.draft = d /\ r.high = h /\ r.review = u.review /\ r.forReview = f
  BY <1>1 DEF Fields
<1>. QED BY <1>2 DEF ReloadRun

\* The actions of the domain list.
LEMMA StartOther ==
  ASSUME NEW op \in {"add", "verify", "delete"}, NEW x
  PROVE  /\ OtherRun(Settings!Start(op, <<>>))
         /\ OtherRun(Settings!Start(op, [id |-> x]))
<1>1. Settings!Start(op, <<>>) \in [op : {op}, mine : BOOLEAN, steady : BOOLEAN]
  <2>1. DOMAIN <<>> = {}
    OBVIOUS
  <2>2. Settings!Start(op, <<>>) = [op |-> op, mine |-> TRUE, steady |-> TRUE]
    BY <2>1 DEF Settings!Start, Settings!Over
  <2>3. [op |-> op, mine |-> TRUE, steady |-> TRUE] \in [op : {op}, mine : BOOLEAN, steady : BOOLEAN]
    OBVIOUS
  <2>. QED BY <2>2, <2>3
<1>2. Settings!Start(op, [id |-> x]) \in [id : {x}, op : {op}, mine : BOOLEAN, steady : BOOLEAN]
  BY DEF Settings!Start, Settings!Over
<1>3. ASSUME NEW r \in [op : {op}, mine : BOOLEAN, steady : BOOLEAN] PROVE OtherRun(r)
  BY DEF OtherRun, Fields
<1>4. ASSUME NEW r \in [id : {x}, op : {op}, mine : BOOLEAN, steady : BOOLEAN] PROVE OtherRun(r)
  BY DEF OtherRun, Fields
<1>. QED BY <1>1, <1>2, <1>3, <1>4

\* A command on its way is one of the form's own.
LEMMA SentSettings ==
  ASSUME NEW m, m.kind \in {"settings", "put"}, Settings!Send(m)
  PROVE  SettingsNet(net')
BY DEF Settings!Send, SettingsNet, SettingsAnswer, Packet

\* A draft that is sent is a save.
LEMMA PutKind == ASSUME NEW c, Draft(c) PROVE Settings!Over(c, [kind |-> "put"]).kind = "put"
<1>1. DOMAIN c = {"name", "zone", "rev", "seen"} /\ DOMAIN [kind |-> "put"] = {"kind"}
  BY DEF Draft, Fields
<1>. QED BY <1>1 DEF Settings!Over

\* A request that fails for its caller shows no settings.
LEMMA NoAnswer ==
  /\ SettingsAnswer(Settings!No) /\ SettingsAnswer(Settings!Garbled)
BY DEF SettingsAnswer, Settings!No, Settings!Garbled

\* An answer joins the request under way.
LEMMA RepliedSettings ==
  ASSUME SettingsNet(net), net # None, NEW a, SettingsAnswer(a), Settings!Reply(a)
  PROVE  SettingsNet(net')
<1>1. net' = [net EXCEPT !.answer = a] /\ Packet(net)
  BY DEF Settings!Reply, SettingsNet
<1>2. Packet(net') /\ net'.cmd = net.cmd /\ net'.answer = a
  BY <1>1 DEF Packet
<1>. QED BY <1>2 DEF SettingsNet

\* A step of the settings form itself.
LEMMA SettingsUserStep ==
  ASSUME SettingsOK, form = "settings", Settings!change \/ Settings!reload \/ Settings!save
  PROVE  SettingsOK'
<1>0. /\ SettingsRow(srv) /\ SettingsForm(ui) /\ SettingsRun(run, ui) /\ SettingsNet(net)
      /\ \A m \in stray : m.kind = "put"
  BY DEF SettingsOK
<1>. DEFINE c == Settings!config(ui)
<1>1. Draft(c)
  BY <1>0, ConfigDraft
<1>. HIDE DEF c
<1>2. CASE Settings!change
  <2>1. PICK d : Draft(d) /\ Settings!Type([ui EXCEPT !.edit = d])
    <3>1. \A w : Draft([c EXCEPT !.name = w]) /\ Draft([c EXCEPT !.zone = w])
      BY <1>1 DEF Draft, Fields
    <3>. QED BY <1>2, <3>1 DEF Settings!change, c
  <2>2. /\ ui' = [ui EXCEPT !.edit = d] /\ run' = Settings!Edited /\ net' = net
        /\ form' = form /\ srv' = srv /\ stray' = stray
    BY <2>1 DEF Settings!Type, Settings!Here
  <2>3. SettingsForm(ui') /\ ui'.acked = ui.acked /\ ui'.review = ui.review
    BY <1>0, <2>1, <2>2, EditForm
  <2>4. SettingsRun(run', ui')
    BY <1>0, <2>2, <2>3, MarkedRun
  <2>. QED BY <1>0, <2>2, <2>3, <2>4 DEF SettingsOK
<1>3. CASE Settings!reload
  <2>1. /\ run' = Settings!Start("reload",
                    [forReview |-> Settings!settingsStale(ui), draft |-> c, review |-> ui.review,
                     high |-> ui.high])
        /\ Settings!Send([kind |-> "settings"]) /\ ui' = ui
        /\ form' = form /\ srv' = srv /\ stray' = stray
    BY <1>3 DEF Settings!reload, Settings!Read, Settings!Here, c
  <2>2. ui.review # None => Settings!settingsStale(ui)
    BY DEF Settings!settingsStale
  <2>3. ReloadRun(run', ui)
    BY <1>0, <1>1, <2>1, <2>2, StartReload DEF SettingsForm
  <2>4. SettingsNet(net')
    BY <2>1, SentSettings
  <2>. QED BY <1>0, <2>1, <2>3, <2>4 DEF SettingsOK, SettingsRun
<1>4. CASE Settings!save
  <2>1. /\ Settings!settingsReady(ui) /\ ~Settings!settingsStale(ui)
        /\ run' = Settings!Start("put", [sub |-> c])
        /\ Settings!Send(Settings!Over(c, [kind |-> "put"])) /\ ui' = ui
        /\ form' = form /\ srv' = srv /\ stray' = stray
    BY <1>4 DEF Settings!save, Settings!Write, Settings!Here, c
  <2>2. ui.data.rev >= ui.high /\ ui.review = None /\ (ui.edit # None => ui.edit.rev = ui.data.rev)
    BY <2>1 DEF Settings!settingsReady, Settings!settingsStale
  <2>3. c.rev = ui.data.rev
    BY <2>2 DEF Settings!config, c
  <2>4. c.rev > ui.acked
    BY <1>0, <2>2, <2>3 DEF SettingsForm
  <2>5. PutRun(run', ui)
    BY <1>1, <2>1, <2>4, StartPut
  <2>6. SettingsNet(net')
    BY <1>1, <2>1, SentSettings, PutKind
  <2>. QED BY <1>0, <2>1, <2>5, <2>6 DEF SettingsOK, SettingsRun
<1>. QED BY <1>2, <1>3, <1>4

\* An answer reaches the settings form.
LEMMA SettingsAnswerStep ==
  ASSUME SettingsOK, form = "settings",
         \/ Settings!Reloaded \/ Settings!Saved \/ Settings!DomainDone \/ Settings!Listed
  PROVE  SettingsOK'
<1>0. /\ SettingsRow(srv) /\ SettingsForm(ui) /\ SettingsRun(run, ui) /\ SettingsNet(net)
      /\ \A m \in stray : m.kind = "put"
  BY DEF SettingsOK
<1>1. run # None => run.op \in {"put", "reload"}
  BY <1>0 DEF SettingsRun, PutRun, ReloadRun
<1>2. ~Settings!DomainDone /\ ~Settings!Listed
  BY <1>1 DEF Settings!DomainDone, Settings!Listed, Settings!Doing
<1>3. net # None /\ net.answer # None => SettingsAnswer(net.answer)
  BY <1>0 DEF SettingsNet
<1>4. ASSUME NEW u, Settings!End(u), SettingsForm(u) PROVE SettingsOK'
  <2>1. /\ run' = None /\ net' = None /\ ui' = u
        /\ form' = form /\ srv' = srv /\ stray' = stray
    BY <1>4 DEF Settings!End, Settings!Stop, Settings!Hang, Settings!Here
  <2>. QED BY <1>0, <1>4, <2>1 DEF SettingsOK, SettingsRun, SettingsNet
<1>5. CASE Settings!Reloaded
  <2>. DEFINE a == net.answer
              shown == [Settings!Shown(ui, a.data.set) EXCEPT !.zones = a.data.zones]
              taken == [shown EXCEPT
                          !.edit = [run.draft EXCEPT !.rev = a.data.set.rev, !.seen = a.data.set],
                          !.review = None]
              u == IF ~Settings!reviewable(run, a) THEN ui
                   ELSE IF ~run.forReview THEN shown ELSE taken
  <2>1. /\ run # None /\ run.op = "reload" /\ net # None /\ a # None
        /\ Settings!End(u)
    BY <1>5 DEF Settings!Reloaded, Settings!Doing, Settings!Answered, Settings!Got
  <2>2. ReloadRun(run, ui)
    BY <1>0, <2>1 DEF SettingsRun, PutRun
  <2>3. SettingsAnswer(a)
    BY <1>3, <2>1
  <2>4. Settings!reviewable(run, a) =>
          (~run.forReview => SettingsForm(shown)) /\ (run.forReview => SettingsForm(taken))
    BY <1>0, <2>1, <2>2, <2>3, ReloadedForm
  <2>. HIDE DEF a, shown, taken
  <2>5. SettingsForm(u)
    BY <1>0, <2>4
  <2>. QED BY <1>4, <2>1, <2>5
<1>6. CASE Settings!Saved
  <2>1. /\ run # None /\ run.op = "put" /\ net # None /\ net.answer # None
        /\ Settings!End(SavedAs(net.answer))
    BY <1>6 DEF Settings!Saved, Settings!Doing, Settings!Answered, Settings!Got, SavedAs
  <2>2. PutRun(run, ui)
    BY <1>0, <2>1 DEF SettingsRun, ReloadRun
  <2>3. SettingsForm(SavedAs(net.answer))
    BY <1>0, <1>3, <2>1, <2>2, SavedForm
  <2>. QED BY <1>4, <2>1, <2>3
<1>. QED BY <1>2, <1>5, <1>6

\* The caches, a remount, the server and other administrators.
LEMMA SettingsWorldStep ==
  ASSUME SettingsOK, form = "settings",
         \/ Settings!Revalidate \/ Settings!Remount \/ Settings!Rival
         \/ Settings!Serve \/ Settings!Lose \/ Settings!ServeStray
  PROVE  SettingsOK'
<1>0. /\ SettingsRow(srv) /\ SettingsForm(ui) /\ SettingsRun(run, ui) /\ SettingsNet(net)
      /\ \A m \in stray : m.kind = "put"
  BY DEF SettingsOK
<1>1. CASE Settings!Revalidate
  <2>1. PICK u : /\ u \in {Settings!Shown(ui, srv.set), [ui EXCEPT !.zones = srv.zones],
                           [ui EXCEPT !.failed = TRUE]}
                 /\ ui' = u /\ run' = Settings!Moved /\ net' = net
                 /\ form' = form /\ srv' = srv /\ stray' = stray
    BY <1>1 DEF Settings!Revalidate, Settings!Refresh, Settings!RefreshFails, Settings!Here
  <2>2. srv.set.rev \in Int
    BY <1>0 DEF SettingsRow
  <2>3. SettingsForm(u) /\ u.acked = ui.acked /\ u.review = ui.review
    <3>1. CASE u = Settings!Shown(ui, srv.set)
      BY <1>0, <2>2, <3>1, ShownForm
    <3>2. CASE u = [ui EXCEPT !.zones = srv.zones]
      BY <1>0, <3>2 DEF SettingsForm, FormShape, Fields
    <3>3. CASE u = [ui EXCEPT !.failed = TRUE]
      BY <1>0, <3>3 DEF SettingsForm, FormShape, Fields
    <3>. QED BY <2>1, <3>1, <3>2, <3>3
  <2>4. SettingsRun(run', u)
    BY <1>0, <2>1, <2>3, MarkedRun
  <2>. QED BY <1>0, <2>1, <2>3, <2>4 DEF SettingsOK
<1>2. CASE Settings!Remount
  <2>1. /\ ui' = Settings!Blank /\ net' = None /\ run' = None /\ form' = form /\ srv' = srv
        /\ stray' = stray \cup Settings!Dropped(Settings!Writes)
    BY <1>2 DEF Settings!Remount, Settings!Reenter, Settings!Abandon
  <2>2. \A m \in Settings!Dropped(Settings!Writes) : m.kind = "put"
    BY <1>0 DEF Settings!Dropped, Settings!Writes, Settings!Unanswered, SettingsNet
  <2>3. SettingsForm(Settings!Blank)
    BY <1>0 DEF SettingsRow, Settings!Blank, SettingsForm, FormShape, Fields
  <2>. QED BY <1>0, <2>1, <2>2, <2>3 DEF SettingsOK, SettingsRun, SettingsNet
<1>3. ASSUME SettingsRow(srv'), SettingsNet(net'), form' = form, run' = run, ui' = ui,
             \A m \in stray' : m.kind = "put"
      PROVE  SettingsOK'
  BY <1>0, <1>3 DEF SettingsOK
<1>4. CASE Settings!Rival
  <2>1. /\ form' = form /\ run' = run /\ ui' = ui /\ net' = net /\ stray' = stray
    BY <1>4 DEF Settings!Rival, Settings!Others
  <2>2. \/ \E m : srv' = Settings!ConfigureCompany(srv, m).srv
        \/ \E m, ok : srv' = Settings!VerifyZone(srv, m, ok).srv
        \/ \E m : srv' = Settings!DeleteZone(srv, m).srv
    <3>1. \A o \in Settings!Handle(srv, [kind |-> "verify", id |-> Settings!Second]) :
            \E m, ok : o = Settings!VerifyZone(srv, m, ok)
      BY DEF Settings!Handle
    <3>. QED BY <1>4, <3>1 DEF Settings!Rival, Settings!Others
  <2>3. \/ \E m : srv' = Settings!ConfigureCompany(srv, m).srv
        \/ \E z : srv' = [srv EXCEPT !.zones = z]
        \/ srv' = srv
    BY <2>2 DEF Settings!VerifyZone, Settings!DeleteZone, Settings!Out
  <2>4. SettingsRow(srv')
    <3>1. CASE \E m : srv' = Settings!ConfigureCompany(srv, m).srv
      BY <1>0, <3>1, ConfigureRow
    <3>2. CASE \E z : srv' = [srv EXCEPT !.zones = z]
      BY <1>0, <3>2 DEF SettingsRow, Fields
    <3>. QED BY <1>0, <2>3, <3>1, <3>2
  <2>. QED BY <1>0, <1>3, <2>1, <2>4
<1>5. CASE Settings!Serve
  <2>1. /\ net # None /\ form' = form /\ run' = run /\ ui' = ui /\ stray' = stray
        /\ net.cmd.kind \in {"settings", "put"}
    BY <1>0, <1>5
    DEF Settings!Serve, Settings!ServeBy, Settings!Commit, Settings!Unanswered, SettingsNet
  <2>2. CASE Settings!Commit
    <3>1. srv' = Settings!ConfigureCompany(srv, net.cmd).srv /\ Settings!Send([kind |-> "settings"])
      BY <2>2 DEF Settings!Commit
    <3>2. SettingsRow(srv') /\ SettingsNet(net')
      BY <1>0, <3>1, ConfigureRow, SentSettings
    <3>. QED BY <1>0, <1>3, <2>1, <3>2
  <2>3. CASE ~Settings!Commit
    <3>1. PICK o \in Settings!Handle(srv, net.cmd) :
            (net.cmd.kind = "put" => ~o.a.ok) /\ srv' = o.srv /\ Settings!Reply(o.a)
      BY <1>5, <2>3 DEF Settings!Serve, Settings!ServeBy
    <3>2. SettingsRow(srv') /\ SettingsAnswer(o.a)
      BY <1>0, <2>1, <3>1, SettingsRequest
    <3>3. SettingsNet(net')
      BY <1>0, <2>1, <3>1, <3>2, RepliedSettings
    <3>. QED BY <1>0, <1>3, <2>1, <3>2, <3>3
  <2>. QED BY <2>2, <2>3
<1>6. CASE Settings!Lose
  <2>1. /\ net # None /\ form' = form /\ run' = run /\ ui' = ui
        /\ net.cmd.kind \in {"settings", "put"}
        /\ srv' = srv \/ \E o \in Settings!Handle(srv, net.cmd) : srv' = o.srv
        /\ Settings!Reply(Settings!No) \/ Settings!Reply(Settings!Garbled)
        /\ \/ stray' = stray
           \/ net.cmd.kind \in Settings!Writes /\ stray' = stray \cup {net.cmd}
    BY <1>0, <1>6 DEF Settings!Lose, Settings!LoseBy, Settings!Unanswered, SettingsNet
  <2>2. SettingsRow(srv')
    BY <1>0, <2>1, SettingsRequest
  <2>3. SettingsNet(net')
    BY <1>0, <2>1, RepliedSettings, NoAnswer
  <2>4. \A m \in stray' : m.kind = "put"
    BY <1>0, <2>1 DEF Settings!Writes
  <2>. QED BY <1>3, <2>1, <2>2, <2>3, <2>4
<1>7. CASE Settings!ServeStray
  <2>1. PICK m \in stray : Settings!StrayBy(m, Settings!Handle(srv, m))
    BY <1>7 DEF Settings!ServeStray
  <2>2. /\ form' = form /\ run' = run /\ ui' = ui /\ net' = net /\ stray' = stray \ {m}
        /\ \E o \in Settings!Handle(srv, m) : srv' = o.srv
    BY <2>1 DEF Settings!StrayBy
  <2>3. SettingsRow(srv')
    BY <1>0, <2>1, <2>2, SettingsRequest
  <2>. QED BY <1>0, <1>3, <2>2, <2>3
<1>. QED BY <1>1, <1>2, <1>4, <1>5, <1>6, <1>7

\* The domain list saves no settings.
LEMMA DomainsStep ==
  ASSUME SettingsOK, form # "settings", Settings!Next
  PROVE  SettingsOK'
<1>0. run = None \/ OtherRun(run)
  BY DEF SettingsOK
<1>1. ~Settings!Reloaded /\ ~Settings!Saved
  BY <1>0 DEF Settings!Reloaded, Settings!Saved, Settings!Doing, OtherRun
<1>2. /\ Settings!Edited = None \/ OtherRun(Settings!Edited)
      /\ Settings!Moved = None \/ OtherRun(Settings!Moved)
      /\ run # None => OtherRun(Settings!Step("list"))
  BY <1>0 DEF Settings!Edited, Settings!Moved, Settings!Step, OtherRun, Fields
<1>3. form' = form /\ (run' = None \/ OtherRun(run'))
  <2>1. CASE Settings!typeDomain
    BY <1>2, <2>1 DEF Settings!typeDomain, Settings!Type, Settings!Here
  <2>2. CASE Settings!addDomain
    BY <2>2, StartOther DEF Settings!addDomain, Settings!Write, Settings!Here
  <2>3. CASE Settings!verifyDomain
    BY <2>3, StartOther DEF Settings!verifyDomain, Settings!Write, Settings!Here
  <2>4. CASE Settings!deleteDomain
    BY <2>4, StartOther DEF Settings!deleteDomain, Settings!Write, Settings!Here
  <2>5. CASE Settings!retry \/ Settings!Revalidate
    BY <1>2, <2>5
    DEF Settings!retry, Settings!Revalidate, Settings!Refresh, Settings!RefreshFails,
        Settings!Here
  <2>6. CASE Settings!DomainDone
    <3>1. run # None /\ (run.op = "add" \/ run.op = "verify" \/ run.op = "delete")
      BY <2>6 DEF Settings!DomainDone, Settings!Doing
    <3>2. \E u : Settings!End(u) \/ Settings!ReadZones(u)
      BY <2>6, <3>1 DEF Settings!DomainDone
    <3>. QED BY <1>2, <3>1, <3>2
         DEF Settings!End, Settings!ReadZones, Settings!Then, Settings!Stop, Settings!Here
  <2>7. CASE Settings!Listed
    BY <2>7 DEF Settings!Listed, Settings!End, Settings!Stop, Settings!Here
  <2>8. CASE Settings!Remount
    BY <2>8 DEF Settings!Remount, Settings!Reenter, Settings!Abandon
  <2>9. CASE Settings!Rival \/ Settings!Serve \/ Settings!Lose \/ Settings!ServeStray
    BY <1>0, <2>9
    DEF Settings!Rival, Settings!Others, Settings!Serve, Settings!ServeBy, Settings!Commit,
        Settings!Lose, Settings!LoseBy, Settings!ServeStray, Settings!StrayBy
  <2>. QED
    BY <1>1, <2>1, <2>2, <2>3, <2>4, <2>5, <2>6, <2>7, <2>8, <2>9 DEF Settings!Next
<1>. QED BY <1>3 DEF SettingsOK

\* Every step of the settings page keeps its invariant.
LEMMA SettingsStep ==
  ASSUME SettingsOK, Settings!Next
  PROVE  SettingsOK'
<1>1. CASE form = "settings"
  BY <1>1, SettingsUserStep, SettingsAnswerStep, SettingsWorldStep DEF Settings!Next
<1>. QED BY <1>1, DomainsStep

\* The settings page when it opens.
LEMMA SettingsStart == ASSUME Settings!Init PROVE SettingsOK
<1>1. /\ run = None /\ net = None /\ stray = {} /\ ui = Settings!Blank
      /\ Fields(srv, {"set", "zones", "next"}) /\ srv.set.rev \in Nat
  <2>. DEFINE old == [rev |-> 1, name |-> "a", zone |-> 1]
              zs == {[id |-> 1, name |-> "d1", ok |-> TRUE], [id |-> 2, name |-> "d2", ok |-> TRUE]}
  <2>1. Settings!emptySettings.rev \in Nat /\ old.rev \in Nat
    BY DEF Settings!emptySettings
  <2>2. srv \in [set : {Settings!emptySettings, old}, zones : {zs}, next : {3}]
    BY DEF Settings!Init
  <2>. HIDE DEF old, zs
  <2>3. Fields(srv, {"set", "zones", "next"}) /\ srv.set.rev \in Nat
    BY <2>1, <2>2 DEF Fields
  <2>. QED BY <2>3 DEF Settings!Init, Settings!Quiet
<1>2. SettingsRow(srv)
  BY <1>1 DEF SettingsRow
<1>3. form = "settings" => SettingsForm(Settings!Blank)
  BY <1>1 DEF Settings!Blank, SettingsForm, FormShape, Fields
<1>. QED BY <1>1, <1>2, <1>3 DEF SettingsOK, SettingsRun, SettingsNet

-----------------------------------------------------------------------------
(* The domains of a company, and what is typed on its settings page.       *)

\* The primary domain is one of the company's.
ZonesRow(s) ==
  /\ Fields(s, {"set", "zones", "next"}) /\ \A z \in s.zones : Fields(z, {"id", "name", "ok"})
  /\ s.set.zone # 0 => \E z \in s.zones : z.id = s.set.zone
ZonesKinds == {"settings", "zones"} \cup Settings!Writes
DomainsForm(u) == Fields(u, {"zones", "failed", "input", "checks"})
ZonesOK ==
  /\ form \in Settings!Forms /\ ZonesRow(srv)
  /\ net # None => Packet(net) /\ net.cmd.kind \in ZonesKinds
  /\ \A m \in stray : m.kind \in Settings!Writes
  /\ form = "domains" => DomainsForm(ui)

\* No request takes the primary domain from the company.
LEMMA ZonesRequest ==
  ASSUME NEW s, ZonesRow(s), NEW m, m.kind \in ZonesKinds, NEW o \in Settings!Handle(s, m)
  PROVE  ZonesRow(o.srv)
<1>1. ASSUME NEW t, NEW a PROVE Settings!Out(t, a).srv = t
  BY DEF Settings!Out
<1>2. CASE m.kind \in {"settings", "zones"}
  <2>1. \E a : o = Settings!Out(s, a)
    BY <1>2 DEF Settings!Handle
  <2>. QED BY <1>1, <2>1
<1>3. CASE m.kind = "put"
  <2>1. o = Settings!ConfigureCompany(s, m)
    BY <1>3 DEF Settings!Handle
  <2>2. PICK set : set = [rev |-> s.set.rev + 1, name |-> m.name, zone |-> m.zone]
    OBVIOUS
  <2>3. \/ o.srv = s
        \/ m.zone \in Settings!Verified(s.zones) /\ o.srv = [s EXCEPT !.set = set]
    BY <1>1, <2>1, <2>2 DEF Settings!ConfigureCompany
  <2>4. CASE m.zone \in Settings!Verified(s.zones) /\ o.srv = [s EXCEPT !.set = set]
    <3>1. \E z \in s.zones : z.id = m.zone
      BY <2>4 DEF Settings!Verified
    <3>2. Fields(o.srv, {"set", "zones", "next"}) /\ o.srv.set = set /\ o.srv.zones = s.zones
      BY <2>4 DEF ZonesRow, Fields
    <3>. QED BY <2>2, <3>1, <3>2 DEF ZonesRow
  <2>. QED BY <2>3, <2>4
<1>4. CASE m.kind = "add"
  <2>1. o = Settings!CreateZone(s, m)
    BY <1>4 DEF Settings!Handle
  <2>2. PICK z : z = [id |-> s.next, name |-> m.name, ok |-> FALSE]
    OBVIOUS
  <2>3. o.srv = s \/ o.srv = [s EXCEPT !.zones = @ \cup {z}, !.next = @ + 1]
    BY <1>1, <2>1, <2>2 DEF Settings!CreateZone
  <2>4. Fields(z, {"id", "name", "ok"})
    BY <2>2 DEF Fields
  <2>5. CASE o.srv = [s EXCEPT !.zones = @ \cup {z}, !.next = @ + 1]
    <3>1. Fields(o.srv, {"set", "zones", "next"}) /\ o.srv.set = s.set /\ o.srv.zones = s.zones \cup {z}
      BY <2>5 DEF ZonesRow, Fields
    <3>. QED BY <2>4, <3>1 DEF ZonesRow
  <2>. QED BY <2>3, <2>5
<1>5. CASE m.kind = "verify"
  <2>1. PICK ok \in BOOLEAN : o = Settings!VerifyZone(s, m, ok)
    BY <1>5 DEF Settings!Handle
  <2>. DEFINE marked(z) == IF z.id = m.id THEN [z EXCEPT !.ok = ok] ELSE z
              all == {marked(z) : z \in s.zones}
  <2>2. o.srv = s \/ o.srv = [s EXCEPT !.zones = all]
    BY <1>1, <2>1 DEF Settings!VerifyZone
  <2>3. ASSUME NEW z \in s.zones PROVE Fields(marked(z), {"id", "name", "ok"}) /\ marked(z).id = z.id
    <3>1. Fields(z, {"id", "name", "ok"})
      BY DEF ZonesRow
    <3>. QED BY <3>1 DEF Fields
  <2>4. CASE o.srv = [s EXCEPT !.zones = all]
    <3>. HIDE DEF marked
    <3>1. \A z \in all : Fields(z, {"id", "name", "ok"})
      BY <2>3
    <3>2. \A z \in s.zones : \E y \in all : y.id = z.id
      BY <2>3
    <3>. HIDE DEF all
    <3>3. Fields(o.srv, {"set", "zones", "next"}) /\ o.srv.set = s.set /\ o.srv.zones = all
      BY <2>4 DEF ZonesRow, Fields
    <3>. QED BY <3>1, <3>2, <3>3 DEF ZonesRow
  <2>. QED BY <2>2, <2>4
<1>6. CASE m.kind = "delete"
  <2>1. o = Settings!DeleteZone(s, m)
    BY <1>6 DEF Settings!Handle
  <2>2. o.srv = s \/ (m.id # s.set.zone /\ o.srv = [s EXCEPT !.zones = {z \in @ : z.id # m.id}])
    BY <1>1, <2>1 DEF Settings!DeleteZone
  <2>3. CASE m.id # s.set.zone /\ o.srv = [s EXCEPT !.zones = {z \in @ : z.id # m.id}]
    <3>1. /\ Fields(o.srv, {"set", "zones", "next"}) /\ o.srv.set = s.set
          /\ o.srv.zones = {z \in s.zones : z.id # m.id}
      BY <2>3 DEF ZonesRow, Fields
    <3>. QED BY <2>3, <3>1 DEF ZonesRow
  <2>. QED BY <2>2, <2>3
<1>. QED BY <1>2, <1>3, <1>4, <1>5, <1>6 DEF ZonesKinds, Settings!Writes

\* The page keeps count, and does not change its form.
LEMMA SettingsCounts ==
  ASSUME Counted, Settings!Next PROVE Counted' /\ form' = form
<1>1. CASE Settings!Reloaded \/ Settings!Saved \/ Settings!DomainDone \/ Settings!Listed
  <2>1. \E u : Settings!End(u) \/ Settings!ReadZones(u)
    BY <1>1 DEF Settings!Reloaded, Settings!Saved, Settings!DomainDone, Settings!Listed, Settings!Doing
  <2>. QED BY <2>1 DEF Settings!End, Settings!ReadZones, Settings!Then, Settings!Here, Counted
<1>2. CASE ~(Settings!Reloaded \/ Settings!Saved \/ Settings!DomainDone \/ Settings!Listed)
  <2>1. /\ form' = form /\ moves' \in {moves, moves + 1} /\ rivals' \in {rivals, rivals + 1}
        /\ lost' \in {lost, lost + 1}
    BY <1>2
    DEF Settings!Next, Settings!change, Settings!reload, Settings!save, Settings!typeDomain,
        Settings!addDomain, Settings!verifyDomain, Settings!deleteDomain, Settings!retry,
        Settings!Revalidate, Settings!Remount, Settings!Rival, Settings!Serve, Settings!Commit,
        Settings!Lose, Settings!ServeStray,
        Settings!Type, Settings!Read, Settings!Write, Settings!Refresh, Settings!RefreshFails,
        Settings!Reenter, Settings!Abandon, Settings!Others, Settings!ServeBy, Settings!LoseBy,
        Settings!StrayBy, Settings!Here, Settings!Move, Settings!Call
  <2>. QED BY <2>1 DEF Counted
<1>. QED BY <1>1, <1>2

\* Every step of the settings page leaves the primary domain where it is.
LEMMA ZonesStep == ASSUME Counted, SettingsOK, ZonesOK, Settings!Next PROVE ZonesOK'
<1>0. /\ form \in Settings!Forms /\ ZonesRow(srv)
      /\ net # None => Packet(net) /\ net.cmd.kind \in ZonesKinds
      /\ \A m \in stray : m.kind \in Settings!Writes
      /\ form = "domains" => DomainsForm(ui)
  BY DEF ZonesOK
<1>a. form' = form
  BY SettingsCounts

\* The page moves on.
<1>1. ASSUME srv' = srv, stray' = stray, form = "domains" => DomainsForm(ui'),
             \/ net' = net \/ net' = None
             \/ \E m : m.kind \in ZonesKinds /\ Settings!Send(m)
      PROVE  ZonesOK'
  <2>1. net' # None => Packet(net') /\ net'.cmd.kind \in ZonesKinds
    <3>1. ASSUME NEW m, m.kind \in ZonesKinds, Settings!Send(m) PROVE Packet(net') /\ net'.cmd.kind \in ZonesKinds
      <4>1. net' = [cmd |-> m, answer |-> None]
        BY <3>1 DEF Settings!Send
      <4>. QED BY <3>1, <4>1 DEF Packet
    <3>. QED BY <1>0, <1>1, <3>1
  <2>. QED BY <1>0, <1>a, <1>1, <2>1 DEF ZonesOK

\* The server moves on.
<1>2. ASSUME ui' = ui, ZonesRow(srv'), \A m \in stray' : m.kind \in Settings!Writes,
             \/ net' = net
             \/ net # None /\ \E a : net' = [net EXCEPT !.answer = a]
             \/ Settings!Send([kind |-> "settings"])
      PROVE  ZonesOK'
  <2>1. net' # None => Packet(net') /\ net'.cmd.kind \in ZonesKinds
    <3>1. CASE net # None /\ \E a : net' = [net EXCEPT !.answer = a]
      BY <1>0, <3>1 DEF Packet
    <3>2. CASE Settings!Send([kind |-> "settings"])
      <4>1. PICK m : m = [kind |-> "settings"]
        OBVIOUS
      <4>2. net' = [cmd |-> m, answer |-> None]
        BY <3>2, <4>1 DEF Settings!Send
      <4>. QED BY <4>1, <4>2 DEF Packet, ZonesKinds
    <3>. QED BY <1>0, <1>2, <3>1, <3>2
  <2>. QED BY <1>0, <1>a, <1>2, <2>1 DEF ZonesOK
<1>3. CASE form = "settings" /\ Settings!change
  BY <1>1, <1>3 DEF Settings!change, Settings!Type, Settings!Here
<1>4. CASE form = "settings" /\ Settings!reload
  <2>1. PICK m : m = [kind |-> "settings"]
    OBVIOUS
  <2>2. Settings!Send(m) /\ srv' = srv /\ stray' = stray
    BY <1>4, <2>1 DEF Settings!reload, Settings!Read, Settings!Here
  <2>. QED BY <1>1, <1>4, <2>1, <2>2 DEF ZonesKinds
<1>5. CASE form = "settings" /\ Settings!save
  <2>1. Draft(Settings!config(ui))
    BY <1>5, ConfigDraft DEF SettingsOK
  <2>2. PICK m : m = Settings!Over(Settings!config(ui), [kind |-> "put"])
    OBVIOUS
  <2>3. Settings!Send(m) /\ srv' = srv /\ stray' = stray
    BY <1>5, <2>2 DEF Settings!save, Settings!Write, Settings!Here
  <2>4. m.kind = "put"
    BY <2>1, <2>2, PutKind
  <2>. QED BY <1>1, <1>5, <2>3, <2>4 DEF ZonesKinds, Settings!Writes
<1>6. CASE form = "domains" /\ Settings!typeDomain
  <2>1. PICK d : ui' = [ui EXCEPT !.input = d] /\ srv' = srv /\ stray' = stray /\ net' = net
    BY <1>6 DEF Settings!typeDomain, Settings!Type, Settings!Here
  <2>2. DomainsForm(ui')
    BY <1>0, <1>6, <2>1 DEF DomainsForm, Fields
  <2>. QED BY <1>1, <2>1, <2>2
<1>7. CASE form = "domains" /\ (Settings!addDomain \/ Settings!verifyDomain \/ Settings!deleteDomain)
  <2>1. \E m : m.kind \in ZonesKinds /\ Settings!Send(m) /\ srv' = srv /\ stray' = stray /\ ui' = ui
    <3>1. ASSUME NEW op, NEW d, NEW m, Settings!Write(op, d, m, ui)
          PROVE  Settings!Send(m) /\ srv' = srv /\ stray' = stray /\ ui' = ui
      BY <3>1 DEF Settings!Write, Settings!Here
    <3>2. CASE Settings!addDomain
      <4>1. PICK m : m = [kind |-> "add", name |-> ui.input]
        OBVIOUS
      <4>2. Settings!Write("add", <<>>, m, ui)
        BY <3>2, <4>1 DEF Settings!addDomain
      <4>. QED BY <3>1, <4>1, <4>2 DEF ZonesKinds, Settings!Writes
    <3>3. CASE Settings!verifyDomain
      <4>1. PICK z, m : m = [kind |-> "verify", id |-> z.id] /\ Settings!Write("verify", [id |-> z.id], m, ui)
        BY <3>3 DEF Settings!verifyDomain
      <4>. QED BY <3>1, <4>1 DEF ZonesKinds, Settings!Writes
    <3>4. CASE Settings!deleteDomain
      <4>1. PICK z, m : m = [kind |-> "delete", id |-> z.id] /\ Settings!Write("delete", [id |-> z.id], m, ui)
        BY <3>4 DEF Settings!deleteDomain
      <4>. QED BY <3>1, <4>1 DEF ZonesKinds, Settings!Writes
    <3>. QED BY <1>7, <3>2, <3>3, <3>4
  <2>. QED BY <1>0, <1>1, <2>1
<1>8. CASE Settings!Reloaded \/ Settings!Saved
  <2>1. form # "domains"
    <3>1. run # None /\ run.op \in {"reload", "put"}
      BY <1>8 DEF Settings!Reloaded, Settings!Saved, Settings!Doing
    <3>. QED BY <3>1 DEF SettingsOK, OtherRun
  <2>2. srv' = srv /\ stray' = stray /\ net' = None
    <3>1. \E u : Settings!End(u)
      BY <1>8 DEF Settings!Reloaded, Settings!Saved
    <3>. QED BY <3>1 DEF Settings!End, Settings!Hang, Settings!Here
  <2>. QED BY <1>1, <2>1, <2>2
<1>9. CASE Settings!DomainDone \/ Settings!Listed \/ (form = "domains" /\ Settings!retry) \/ Settings!Revalidate
  <2>1. /\ srv' = srv /\ stray' = stray
        /\ net' = net \/ net' = None \/ Settings!Send([kind |-> "zones"])
    <3>1. CASE Settings!DomainDone
      <4>1. \E u : Settings!End(u) \/ Settings!ReadZones(u)
        BY <3>1 DEF Settings!DomainDone, Settings!Doing
      <4>. QED BY <4>1 DEF Settings!End, Settings!ReadZones, Settings!Then, Settings!Hang, Settings!Here
    <3>2. CASE Settings!Listed
      BY <3>2 DEF Settings!Listed, Settings!End, Settings!Hang, Settings!Here
    <3>3. CASE Settings!retry \/ Settings!Revalidate
      BY <3>3 DEF Settings!retry, Settings!Revalidate, Settings!Refresh, Settings!RefreshFails, Settings!Here
    <3>. QED BY <1>9, <3>1, <3>2, <3>3
  <2>2. ASSUME form = "domains" PROVE DomainsForm(ui')
    <3>1. /\ DomainsForm(ui)
          /\ \A x : DomainsForm([ui EXCEPT !.input = x]) /\ DomainsForm([ui EXCEPT !.checks = x])
                    /\ DomainsForm([ui EXCEPT !.zones = x]) /\ DomainsForm([ui EXCEPT !.failed = x])
          /\ \A x, y : DomainsForm([ui EXCEPT !.zones = x, !.failed = y])
          /\ \A x, y, z : DomainsForm([ui EXCEPT !.zones = x, !.checks = y, !.failed = z])
      BY <1>0, <2>2 DEF DomainsForm, Fields
    <3>2. CASE Settings!DomainDone
      <4>1. ASSUME NEW u, Settings!End(u) \/ Settings!ReadZones(u) PROVE ui' = u
        BY <4>1 DEF Settings!End, Settings!ReadZones, Settings!Then
      <4>2. run.op \in {"add", "verify", "delete"}
        BY <3>2 DEF Settings!DomainDone, Settings!Doing
      <4>3. CASE ~Settings!Got.ok \/ ~run.steady
        BY <3>1, <3>2, <4>1, <4>3 DEF Settings!DomainDone
      <4>4. CASE ~(~Settings!Got.ok \/ ~run.steady) /\ run.op = "add"
        <5>1. ui' = Settings!added(ui, run)
          BY <3>2, <4>1, <4>4 DEF Settings!DomainDone
        <5>. QED BY <3>1, <5>1 DEF Settings!added
      <4>5. CASE ~(~Settings!Got.ok \/ ~run.steady) /\ run.op \in {"verify", "delete"}
        <5>1. \E x : ui' = [ui EXCEPT !.checks = x]
          BY <3>2, <4>1, <4>5 DEF Settings!DomainDone
        <5>. QED BY <3>1, <5>1
      <4>. QED BY <4>2, <4>3, <4>4, <4>5
    <3>3. CASE Settings!Listed
      BY <3>1, <3>3 DEF Settings!Listed, Settings!End
    <3>4. CASE Settings!retry
      BY <3>1, <3>4 DEF Settings!retry, Settings!Refresh
    <3>5. CASE Settings!Revalidate
      BY <2>2, <3>1, <3>5 DEF Settings!Revalidate, Settings!Refresh, Settings!RefreshFails
    <3>. QED BY <1>9, <3>2, <3>3, <3>4, <3>5
  <2>3. PICK m : m = [kind |-> "zones"]
    OBVIOUS
  <2>. QED BY <1>1, <2>1, <2>2, <2>3 DEF ZonesKinds
<1>10. CASE Settings!Remount
  <2>1. /\ form' = form /\ srv' = srv /\ net' = None /\ ui' = Settings!Blank
        /\ stray' = stray \cup Settings!Dropped(Settings!Writes)
    BY <1>10 DEF Settings!Remount, Settings!Reenter, Settings!Abandon
  <2>2. \A m \in stray' : m.kind \in Settings!Writes
    <3>1. \A m \in Settings!Dropped(Settings!Writes) : m.kind \in Settings!Writes
      BY DEF Settings!Dropped
    <3>. QED BY <1>0, <2>1, <3>1
  <2>3. form = "domains" => DomainsForm(ui')
    BY <2>1 DEF Settings!Blank, DomainsForm, Fields
  <2>. QED BY <1>0, <2>1, <2>2, <2>3 DEF ZonesOK
<1>11. CASE Settings!Rival
  <2>1. PICK m, o : /\ m.kind \in ZonesKinds /\ o \in Settings!Handle(srv, m) /\ Settings!Others(o.srv)
    <3>1. CASE Settings!Others(Settings!ConfigureCompany(srv, [rev |-> srv.set.rev, name |-> "b", zone |-> Settings!Second]).srv)
      <4>1. PICK a : a = [rev |-> srv.set.rev, name |-> "b", zone |-> Settings!Second]
        OBVIOUS
      <4>2. PICK m : m = [kind |-> "put", rev |-> srv.set.rev, name |-> "b", zone |-> Settings!Second]
        OBVIOUS
      <4>3. Settings!ConfigureCompany(srv, a) = Settings!ConfigureCompany(srv, m)
        BY <4>1, <4>2 DEF Settings!ConfigureCompany
      <4>4. PICK o : o = Settings!ConfigureCompany(srv, m)
        OBVIOUS
      <4>5. o \in Settings!Handle(srv, m)
        BY <4>2, <4>4 DEF Settings!Handle
      <4>6. m.kind \in ZonesKinds
        BY <4>2 DEF ZonesKinds, Settings!Writes
      <4>7. Settings!Others(o.srv)
        BY <3>1, <4>1, <4>3, <4>4
      <4>. QED BY <4>5, <4>6, <4>7
    <3>2. CASE \E o \in Settings!Handle(srv, [kind |-> "verify", id |-> Settings!Second]) : Settings!Others(o.srv)
      <4>1. PICK m : m = [kind |-> "verify", id |-> Settings!Second]
        OBVIOUS
      <4>2. m.kind \in ZonesKinds
        BY <4>1 DEF ZonesKinds, Settings!Writes
      <4>. QED BY <3>2, <4>1, <4>2
    <3>3. CASE Settings!Others(Settings!DeleteZone(srv, [id |-> Settings!Second]).srv)
      <4>1. PICK a : a = [id |-> Settings!Second]
        OBVIOUS
      <4>2. PICK m : m = [kind |-> "delete", id |-> Settings!Second]
        OBVIOUS
      <4>3. Settings!DeleteZone(srv, a) = Settings!DeleteZone(srv, m)
        BY <4>1, <4>2 DEF Settings!DeleteZone
      <4>4. PICK o : o = Settings!DeleteZone(srv, m)
        OBVIOUS
      <4>5. o \in Settings!Handle(srv, m)
        BY <4>2, <4>4 DEF Settings!Handle
      <4>6. m.kind \in ZonesKinds
        BY <4>2 DEF ZonesKinds, Settings!Writes
      <4>7. Settings!Others(o.srv)
        BY <3>3, <4>1, <4>3, <4>4
      <4>. QED BY <4>5, <4>6, <4>7
    <3>. QED BY <1>11, <3>1, <3>2, <3>3 DEF Settings!Rival
  <2>2. ZonesRow(o.srv)
    BY <1>0, <2>1, ZonesRequest
  <2>. QED BY <1>0, <1>2, <2>1, <2>2 DEF Settings!Others
<1>12. CASE Settings!Serve
  <2>1. CASE Settings!ServeBy({o \in Settings!Handle(srv, net.cmd) : net.cmd.kind = "put" => ~o.a.ok})
    <3>1. PICK o : /\ o \in Settings!Handle(srv, net.cmd) /\ srv' = o.srv
                   /\ net' = [net EXCEPT !.answer = o.a] /\ net # None
      BY <2>1 DEF Settings!ServeBy, Settings!Reply, Settings!Unanswered
    <3>2. ZonesRow(srv')
      BY <1>0, <3>1, ZonesRequest
    <3>3. ui' = ui /\ stray' = stray
      BY <2>1 DEF Settings!ServeBy
    <3>. QED BY <1>0, <1>2, <3>1, <3>2, <3>3
  <2>2. CASE Settings!Commit
    <3>1. PICK o : o = Settings!ConfigureCompany(srv, net.cmd)
      OBVIOUS
    <3>2. /\ net # None /\ net.cmd.kind = "put" /\ srv' = o.srv /\ Settings!Send([kind |-> "settings"])
          /\ ui' = ui /\ stray' = stray
      BY <2>2, <3>1 DEF Settings!Commit, Settings!Unanswered
    <3>3. o \in Settings!Handle(srv, net.cmd)
      BY <3>1, <3>2 DEF Settings!Handle
    <3>4. ZonesRow(srv')
      BY <1>0, <3>2, <3>3, ZonesRequest
    <3>. QED BY <1>0, <1>2, <3>2, <3>4
  <2>. QED BY <1>12, <2>1, <2>2 DEF Settings!Serve
<1>13. CASE Settings!Lose
  <2>1. /\ net # None /\ ui' = ui /\ \E a : net' = [net EXCEPT !.answer = a]
        /\ \/ srv' = srv
           \/ \E o \in Settings!Handle(srv, net.cmd) : srv' = o.srv
        /\ \/ stray' = stray
           \/ net.cmd.kind \in Settings!Writes /\ stray' = stray \cup {net.cmd}
    BY <1>13 DEF Settings!Lose, Settings!LoseBy, Settings!Reply, Settings!Unanswered
  <2>2. ZonesRow(srv')
    BY <1>0, <2>1, ZonesRequest
  <2>3. \A m \in stray' : m.kind \in Settings!Writes
    BY <1>0, <2>1
  <2>. QED BY <1>0, <1>2, <2>1, <2>2, <2>3
<1>14. CASE Settings!ServeStray
  <2>1. PICK m \in stray : Settings!StrayBy(m, Settings!Handle(srv, m))
    BY <1>14 DEF Settings!ServeStray
  <2>2. PICK o \in Settings!Handle(srv, m) : srv' = o.srv
    BY <2>1 DEF Settings!StrayBy
  <2>3. m.kind \in ZonesKinds
    BY <1>0, <2>1 DEF ZonesKinds
  <2>4. ZonesRow(srv')
    BY <1>0, <2>2, <2>3, ZonesRequest
  <2>5. ui' = ui /\ net' = net /\ stray' = stray \ {m}
    BY <2>1 DEF Settings!StrayBy
  <2>. QED BY <1>0, <1>2, <2>4, <2>5
<1>. QED
  BY <1>3, <1>4, <1>5, <1>6, <1>7, <1>8, <1>9, <1>10, <1>11, <1>12, <1>13, <1>14 DEF Settings!Next

\* The settings page starts so.
LEMMA ZonesBegin == ASSUME Settings!Init PROVE ZonesOK /\ Counted
<1>1. Counted
  BY DEF Settings!Init, Settings!Quiet, Counted
<1>2. form \in Settings!Forms /\ net = None /\ stray = {} /\ ui = Settings!Blank
  BY DEF Settings!Init, Settings!Quiet
<1>3. PICK a, b : a = [id |-> 1, name |-> "d1", ok |-> TRUE] /\ b = [id |-> 2, name |-> "d2", ok |-> TRUE]
  OBVIOUS
<1>4. PICK c : c = [rev |-> 1, name |-> "a", zone |-> 1]
  OBVIOUS
<1>5. srv \in [set : {Settings!emptySettings, c}, zones : {{a, b}}, next : {3}]
  BY <1>3, <1>4 DEF Settings!Init
<1>6. ZonesRow(srv)
  <2>1. Fields(srv, {"set", "zones", "next"}) /\ srv.zones = {a, b} /\ srv.set.zone \in {0, 1}
    <3>1. PICK e : e = Settings!emptySettings
      OBVIOUS
    <3>2. e.zone = 0 /\ c.zone = 1
      BY <1>4, <3>1 DEF Settings!emptySettings
    <3>3. PICK zs : zs = {a, b}
      OBVIOUS
    <3>4. srv \in [set : {e, c}, zones : {zs}, next : {3}]
      BY <1>5, <3>1, <3>3
    <3>5. Fields(srv, {"set", "zones", "next"}) /\ srv.zones = zs /\ srv.set \in {e, c}
      BY <3>4 DEF Fields
    <3>. QED BY <3>2, <3>3, <3>5
  <2>2. Fields(a, {"id", "name", "ok"}) /\ Fields(b, {"id", "name", "ok"}) /\ a.id = 1
    BY <1>3 DEF Fields
  <2>. QED BY <2>1, <2>2 DEF ZonesRow
<1>7. form = "domains" => DomainsForm(ui)
  BY <1>2 DEF Settings!Blank, DomainsForm, Fields
<1>. QED BY <1>1, <1>2, <1>6, <1>7 DEF ZonesOK

\* The primary domain is one of the company's.
LEMMA ZonesMean == ASSUME ZonesOK PROVE Settings!PrimaryKept
BY DEF ZonesOK, ZonesRow, Settings!PrimaryKept, Settings!Ids

\* What is typed on the settings page goes only when it was accepted.
LEMMA SettingsTyped ==
  ASSUME Counted, SettingsOK, ZonesOK, Settings!Next PROVE Settings!TypedKept
<1>a. moves # moves + 1
  BY DEF Counted
<1>b. form' = form /\ form \in {"settings", "domains"}
  BY SettingsCounts DEF ZonesOK, Settings!Forms
<1>. DEFINE taken == run # None /\ run.mine /\ Settings!Answered /\ Settings!Got.ok
            kept == IF form = "domains" THEN ui'.input = ui.input
                    ELSE ui.edit = None \/ ui'.edit = ui.edit
<1>c. ASSUME kept \/ moves' # moves \/ taken PROVE Settings!TypedKept
  BY <1>b, <1>c DEF Settings!TypedKept, Settings!Typed
<1>. SUFFICES kept \/ moves' # moves \/ taken
  BY <1>c
<1>d. form = "domains" => DomainsForm(ui)
  BY DEF ZonesOK
<1>e. form = "settings" => FormShape(ui) /\ SettingsRun(run, ui)
  BY DEF SettingsOK, SettingsForm
<1>f. form = "domains" => run = None \/ OtherRun(run)
  BY DEF SettingsOK
<1>1. CASE Settings!change \/ Settings!reload \/ Settings!save \/ Settings!typeDomain
           \/ Settings!addDomain \/ Settings!verifyDomain \/ Settings!deleteDomain
           \/ Settings!Remount \/ Settings!Rival \/ Settings!Serve \/ Settings!Lose
           \/ Settings!ServeStray
  <2>1. ui' = ui \/ moves' = moves + 1
    BY <1>1
    DEF Settings!change, Settings!reload, Settings!save, Settings!typeDomain, Settings!addDomain,
        Settings!verifyDomain, Settings!deleteDomain, Settings!Remount, Settings!Rival,
        Settings!Serve, Settings!Lose, Settings!ServeStray, Settings!Commit,
        Settings!Type, Settings!Read, Settings!Write, Settings!Reenter, Settings!Others,
        Settings!ServeBy, Settings!LoseBy, Settings!StrayBy, Settings!Move
  <2>. QED BY <1>a, <2>1
<1>2. CASE Settings!Revalidate \/ (form = "domains" /\ Settings!retry)
  <2>1. CASE Settings!retry /\ form = "domains"
    BY <1>d, <2>1 DEF Settings!retry, Settings!Refresh, DomainsForm, Fields
  <2>2. CASE form = "settings" /\ Settings!Refresh(Settings!Shown(ui, srv.set))
    <3>1. ui' = Settings!Shown(ui, srv.set)
      BY <2>2 DEF Settings!Refresh
    <3>. QED BY <1>e, <2>2, <3>1 DEF Settings!Shown, FormShape, Fields
  <2>3. CASE \E x : ui' = [ui EXCEPT !.zones = x] \/ ui' = [ui EXCEPT !.failed = x]
    BY <1>b, <1>d, <1>e, <2>3 DEF FormShape, DomainsForm, Fields
  <2>. QED BY <1>2, <2>1, <2>2, <2>3 DEF Settings!Revalidate, Settings!Refresh, Settings!RefreshFails
<1>3. CASE Settings!Reloaded
  <2>1. run # None /\ run.op = "reload" /\ Settings!Answered
    BY <1>3 DEF Settings!Reloaded, Settings!Doing
  <2>2. form = "settings"
    BY <1>b, <1>f, <2>1 DEF OtherRun
  <2>3. CASE ~Settings!reviewable(run, Settings!Got)
    BY <1>3, <2>2, <2>3 DEF Settings!Reloaded, Settings!End
  <2>4. CASE Settings!reviewable(run, Settings!Got)
    BY <2>1, <2>4 DEF Settings!reviewable
  <2>. QED BY <2>3, <2>4
<1>4. CASE Settings!Saved
  <2>1. run # None /\ run.op = "put" /\ Settings!Answered
    BY <1>4 DEF Settings!Saved, Settings!Doing
  <2>2. form = "settings"
    BY <1>b, <1>f, <2>1 DEF OtherRun
  <2>3. \/ ui' = ui
        \/ \E x, y : ui' = [ui EXCEPT !.edit = Settings!Kept(ui, run.sub), !.review = x, !.acked = y]
        \/ /\ Settings!Got.ok
           /\ \E y : ui' = Settings!acknowledged([Settings!Shown(ui, Settings!Got.data.set) EXCEPT !.acked = y], run)
    <3>. DEFINE a == net.answer
    <3>1. ui' = SavedAs(a)
      BY <1>4 DEF Settings!Saved, Settings!End, Settings!Got, SavedAs
    <3>2. SettingsAnswer(a) /\ a # None
      BY <2>1, <2>2 DEF SettingsOK, SettingsNet, Settings!Answered
    <3>3. run.sub.rev \in Int /\ ui.high \in Int
      <4>1. PutRun(run, ui)
        BY <1>e, <2>1, <2>2 DEF SettingsRun, ReloadRun
      <4>. QED BY <2>2, <4>1 DEF PutRun, Draft, SettingsOK, SettingsForm
    <3>. DEFINE least == Settings!Max2(run.sub.rev + 1, ui.high)
                base == Settings!Max2(run.sub.rev, ui.high)
    <3>4. least \in Int
      <4>1. run.sub.rev + 1 \in Int
        BY <3>3
      <4>. QED BY <3>3, <4>1, SettingsMax
    <3>. HIDE DEF a, least, base
    <3>5. CASE a.ok
      <4>1. a.data.set.rev \in Int /\ ~a.conflict /\ ~a.garbled
        BY <3>2, <3>5 DEF SettingsAnswer
      <4>2. CASE a.data.set.rev < least
        <5>1. ui' = [ui EXCEPT !.edit = Settings!Kept(ui, run.sub),
                       !.review = [minimum |-> least, newer |-> run.sub.rev], !.acked = run.sub.rev]
          BY <3>1, <3>4, <3>5, <4>1, <4>2 DEF SavedAs, least
        <5>. QED BY <5>1
      <4>3. CASE a.data.set.rev >= least
        <5>1. ui' = Settings!acknowledged([Settings!Shown(ui, a.data.set) EXCEPT !.acked = run.sub.rev], run)
          BY <3>1, <3>4, <3>5, <4>1, <4>3 DEF SavedAs, least
        <5>. QED BY <3>5, <5>1 DEF a, Settings!Got
      <4>4. a.data.set.rev < least \/ a.data.set.rev >= least
        BY <3>4, <4>1
      <4>. QED BY <4>2, <4>3, <4>4
    <3>6. CASE ~a.ok /\ a.conflict
      <4>1. ui' = [ui EXCEPT !.edit = Settings!Kept(ui, run.sub),
                     !.review = [minimum |-> base, newer |-> run.sub.rev], !.acked = ui.acked]
        BY <3>1, <3>2, <3>6 DEF SavedAs, SettingsAnswer, base
      <4>. QED BY <4>1
    <3>7. CASE ~a.ok /\ ~a.conflict /\ a.garbled
      <4>1. ui' = [ui EXCEPT !.edit = Settings!Kept(ui, run.sub),
                     !.review = [minimum |-> base, newer |-> -1], !.acked = ui.acked]
        BY <3>1, <3>7 DEF SavedAs, base
      <4>. QED BY <4>1
    <3>8. CASE ~a.ok /\ ~a.conflict /\ ~a.garbled
      BY <3>1, <3>8 DEF SavedAs
    <3>. QED BY <3>5, <3>6, <3>7, <3>8
  <2>4. CASE \E x, y : ui' = [ui EXCEPT !.edit = Settings!Kept(ui, run.sub), !.review = x, !.acked = y]
    BY <1>e, <2>2, <2>4 DEF Settings!Kept, FormShape, Fields
  <2>5. CASE /\ Settings!Got.ok
             /\ \E y : ui' = Settings!acknowledged([Settings!Shown(ui, Settings!Got.data.set) EXCEPT !.acked = y], run)
    <3>1. CASE run.mine
      BY <2>1, <2>5, <3>1
    <3>2. CASE ~run.mine
      <4>1. PICK y : ui' = Settings!acknowledged([Settings!Shown(ui, Settings!Got.data.set) EXCEPT !.acked = y], run)
        BY <2>5
      <4>2. PICK u : u = [Settings!Shown(ui, Settings!Got.data.set) EXCEPT !.acked = y]
        OBVIOUS
      <4>3. FormShape(u) /\ u.edit = ui.edit
        BY <1>e, <2>2, <4>2 DEF Settings!Shown, FormShape, Fields
      <4>4. \E x : ui' = [u EXCEPT !.review = x]
        BY <3>2, <4>1, <4>2 DEF Settings!acknowledged
      <4>. QED BY <2>2, <4>3, <4>4 DEF FormShape, Fields
    <3>. QED BY <3>1, <3>2
  <2>. QED BY <2>2, <2>3, <2>4, <2>5
<1>5. CASE Settings!DomainDone \/ Settings!Listed
  <2>1. run # None /\ run.op \in {"add", "verify", "delete", "list"} /\ Settings!Answered
    BY <1>5 DEF Settings!DomainDone, Settings!Listed, Settings!Doing
  <2>2. form = "domains"
    BY <1>b, <1>e, <2>1 DEF SettingsRun, PutRun, ReloadRun
  <2>3. \/ ui' = ui
        \/ \E x : ui' = [ui EXCEPT !.checks = x] \/ ui' = [ui EXCEPT !.failed = x]
        \/ \E x, y : ui' = [ui EXCEPT !.zones = x, !.failed = y]
        \/ Settings!Got.ok /\ ui' = Settings!added(ui, run)
    <3>1. CASE Settings!Listed
      BY <3>1 DEF Settings!Listed, Settings!End
    <3>2. CASE Settings!DomainDone /\ (~Settings!Got.ok \/ ~run.steady)
      BY <3>2 DEF Settings!DomainDone, Settings!End
    <3>3. CASE Settings!DomainDone /\ Settings!Got.ok /\ run.steady
      <4>1. ASSUME NEW u, Settings!ReadZones(u) PROVE ui' = u
        BY <4>1 DEF Settings!ReadZones, Settings!Then
      <4>2. run.op \in {"add", "verify", "delete"}
        BY <3>3 DEF Settings!DomainDone, Settings!Doing
      <4>3. CASE run.op = "add"
        BY <3>3, <4>1, <4>3 DEF Settings!DomainDone
      <4>4. CASE run.op \in {"verify", "delete"}
        <5>1. \E x : Settings!ReadZones([ui EXCEPT !.checks = x])
          BY <3>3, <4>4 DEF Settings!DomainDone
        <5>. QED BY <4>1, <5>1
      <4>. QED BY <4>2, <4>3, <4>4
    <3>. QED BY <1>5, <3>1, <3>2, <3>3
  <2>4. CASE Settings!Got.ok /\ ui' = Settings!added(ui, run)
    <3>1. CASE run.mine
      BY <2>1, <2>4, <3>1
    <3>2. CASE ~run.mine
      BY <2>2, <2>4, <3>2 DEF Settings!added
    <3>. QED BY <3>1, <3>2
  <2>5. CASE ~(Settings!Got.ok /\ ui' = Settings!added(ui, run))
    BY <1>d, <2>2, <2>3, <2>5 DEF DomainsForm, Fields
  <2>. QED BY <2>4, <2>5
<1>. QED BY <1>1, <1>2, <1>3, <1>4, <1>5 DEF Settings!Next

-----------------------------------------------------------------------------
(* What the settings form was filled from.                                 *)

\* The settings were d when s is what they are: no newer, and the same if not older.
Past(d, s) == d.rev \in Nat /\ d.rev <= s.rev /\ (d.rev = s.rev => d = s)
PastDraft(c, s) == c.rev = c.seen.rev /\ Past(c.seen, s)
SeenForm(u, s) ==
  /\ Past(u.data, s) /\ u.high <= s.rev
  /\ u.edit # None => PastDraft(u.edit, s)
  /\ u.review # None => u.review.minimum <= s.rev /\ u.review.newer < s.rev

\* A save that was committed or refused is for a revision that is gone.
SeenRun(r, n, s) ==
  /\ r # None /\ r.op = "put" =>
       /\ PastDraft(r.sub, s)
       /\ n # None /\ n.cmd.kind = "put" => n.cmd.rev = r.sub.rev
       /\ n # None /\ (n.cmd.kind # "put" \/ (n.answer # None /\ n.answer.conflict)) =>
            r.sub.rev < s.rev
  /\ r # None /\ r.op = "reload" => PastDraft(r.draft, s) /\ r.high <= s.rev
SeenNet(n, s) ==
  n # None => /\ n.cmd.kind = "put" => PastDraft(n.cmd, s)
              /\ n.answer # None /\ n.answer.ok => n.cmd.kind = "settings" /\ Past(n.answer.data.set, s)
SeenOK ==
  IF form = "settings"
  THEN /\ SeenForm(ui, srv.set) /\ SeenRun(run, net, srv.set) /\ SeenNet(net, srv.set)
       /\ \A m \in stray : PastDraft(m, srv.set)
  ELSE /\ net # None => net.cmd.kind # "put"
       /\ \A m \in stray : m.kind # "put"

\* A change of the settings makes the next revision: what was past stays past.
LEMMA PastStays ==
  ASSUME NEW s, s.rev \in Nat, NEW t, t = s \/ t.rev = s.rev + 1
  PROVE  /\ \A d : Past(d, s) => Past(d, t)
         /\ \A c : PastDraft(c, s) => PastDraft(c, t)
<1>1. ASSUME NEW d, Past(d, s) PROVE Past(d, t)
  <2>1. CASE t.rev = s.rev + 1
    <3>1. d.rev \in Nat /\ d.rev <= s.rev
      BY <1>1 DEF Past
    <3>. QED BY <2>1, <3>1 DEF Past
  <2>. QED BY <1>1, <2>1
<1>. QED BY <1>1 DEF PastDraft

\* So do the form, its action and its request.
LEMMA SeenStays ==
  ASSUME NEW s, s.rev \in Nat, NEW t, t = s \/ t.rev = s.rev + 1
  PROVE  /\ \A u : SettingsForm(u) /\ SeenForm(u, s) => SeenForm(u, t)
         /\ \A r, n, u : SettingsRun(r, u) /\ SeenRun(r, n, s) => SeenRun(r, n, t)
         /\ \A n : SeenNet(n, s) => SeenNet(n, t)
<1>1. CASE t = s
  BY <1>1
<1>2. CASE t.rev = s.rev + 1
  <2>1. ASSUME NEW u, SettingsForm(u), SeenForm(u, s) PROVE SeenForm(u, t)
    <3>1. u.high \in Int /\ (u.review # None => u.review.minimum \in Int /\ u.review.newer \in Int)
      BY <2>1 DEF SettingsForm, Floor
    <3>2. u.high <= t.rev /\ (u.review # None => u.review.minimum <= t.rev /\ u.review.newer < t.rev)
      BY <1>2, <2>1, <3>1 DEF SeenForm
    <3>. QED BY <2>1, <3>2, PastStays DEF SeenForm
  <2>2. ASSUME NEW r, NEW n, NEW u, SettingsRun(r, u), SeenRun(r, n, s) PROVE SeenRun(r, n, t)
    <3>1. r # None /\ r.op = "put" => r.sub.rev \in Int /\ (r.sub.rev < s.rev => r.sub.rev < t.rev)
      <4>1. r # None /\ r.op = "put" => r.sub.rev \in Int
        BY <2>2 DEF SettingsRun, PutRun, ReloadRun, Draft
      <4>. QED BY <1>2, <4>1
    <3>2. r # None /\ r.op = "reload" => r.high \in Int /\ (r.high <= s.rev => r.high <= t.rev)
      <4>1. r # None /\ r.op = "reload" => r.high \in Int
        BY <2>2 DEF SettingsRun, PutRun, ReloadRun
      <4>. QED BY <1>2, <4>1
    <3>. QED BY <2>2, <3>1, <3>2, PastStays DEF SeenRun
  <2>3. ASSUME NEW n, SeenNet(n, s) PROVE SeenNet(n, t)
    BY <2>3, PastStays DEF SeenNet
  <2>. QED BY <2>1, <2>2, <2>3
<1>. QED BY <1>1, <1>2

\* Settings change with a PUT under their revision, and with nothing else.
LEMMA SetMoves ==
  ASSUME NEW s, SettingsRow(s), NEW m, NEW o, o \in Settings!Handle(s, m), m.kind \in ZonesKinds
  PROVE  /\ o.srv.set = s.set \/ /\ m.kind = "put" /\ m.rev = s.set.rev /\ o.a.ok
                                 /\ o.srv.set.rev = s.set.rev + 1
         /\ m.kind = "put" /\ o.a.conflict => m.rev # s.set.rev
         /\ m.kind = "settings" => ~o.a.conflict /\ o.a.data.set = s.set
<1>0. Fields(s, {"set", "zones", "next"})
  BY DEF SettingsRow
<1>1. ASSUME NEW t, NEW a PROVE Settings!Out(t, a).srv = t /\ Settings!Out(t, a).a = a
  BY DEF Settings!Out
<1>2. CASE m.kind = "settings"
  <2>1. o = Settings!Out(s, Settings!Yes([set |-> s.set, zones |-> s.zones]))
    BY <1>2 DEF Settings!Handle
  <2>. QED BY <1>1, <1>2, <2>1 DEF Settings!Yes
<1>3. CASE m.kind = "zones"
  <2>1. o = Settings!Out(s, Settings!Yes(s.zones))
    BY <1>3 DEF Settings!Handle
  <2>. QED BY <1>1, <1>3, <2>1
<1>4. CASE m.kind = "put"
  <2>1. o = Settings!ConfigureCompany(s, m)
    BY <1>4 DEF Settings!Handle
  <2>2. PICK set : set = [rev |-> s.set.rev + 1, name |-> m.name, zone |-> m.zone]
    OBVIOUS
  <2>3. [s EXCEPT !.set = set].set.rev = s.set.rev + 1
    BY <1>0, <2>2 DEF Fields
  <2>4. CASE m.zone \notin Settings!Verified(s.zones)
    <3>1. o = Settings!Out(s, Settings!No)
      BY <2>1, <2>4 DEF Settings!ConfigureCompany
    <3>. QED BY <1>1, <1>4, <3>1 DEF Settings!No
  <2>5. CASE m.zone \in Settings!Verified(s.zones) /\ m.rev # s.set.rev
    <3>1. o = Settings!Out(s, Settings!Conflict)
      BY <2>1, <2>5 DEF Settings!ConfigureCompany
    <3>. QED BY <1>1, <1>4, <2>5, <3>1
  <2>6. CASE m.zone \in Settings!Verified(s.zones) /\ m.rev = s.set.rev
    <3>1. o.srv = [s EXCEPT !.set = set] /\ o.a = Settings!Yes(None)
      BY <1>1, <2>1, <2>2, <2>6 DEF Settings!ConfigureCompany
    <3>2. o.srv.set.rev = s.set.rev + 1
      BY <2>3, <3>1
    <3>3. o.a.ok /\ ~o.a.conflict
      BY <3>1 DEF Settings!Yes
    <3>. QED BY <1>4, <2>6, <3>2, <3>3
  <2>. QED BY <2>4, <2>5, <2>6
<1>5. CASE m.kind = "add"
  <2>1. o = Settings!CreateZone(s, m)
    BY <1>5 DEF Settings!Handle
  <2>2. PICK x : x = s.zones \cup {[id |-> s.next, name |-> m.name, ok |-> FALSE]}
    OBVIOUS
  <2>3. o.srv = s \/ o.srv = [s EXCEPT !.zones = x, !.next = s.next + 1]
    BY <1>1, <2>1, <2>2 DEF Settings!CreateZone
  <2>. QED BY <1>0, <1>5, <2>3 DEF Fields
<1>6. CASE m.kind = "verify"
  <2>1. PICK ok \in BOOLEAN : o = Settings!VerifyZone(s, m, ok)
    BY <1>6 DEF Settings!Handle
  <2>2. PICK x : x = {IF z.id = m.id THEN [z EXCEPT !.ok = ok] ELSE z : z \in s.zones}
    OBVIOUS
  <2>3. o.srv = s \/ o.srv = [s EXCEPT !.zones = x]
    BY <1>1, <2>1, <2>2 DEF Settings!VerifyZone
  <2>. QED BY <1>0, <1>6, <2>3 DEF Fields
<1>7. CASE m.kind = "delete"
  <2>1. o = Settings!DeleteZone(s, m)
    BY <1>7 DEF Settings!Handle
  <2>2. PICK x : x = {z \in s.zones : z.id # m.id}
    OBVIOUS
  <2>3. o.srv = s \/ o.srv = [s EXCEPT !.zones = x]
    BY <1>1, <2>1, <2>2 DEF Settings!DeleteZone
  <2>. QED BY <1>0, <1>7, <2>3 DEF Fields
<1>. QED BY <1>2, <1>3, <1>4, <1>5, <1>6, <1>7 DEF ZonesKinds, Settings!Writes

\* The newest revision a form knows of is none that is yet to come.
LEMMA SeenMax ==
  ASSUME NEW a \in Int, NEW b \in Int, NEW c \in Int, a <= c, b <= c
  PROVE  Settings!Max2(a, b) <= c
BY DEF Settings!Max2

\* Showing settings that were, typing over what is shown, and marking an action.
LEMMA SeenShown ==
  ASSUME NEW s, s.rev \in Nat, NEW u, SettingsForm(u), SeenForm(u, s)
  PROVE  /\ \A d : Past(d, s) => SeenForm(Settings!Shown(u, d), s)
         /\ \A x : SeenForm([u EXCEPT !.zones = x], s) /\ SeenForm([u EXCEPT !.failed = x], s)
         /\ \A c : PastDraft(c, s) => SeenForm([u EXCEPT !.edit = c], s)
<1>1. ASSUME NEW d, Past(d, s) PROVE SeenForm(Settings!Shown(u, d), s)
  <2>. DEFINE h == Settings!Max2(u.high, d.rev)
              v == [u EXCEPT !.data = d, !.high = h, !.failed = FALSE]
  <2>1. h <= s.rev
    BY <1>1, SeenMax DEF SettingsForm, SeenForm, Past
  <2>2. Settings!Shown(u, d) = v
    BY DEF Settings!Shown
  <2>. HIDE DEF h
  <2>3. v.data = d /\ v.high = h /\ v.edit = u.edit /\ v.review = u.review
    BY DEF SettingsForm, FormShape, Fields
  <2>. HIDE DEF v
  <2>. QED BY <1>1, <2>1, <2>2, <2>3 DEF SeenForm
<1>2. ASSUME NEW x PROVE SeenForm([u EXCEPT !.zones = x], s) /\ SeenForm([u EXCEPT !.failed = x], s)
  BY DEF SeenForm, SettingsForm, FormShape, Fields
<1>3. ASSUME NEW c, PastDraft(c, s) PROVE SeenForm([u EXCEPT !.edit = c], s)
  BY <1>3 DEF SeenForm, SettingsForm, FormShape, Fields
<1>. QED BY <1>1, <1>2, <1>3

\* What a form is filled with was shown.
LEMMA SeenConfig ==
  ASSUME NEW s, NEW u, SettingsForm(u), SeenForm(u, s)
  PROVE  PastDraft(Settings!config(u), s)
<1>1. CASE u.edit # None
  BY <1>1 DEF Settings!config, SeenForm
<1>2. CASE u.edit = None
  <2>1. PICK c : c = Settings!config(u)
    OBVIOUS
  <2>2. c.rev = u.data.rev /\ c.seen = u.data
    BY <1>2, <2>1 DEF Settings!config
  <2>. QED BY <2>1, <2>2 DEF SeenForm, PastDraft
<1>. QED BY <1>1, <1>2

\* An action that is marked is for what it was for.
LEMMA SeenMarked ==
  ASSUME SettingsRun(run, ui), NEW n, NEW s, SeenRun(run, n, s),
         NEW r, r \in {run, Settings!Edited, Settings!Moved}
  PROVE  SeenRun(r, n, s)
<1>1. CASE run = None
  BY <1>1 DEF Settings!Edited, Settings!Moved
<1>2. CASE run # None /\ PutRun(run, ui)
  <2>1. r # None => r.op = "put" /\ r.sub = run.sub
    BY <1>2 DEF PutRun, Fields, Settings!Edited, Settings!Moved
  <2>. QED BY <1>2, <2>1 DEF SeenRun, PutRun
<1>3. CASE run # None /\ ReloadRun(run, ui)
  <2>1. r # None => r.op = "reload" /\ r.draft = run.draft /\ r.high = run.high
    BY <1>3 DEF ReloadRun, Fields, Settings!Edited, Settings!Moved
  <2>. QED BY <1>3, <2>1 DEF SeenRun, ReloadRun
<1>. QED BY <1>1, <1>2, <1>3 DEF SettingsRun

\* However a save ends, the form waits for no revision that is yet to come.
LEMMA SeenSaved ==
  ASSUME NEW s, s.rev \in Nat, SettingsForm(ui), PutRun(run, ui), SeenForm(ui, s), SeenRun(run, net, s),
         SettingsNet(net), SeenNet(net, s), net # None, net.answer # None, run # None
  PROVE  SeenForm(SavedAs(net.answer), s)
<1>. DEFINE a == net.answer
            u == SavedAs(a)
            rev == run.sub.rev
            base == Settings!Max2(rev, ui.high)
            least == Settings!Max2(rev + 1, ui.high)
            kept == Settings!Kept(ui, run.sub)
<1>1. rev \in Int /\ ui.high \in Int /\ rev <= s.rev /\ ui.high <= s.rev /\ SettingsAnswer(a) /\ a # None
  BY DEF PutRun, Draft, SettingsForm, SeenForm, SeenRun, PastDraft, Past, SettingsNet
<1>2. base <= s.rev /\ base \in Int
  BY <1>1 DEF Settings!Max2
<1>3. rev < s.rev => least <= s.rev /\ least \in Int
  <2>1. rev + 1 \in Int /\ (rev < s.rev => rev + 1 <= s.rev)
    BY <1>1
  <2>. QED BY <1>1, <2>1 DEF Settings!Max2
<1>4. PastDraft(kept, s) /\ (a.ok \/ a.conflict => rev < s.rev)
  BY <1>1 DEF Settings!Kept, SeenForm, SeenRun, SeenNet, SettingsNet, PutRun
<1>5. -1 < s.rev
  OBVIOUS
<1>6. ASSUME NEW m, NEW n, NEW k, m <= s.rev, n < s.rev,
             u = [ui EXCEPT !.edit = kept, !.review = [minimum |-> m, newer |-> n], !.acked = k]
      PROVE  SeenForm(u, s)
  <2>. HIDE DEF u, kept, a, rev, base, least
  <2>1. PICK f : f = [minimum |-> m, newer |-> n]
    OBVIOUS
  <2>2. f.minimum = m /\ f.newer = n
    BY <2>1
  <2>3. u.data = ui.data /\ u.high = ui.high /\ u.edit = kept /\ u.review = f
    BY <1>6, <2>1 DEF SettingsForm, FormShape, Fields
  <2>. QED BY <1>4, <1>6, <2>2, <2>3 DEF SeenForm
<1>. SUFFICES SeenForm(u, s)
  OBVIOUS
<1>. HIDE DEF u, rev, base, least, kept, a
<1>7. CASE a.ok
  <2>1. ~a.conflict /\ ~a.garbled /\ a.data.set.rev \in Int
    BY <1>1, <1>7 DEF SettingsAnswer
  <2>2. CASE a.data.set.rev < least
    <3>1. u = [ui EXCEPT !.edit = kept, !.review = [minimum |-> least, newer |-> rev], !.acked = rev]
      BY <1>3, <1>4, <1>7, <2>1, <2>2 DEF u, SavedAs, rev, least, kept
    <3>. QED BY <1>3, <1>4, <1>6, <1>7, <3>1
  <2>3. CASE a.data.set.rev >= least
    <3>. DEFINE v == Settings!Shown(ui, a.data.set)
                w == [v EXCEPT !.acked = rev]
    <3>1. Past(a.data.set, s)
      BY <1>7 DEF SeenNet, a
    <3>2. SeenForm(v, s) /\ SettingsForm(v)
      BY <2>1, <3>1, SeenShown, ShownForm
    <3>. HIDE DEF v
    <3>3. FormShape(w) /\ SeenForm(w, s)
      BY <3>2 DEF SeenForm, SettingsForm, FormShape, Fields
    <3>4. u = Settings!acknowledged(w, run)
      BY <1>3, <1>4, <1>7, <2>1, <2>3 DEF u, SavedAs, rev, least, v
    <3>. HIDE DEF w
    <3>5. CASE run.mine
      <4>1. u = [w EXCEPT !.edit = None, !.review = None]
        BY <3>4, <3>5 DEF Settings!acknowledged
      <4>. QED BY <3>3, <4>1 DEF SeenForm, FormShape, Fields
    <3>6. CASE ~run.mine
      <4>1. PICK f : f = [minimum |-> w.high, newer |-> -1]
        OBVIOUS
      <4>2. f.minimum = w.high /\ f.newer = -1
        BY <4>1
      <4>3. u = [w EXCEPT !.review = f]
        BY <3>4, <3>6, <4>1 DEF Settings!acknowledged
      <4>4. u.data = w.data /\ u.high = w.high /\ u.edit = w.edit /\ u.review = f
        BY <3>3, <4>3 DEF FormShape, Fields
      <4>. QED BY <1>5, <3>3, <4>2, <4>4 DEF SeenForm
    <3>. QED BY <3>5, <3>6
  <2>4. a.data.set.rev < least \/ a.data.set.rev >= least
    BY <1>3, <1>4, <1>7, <2>1
  <2>. QED BY <2>2, <2>3, <2>4
<1>8. CASE ~a.ok /\ a.conflict
  <2>1. u = [ui EXCEPT !.edit = kept, !.review = [minimum |-> base, newer |-> rev], !.acked = ui.acked]
    BY <1>1, <1>8 DEF u, SavedAs, rev, base, kept, SettingsAnswer
  <2>. QED BY <1>2, <1>4, <1>6, <1>8, <2>1
<1>9. CASE ~a.ok /\ ~a.conflict /\ a.garbled
  <2>1. u = [ui EXCEPT !.edit = kept, !.review = [minimum |-> base, newer |-> -1], !.acked = ui.acked]
    BY <1>9 DEF u, SavedAs, rev, base, kept
  <2>. QED BY <1>2, <1>5, <1>6, <2>1
<1>10. CASE ~a.ok /\ ~a.conflict /\ ~a.garbled
  BY <1>10 DEF u, SavedAs
<1>. QED BY <1>7, <1>8, <1>9, <1>10

\* What the server does with a request of the form, a stray save or a rival.
LEMMA SeenServer ==
  ASSUME SettingsOK, ZonesOK, SeenOK, form = "settings",
         Settings!Rival \/ Settings!Serve \/ Settings!Lose \/ Settings!ServeStray
  PROVE  SeenOK'
<1>0. /\ SettingsRow(srv) /\ SettingsForm(ui) /\ SettingsRun(run, ui) /\ SettingsNet(net)
      /\ \A m \in stray : m.kind = "put"
      /\ SeenForm(ui, srv.set) /\ SeenRun(run, net, srv.set) /\ SeenNet(net, srv.set)
      /\ \A m \in stray : PastDraft(m, srv.set)
  BY DEF SettingsOK, SeenOK
<1>a. srv.set.rev \in Nat
  BY <1>0 DEF SettingsRow
<1>1. ASSUME NEW t, t = srv.set \/ t.rev = srv.set.rev + 1
      PROVE  /\ SeenForm(ui, t) /\ SeenRun(run, net, t) /\ SeenNet(net, t)
             /\ \A c : PastDraft(c, srv.set) => PastDraft(c, t)
  BY <1>0, <1>a, <1>1, SeenStays, PastStays
<1>2. ASSUME srv'.set = srv.set \/ srv'.set.rev = srv.set.rev + 1,
             form' = form, run' = run, ui' = ui,
             SeenRun(run, net', srv'.set), SeenNet(net', srv'.set),
             stray' \subseteq stray \cup {net.cmd},
             stray' \subseteq stray \/ (net # None /\ net.cmd.kind = "put")
      PROVE  SeenOK'
  <2>1. \A m \in stray' : PastDraft(m, srv.set)
    BY <1>0, <1>2 DEF SeenNet
  <2>. QED BY <1>1, <1>2, <2>1 DEF SeenOK
<1>3. CASE Settings!Rival
  <2>1. form' = form /\ run' = run /\ ui' = ui /\ net' = net /\ stray' = stray
    BY <1>3 DEF Settings!Rival, Settings!Others
  <2>2. srv'.set = srv.set \/ srv'.set.rev = srv.set.rev + 1
    <3>1. CASE Settings!Others(Settings!ConfigureCompany(srv, [rev |-> srv.set.rev, name |-> "b", zone |-> Settings!Second]).srv)
      <4>1. PICK m : m = [kind |-> "put", rev |-> srv.set.rev, name |-> "b", zone |-> Settings!Second]
        OBVIOUS
      <4>2. PICK o : o = Settings!ConfigureCompany(srv, m)
        OBVIOUS
      <4>3. Settings!ConfigureCompany(srv, [rev |-> srv.set.rev, name |-> "b", zone |-> Settings!Second]) = o
        BY <4>1, <4>2 DEF Settings!ConfigureCompany
      <4>4. o \in Settings!Handle(srv, m) /\ m.kind \in ZonesKinds
        BY <4>1, <4>2 DEF Settings!Handle, ZonesKinds, Settings!Writes
      <4>5. srv' = o.srv
        BY <3>1, <4>3 DEF Settings!Others
      <4>. QED BY <1>0, <4>4, <4>5, SetMoves
    <3>2. CASE \E o \in Settings!Handle(srv, [kind |-> "verify", id |-> Settings!Second]) : Settings!Others(o.srv)
      <4>1. PICK m : m = [kind |-> "verify", id |-> Settings!Second]
        OBVIOUS
      <4>2. PICK o \in Settings!Handle(srv, m) : srv' = o.srv
        BY <3>2, <4>1 DEF Settings!Others
      <4>3. m.kind \in ZonesKinds
        BY <4>1 DEF ZonesKinds, Settings!Writes
      <4>. QED BY <1>0, <4>2, <4>3, SetMoves
    <3>3. CASE Settings!Others(Settings!DeleteZone(srv, [id |-> Settings!Second]).srv)
      <4>1. PICK m : m = [kind |-> "delete", id |-> Settings!Second]
        OBVIOUS
      <4>2. PICK o : o = Settings!DeleteZone(srv, m)
        OBVIOUS
      <4>3. Settings!DeleteZone(srv, [id |-> Settings!Second]) = o
        BY <4>1, <4>2 DEF Settings!DeleteZone
      <4>4. o \in Settings!Handle(srv, m) /\ m.kind \in ZonesKinds
        BY <4>1, <4>2 DEF Settings!Handle, ZonesKinds, Settings!Writes
      <4>5. srv' = o.srv
        BY <3>3, <4>3 DEF Settings!Others
      <4>. QED BY <1>0, <4>4, <4>5, SetMoves
    <3>. QED BY <1>3, <3>1, <3>2, <3>3 DEF Settings!Rival
  <2>3. SeenRun(run, net', srv'.set) /\ SeenNet(net', srv'.set)
    BY <1>1, <2>1, <2>2
  <2>. QED BY <1>2, <2>1, <2>2, <2>3
<1>4. ASSUME NEW o, o \in Settings!Handle(srv, net.cmd), net # None, srv' = o.srv,
             NEW a, net' = [net EXCEPT !.answer = a],
             \/ a = o.a /\ (net.cmd.kind = "put" => ~o.a.ok)
             \/ ~a.ok /\ ~a.conflict
      PROVE  /\ srv'.set = srv.set \/ srv'.set.rev = srv.set.rev + 1
             /\ SeenRun(run, net', srv'.set) /\ SeenNet(net', srv'.set)
  <2>1. net.cmd.kind \in {"settings", "put"} /\ net.cmd.kind \in ZonesKinds
    BY <1>0, <1>4 DEF SettingsNet, ZonesKinds, Settings!Writes
  <2>2. srv'.set = srv.set \/ srv'.set.rev = srv.set.rev + 1
    BY <1>0, <1>4, <2>1, SetMoves
  <2>3. net'.cmd = net.cmd /\ net'.answer = a
    BY <1>0, <1>4 DEF SettingsNet, Packet
  <2>4. SeenRun(run, net, srv'.set) /\ SeenNet(net, srv'.set)
    BY <1>1, <2>2
  <2>5. ASSUME net.cmd.kind = "put", a.conflict, run # None, run.op = "put"
        PROVE  run.sub.rev < srv'.set.rev
    <3>1. o.a.conflict /\ net.cmd.rev # srv.set.rev
      BY <1>0, <1>4, <2>1, <2>5, SetMoves
    <3>2. net.cmd.rev = run.sub.rev /\ run.sub.rev \in Nat /\ run.sub.rev <= srv.set.rev
      BY <1>0, <1>4, <2>5 DEF SeenRun, PastDraft, Past
    <3>3. run.sub.rev < srv.set.rev
      BY <1>a, <3>1, <3>2
    <3>. QED BY <1>a, <2>2, <3>2, <3>3
  <2>6. SeenRun(run, net', srv'.set)
    BY <1>4, <2>3, <2>4, <2>5 DEF SeenRun
  <2>7. ASSUME a.ok PROVE net.cmd.kind = "settings" /\ Past(a.data.set, srv'.set)
    <3>1. a = o.a /\ net.cmd.kind = "settings"
      BY <1>4, <2>1, <2>7
    <3>2. o.a.data.set = srv.set /\ srv'.set = srv.set
      BY <1>0, <1>4, <2>1, <3>1, SetMoves
    <3>. QED BY <1>a, <3>1, <3>2 DEF Past
  <2>8. SeenNet(net', srv'.set)
    BY <1>4, <2>3, <2>4, <2>7 DEF SeenNet
  <2>. QED BY <2>2, <2>6, <2>8
<1>5. CASE Settings!Serve
  <2>1. net # None /\ form' = form /\ run' = run /\ ui' = ui /\ stray' = stray
    BY <1>5 DEF Settings!Serve, Settings!ServeBy, Settings!Commit, Settings!Unanswered
  <2>2. CASE ~Settings!Commit
    <3>1. PICK o \in Settings!Handle(srv, net.cmd) :
            (net.cmd.kind = "put" => ~o.a.ok) /\ srv' = o.srv /\ net' = [net EXCEPT !.answer = o.a]
      BY <1>5, <2>2 DEF Settings!Serve, Settings!ServeBy, Settings!Reply
    <3>. QED BY <1>2, <1>4, <2>1, <3>1
  <2>3. CASE Settings!Commit
    <3>1. PICK o : o = Settings!ConfigureCompany(srv, net.cmd)
      OBVIOUS
    <3>2. net.cmd.kind = "put" /\ o.a.ok /\ srv' = o.srv /\ Settings!Send([kind |-> "settings"])
      BY <2>3, <3>1 DEF Settings!Commit
    <3>3. o \in Settings!Handle(srv, net.cmd) /\ net.cmd.kind \in ZonesKinds
      BY <3>1, <3>2 DEF Settings!Handle, ZonesKinds, Settings!Writes
    <3>4. o.srv.set.rev = srv.set.rev + 1
      <4>1. PICK set : set = [rev |-> srv.set.rev + 1, name |-> net.cmd.name, zone |-> net.cmd.zone]
        OBVIOUS
      <4>2. o = Settings!Out([srv EXCEPT !.set = set], Settings!Yes(None))
        <5>1. ~Settings!No.ok /\ ~Settings!Conflict.ok
          BY DEF Settings!No, Settings!Conflict
        <5>2. o # Settings!Out(srv, Settings!No) /\ o # Settings!Out(srv, Settings!Conflict)
          BY <3>2, <5>1 DEF Settings!Out
        <5>. QED BY <3>1, <4>1, <5>2 DEF Settings!ConfigureCompany
      <4>3. [srv EXCEPT !.set = set].set = set
        BY <1>0 DEF SettingsRow, Fields
      <4>4. o.srv = [srv EXCEPT !.set = set]
        BY <4>2 DEF Settings!Out
      <4>5. set.rev = srv.set.rev + 1
        BY <4>1
      <4>. QED BY <4>3, <4>4, <4>5
    <3>6. PICK m : m = [kind |-> "settings"]
      OBVIOUS
    <3>7. net' = [cmd |-> m, answer |-> None]
      BY <3>2, <3>6 DEF Settings!Send
    <3>8. net'.cmd.kind = "settings" /\ net'.answer = None
      BY <3>6, <3>7
    <3>9. SeenNet(net', srv'.set)
      BY <3>8 DEF SeenNet
    <3>10. SeenRun(run, net', srv'.set)
      <4>1. SeenRun(run, net, srv'.set)
        BY <1>1, <3>2, <3>4
      <4>2. run # None /\ run.op = "put" => run.sub.rev \in Nat /\ run.sub.rev <= srv.set.rev
        BY <1>0 DEF SeenRun, PastDraft, Past
      <4>3. run # None /\ run.op = "put" => run.sub.rev < srv'.set.rev
        BY <1>a, <3>2, <3>4, <4>2
      <4>. QED BY <3>8, <4>1, <4>3 DEF SeenRun
    <3>. QED BY <1>2, <2>1, <3>2, <3>4, <3>9, <3>10
  <2>. QED BY <2>2, <2>3
<1>6. CASE Settings!Lose
  <2>1. PICK a : /\ net # None /\ form' = form /\ run' = run /\ ui' = ui
                 /\ srv' = srv \/ \E o \in Settings!Handle(srv, net.cmd) : srv' = o.srv
                 /\ net' = [net EXCEPT !.answer = a] /\ a \in {Settings!No, Settings!Garbled}
                 /\ \/ stray' = stray
                    \/ net.cmd.kind \in Settings!Writes /\ stray' = stray \cup {net.cmd}
    BY <1>6 DEF Settings!Lose, Settings!LoseBy, Settings!Unanswered, Settings!Reply
  <2>2. ~a.ok /\ ~a.conflict
    BY <2>1 DEF Settings!No, Settings!Garbled
  <2>3. /\ srv'.set = srv.set \/ srv'.set.rev = srv.set.rev + 1
        /\ SeenRun(run, net', srv'.set) /\ SeenNet(net', srv'.set)
    <3>1. CASE srv' = srv
      <4>1. net'.cmd = net.cmd /\ net'.answer = a
        BY <1>0, <2>1 DEF SettingsNet, Packet
      <4>2. SeenRun(run, net', srv.set)
        BY <1>0, <2>1, <2>2, <4>1 DEF SeenRun
      <4>3. SeenNet(net', srv.set)
        BY <1>0, <2>1, <2>2, <4>1 DEF SeenNet
      <4>. QED BY <3>1, <4>2, <4>3
    <3>2. CASE \E o \in Settings!Handle(srv, net.cmd) : srv' = o.srv
      BY <1>4, <2>1, <2>2, <3>2
    <3>. QED BY <2>1, <3>1, <3>2
  <2>4. net.cmd.kind \in Settings!Writes => net.cmd.kind = "put"
    BY <1>0, <2>1 DEF SettingsNet, Settings!Writes
  <2>. QED BY <1>2, <2>1, <2>3, <2>4
<1>7. CASE Settings!ServeStray
  <2>1. PICK m \in stray : Settings!StrayBy(m, Settings!Handle(srv, m))
    BY <1>7 DEF Settings!ServeStray
  <2>2. PICK o \in Settings!Handle(srv, m) : srv' = o.srv
    BY <2>1 DEF Settings!StrayBy
  <2>3. /\ form' = form /\ run' = run /\ ui' = ui /\ net' = net /\ stray' = stray \ {m}
        /\ m.kind \in ZonesKinds
    BY <1>0, <2>1 DEF Settings!StrayBy, ZonesKinds, Settings!Writes
  <2>4. srv'.set = srv.set \/ srv'.set.rev = srv.set.rev + 1
    BY <1>0, <2>2, <2>3, SetMoves
  <2>5. SeenRun(run, net', srv'.set) /\ SeenNet(net', srv'.set)
    BY <1>1, <2>3, <2>4
  <2>. QED BY <1>2, <2>3, <2>4, <2>5
<1>. QED BY <1>3, <1>5, <1>6, <1>7

\* A PUT carries the draft it saves.
LEMMA PutCarries ==
  ASSUME NEW c, Draft(c)
  PROVE  LET m == Settings!Over(c, [kind |-> "put"]) IN
         m.kind = "put" /\ m.rev = c.rev /\ m.seen = c.seen
<1>1. PICK h : h = [kind |-> "put"]
  OBVIOUS
<1>2. DOMAIN c = {"name", "zone", "rev", "seen"} /\ DOMAIN h = {"kind"} /\ h.kind = "put"
  BY <1>1 DEF Draft, Fields
<1>. QED BY <1>1, <1>2 DEF Settings!Over

\* The user, an answer, a cache and a remount at the settings form.
LEMMA SeenPage ==
  ASSUME SettingsOK, SeenOK, form = "settings",
         \/ Settings!change \/ Settings!reload \/ Settings!save \/ Settings!Reloaded
         \/ Settings!Saved \/ Settings!Revalidate \/ Settings!Remount
  PROVE  SeenOK'
<1>0. /\ SettingsRow(srv) /\ SettingsForm(ui) /\ SettingsRun(run, ui) /\ SettingsNet(net)
      /\ \A m \in stray : m.kind = "put"
      /\ SeenForm(ui, srv.set) /\ SeenRun(run, net, srv.set) /\ SeenNet(net, srv.set)
      /\ \A m \in stray : PastDraft(m, srv.set)
  BY DEF SettingsOK, SeenOK
<1>a. srv.set.rev \in Nat
  BY <1>0 DEF SettingsRow
<1>. DEFINE c == Settings!config(ui)
<1>b. Draft(c) /\ PastDraft(c, srv.set)
  BY <1>0, ConfigDraft, SeenConfig
<1>. HIDE DEF c
<1>1. CASE Settings!change
  <2>1. PICK e : /\ ui' = [ui EXCEPT !.edit = e] /\ run' = Settings!Edited
                 /\ net' = net /\ form' = form /\ srv' = srv /\ stray' = stray
                 /\ e.rev = c.rev /\ e.seen = c.seen
    <3>1. ASSUME NEW w PROVE /\ [c EXCEPT !.name = w].rev = c.rev /\ [c EXCEPT !.name = w].seen = c.seen
                             /\ [c EXCEPT !.zone = w].rev = c.rev /\ [c EXCEPT !.zone = w].seen = c.seen
      BY <1>b DEF Draft, Fields
    <3>2. \E w : \/ Settings!Type([ui EXCEPT !.edit = [c EXCEPT !.name = w]])
                 \/ Settings!Type([ui EXCEPT !.edit = [c EXCEPT !.zone = w]])
      BY <1>1 DEF Settings!change, c
    <3>3. PICK e : Settings!Type([ui EXCEPT !.edit = e]) /\ e.rev = c.rev /\ e.seen = c.seen
      BY <3>1, <3>2
    <3>. QED BY <3>3 DEF Settings!Type, Settings!Here
  <2>2. PastDraft(e, srv.set)
    BY <1>b, <2>1 DEF PastDraft
  <2>3. SeenForm(ui', srv.set)
    BY <1>0, <1>a, <2>1, <2>2, SeenShown
  <2>4. SeenRun(run', net, srv.set)
    BY <1>0, <2>1, SeenMarked
  <2>. QED BY <1>0, <2>1, <2>3, <2>4 DEF SeenOK
<1>2. CASE Settings!reload
  <2>1. PICK f, m : /\ run' = Settings!Start("reload", [forReview |-> f, draft |-> c,
                                                     review |-> ui.review, high |-> ui.high])
                    /\ m = [kind |-> "settings"] /\ Settings!Send(m) /\ ui' = ui
                    /\ form' = form /\ srv' = srv /\ stray' = stray
    <3>1. PICK f : f = Settings!settingsStale(ui)
      OBVIOUS
    <3>2. PICK m : m = [kind |-> "settings"]
      OBVIOUS
    <3>. QED BY <1>2, <3>1, <3>2 DEF Settings!reload, Settings!Read, Settings!Here, c
  <2>2. run'.op = "reload" /\ run'.draft = c /\ run'.high = ui.high
    BY <2>1 DEF Settings!Start, Settings!Over
  <2>3. net' = [cmd |-> m, answer |-> None] /\ m.kind = "settings"
    BY <2>1 DEF Settings!Send
  <2>4. SeenRun(run', net', srv.set)
    BY <1>0, <1>b, <2>2 DEF SeenRun, SeenForm
  <2>5. SeenNet(net', srv.set)
    BY <2>3 DEF SeenNet
  <2>. QED BY <1>0, <2>1, <2>4, <2>5 DEF SeenOK
<1>3. CASE Settings!save
  <2>1. PICK m : /\ run' = Settings!Start("put", [sub |-> c])
                 /\ m = Settings!Over(c, [kind |-> "put"]) /\ Settings!Send(m) /\ ui' = ui
                 /\ form' = form /\ srv' = srv /\ stray' = stray
    <3>1. PICK m : m = Settings!Over(c, [kind |-> "put"])
      OBVIOUS
    <3>. QED BY <1>3, <3>1 DEF Settings!save, Settings!Write, Settings!Here, c
  <2>2. run'.op = "put" /\ run'.sub = c
    BY <2>1 DEF Settings!Start, Settings!Over
  <2>3. m.kind = "put" /\ m.rev = c.rev /\ m.seen = c.seen
    BY <1>b, <2>1, PutCarries
  <2>4. net'.cmd = m /\ net'.answer = None
    BY <2>1 DEF Settings!Send
  <2>5. SeenRun(run', net', srv.set)
    BY <1>b, <2>2, <2>3, <2>4 DEF SeenRun
  <2>6. SeenNet(net', srv.set)
    BY <1>b, <2>3, <2>4 DEF SeenNet, PastDraft
  <2>. QED BY <1>0, <2>1, <2>5, <2>6 DEF SeenOK
<1>4. ASSUME NEW u, Settings!End(u), SeenForm(u, srv.set) PROVE SeenOK'
  <2>1. /\ run' = None /\ net' = None /\ ui' = u
        /\ form' = form /\ srv' = srv /\ stray' = stray
    BY <1>4 DEF Settings!End, Settings!Stop, Settings!Hang, Settings!Here
  <2>. QED BY <1>0, <1>4, <2>1 DEF SeenOK, SeenRun, SeenNet
<1>5. CASE Settings!Reloaded
  <2>. DEFINE a == net.answer
              v == Settings!Shown(ui, a.data.set)
              shown == [v EXCEPT !.zones = a.data.zones]
              d == [run.draft EXCEPT !.rev = a.data.set.rev, !.seen = a.data.set]
              taken == [shown EXCEPT !.edit = d, !.review = None]
              u == IF ~Settings!reviewable(run, a) THEN ui
                   ELSE IF ~run.forReview THEN shown ELSE taken
  <2>1. /\ run # None /\ run.op = "reload" /\ net # None /\ a # None
        /\ Settings!End(u)
    BY <1>5 DEF Settings!Reloaded, Settings!Doing, Settings!Answered, Settings!Got
  <2>2. SeenForm(u, srv.set)
    <3>1. CASE ~Settings!reviewable(run, a)
      BY <1>0, <3>1
    <3>2. CASE Settings!reviewable(run, a)
      <4>1. a.ok /\ Past(a.data.set, srv.set)
        BY <1>0, <2>1, <3>2 DEF Settings!reviewable, SeenNet
      <4>2. a.data.set.rev \in Int
        BY <4>1 DEF Past
      <4>3. SeenForm(v, srv.set) /\ SettingsForm(v)
        BY <1>0, <1>a, <4>1, <4>2, SeenShown, ShownForm
      <4>. HIDE DEF v
      <4>4. SeenForm(shown, srv.set) /\ FormShape(shown)
        BY <1>a, <4>3, SeenShown DEF SettingsForm, FormShape, Fields
      <4>5. d.rev = a.data.set.rev /\ d.seen = a.data.set
        <5>1. Draft(run.draft)
          BY <1>0, <2>1 DEF SettingsRun, PutRun, ReloadRun
        <5>. QED BY <5>1 DEF Draft, Fields
      <4>6. PastDraft(d, srv.set)
        BY <4>1, <4>5 DEF PastDraft
      <4>. HIDE DEF shown, d
      <4>7. SeenForm(taken, srv.set)
        BY <4>4, <4>6 DEF SeenForm, FormShape, Fields
      <4>. QED BY <3>2, <4>4, <4>7
    <3>. QED BY <3>1, <3>2
  <2>. HIDE DEF u
  <2>. QED BY <1>4, <2>1, <2>2
<1>6. CASE Settings!Saved
  <2>1. /\ run # None /\ run.op = "put" /\ net # None /\ net.answer # None
        /\ Settings!End(SavedAs(net.answer))
    BY <1>6 DEF Settings!Saved, Settings!Doing, Settings!Answered, Settings!Got, SavedAs
  <2>2. PutRun(run, ui)
    BY <1>0, <2>1 DEF SettingsRun, ReloadRun
  <2>3. SeenForm(SavedAs(net.answer), srv.set)
    BY <1>0, <1>a, <2>1, <2>2, SeenSaved
  <2>. QED BY <1>4, <2>1, <2>3
<1>7. CASE Settings!Revalidate
  <2>1. PICK u : /\ u \in {Settings!Shown(ui, srv.set), [ui EXCEPT !.zones = srv.zones],
                           [ui EXCEPT !.failed = TRUE]}
                 /\ ui' = u /\ run' = Settings!Moved /\ net' = net
                 /\ form' = form /\ srv' = srv /\ stray' = stray
    BY <1>7 DEF Settings!Revalidate, Settings!Refresh, Settings!RefreshFails, Settings!Here
  <2>2. Past(srv.set, srv.set)
    BY <1>a DEF Past
  <2>3. SeenForm(u, srv.set)
    <3>1. CASE u = Settings!Shown(ui, srv.set)
      BY <1>0, <1>a, <2>2, <3>1, SeenShown
    <3>2. CASE u \in {[ui EXCEPT !.zones = srv.zones], [ui EXCEPT !.failed = TRUE]}
      <4>1. /\ SeenForm([ui EXCEPT !.zones = srv.zones], srv.set)
            /\ SeenForm([ui EXCEPT !.failed = TRUE], srv.set)
        BY <1>0, <1>a, SeenShown
      <4>. QED BY <3>2, <4>1
    <3>. QED BY <2>1, <3>1, <3>2
  <2>4. SeenRun(run', net, srv.set)
    BY <1>0, <2>1, SeenMarked
  <2>. QED BY <1>0, <2>1, <2>3, <2>4 DEF SeenOK
<1>8. CASE Settings!Remount
  <2>1. /\ ui' = Settings!Blank /\ net' = None /\ run' = None /\ form' = form /\ srv' = srv
        /\ stray' = stray \cup Settings!Dropped(Settings!Writes)
    BY <1>8 DEF Settings!Remount, Settings!Reenter, Settings!Abandon
  <2>2. \A m \in Settings!Dropped(Settings!Writes) : PastDraft(m, srv.set)
    BY <1>0 DEF Settings!Dropped, Settings!Writes, Settings!Unanswered, SettingsNet, SeenNet
  <2>3. SeenForm(Settings!Blank, srv.set)
    <3>1. PICK u : u = Settings!Blank
      OBVIOUS
    <3>2. u.data = srv.set /\ u.edit = None /\ u.review = None /\ u.high = srv.set.rev
      BY <3>1 DEF Settings!Blank
    <3>. QED BY <1>a, <3>1, <3>2 DEF SeenForm, Past
  <2>. QED BY <1>0, <2>1, <2>2, <2>3 DEF SeenOK, SeenRun, SeenNet
<1>. QED BY <1>1, <1>2, <1>3, <1>5, <1>6, <1>7, <1>8

\* The domain list sends no save.
LEMMA SeenDomains ==
  ASSUME Counted, SettingsOK, ZonesOK, SeenOK, form # "settings", Settings!Next PROVE SeenOK'
<1>0. /\ net # None => net.cmd.kind # "put" /\ Packet(net)
      /\ \A m \in stray : m.kind # "put"
      /\ run = None \/ OtherRun(run)
      /\ form' = form
  BY SettingsCounts DEF SeenOK, SettingsOK, ZonesOK
<1>1. ASSUME \A m \in stray' : m \in stray \/ (net # None /\ m = net.cmd),
             \/ net' \in {net, None}
             \/ \E m : m.kind # "put" /\ Settings!Send(m)
             \/ net # None /\ \E a : net' = [net EXCEPT !.answer = a]
      PROVE  SeenOK'
  <2>1. net' # None => net'.cmd.kind # "put"
    <3>1. CASE \E m : m.kind # "put" /\ Settings!Send(m)
      BY <3>1 DEF Settings!Send
    <3>2. CASE net # None /\ \E a : net' = [net EXCEPT !.answer = a]
      BY <1>0, <3>2 DEF Packet
    <3>. QED BY <1>0, <1>1, <3>1, <3>2
  <2>. QED BY <1>0, <1>1, <2>1 DEF SeenOK
<1>2. CASE \/ Settings!typeDomain \/ Settings!retry \/ Settings!Revalidate \/ Settings!Rival
  BY <1>1, <1>2
  DEF Settings!typeDomain, Settings!Type, Settings!retry, Settings!Revalidate, Settings!Refresh,
      Settings!RefreshFails, Settings!Rival, Settings!Others, Settings!Here
<1>3. CASE Settings!addDomain \/ Settings!verifyDomain \/ Settings!deleteDomain
  <2>1. stray' = stray /\ \E m : m.kind # "put" /\ Settings!Send(m)
    <3>1. ASSUME NEW op, NEW d, NEW m, Settings!Write(op, d, m, ui)
          PROVE  Settings!Send(m) /\ stray' = stray
      BY <3>1 DEF Settings!Write, Settings!Here
    <3>2. CASE Settings!addDomain
      <4>1. PICK m : m = [kind |-> "add", name |-> ui.input]
        OBVIOUS
      <4>2. Settings!Write("add", <<>>, m, ui) /\ m.kind # "put"
        BY <3>2, <4>1 DEF Settings!addDomain
      <4>. QED BY <3>1, <4>2
    <3>3. CASE Settings!verifyDomain
      <4>1. PICK z, m : m = [kind |-> "verify", id |-> z.id] /\ Settings!Write("verify", [id |-> z.id], m, ui)
        BY <3>3 DEF Settings!verifyDomain
      <4>. QED BY <3>1, <4>1
    <3>4. CASE Settings!deleteDomain
      <4>1. PICK z, m : m = [kind |-> "delete", id |-> z.id] /\ Settings!Write("delete", [id |-> z.id], m, ui)
        BY <3>4 DEF Settings!deleteDomain
      <4>. QED BY <3>1, <4>1
    <3>. QED BY <1>3, <3>2, <3>3, <3>4
  <2>. QED BY <1>1, <2>1
<1>4. CASE Settings!Reloaded \/ Settings!Saved
  BY <1>0, <1>4 DEF Settings!Reloaded, Settings!Saved, Settings!Doing, OtherRun
<1>5. CASE Settings!DomainDone \/ Settings!Listed
  <2>1. \E u : Settings!End(u) \/ Settings!ReadZones(u)
    BY <1>5 DEF Settings!DomainDone, Settings!Listed, Settings!Doing
  <2>2. PICK m : m = [kind |-> "zones"]
    OBVIOUS
  <2>3. stray' = stray /\ (net' = None \/ Settings!Send(m))
    BY <2>1, <2>2 DEF Settings!End, Settings!ReadZones, Settings!Then, Settings!Hang, Settings!Here
  <2>. QED BY <1>1, <2>2, <2>3
<1>6. CASE Settings!Remount
  BY <1>1, <1>6
  DEF Settings!Remount, Settings!Reenter, Settings!Abandon, Settings!Dropped, Settings!Unanswered
<1>7. CASE Settings!Serve
  <2>1. ~Settings!Commit
    BY <1>0 DEF Settings!Commit, Settings!Unanswered
  <2>. QED BY <1>1, <1>7, <2>1
       DEF Settings!Serve, Settings!ServeBy, Settings!Unanswered, Settings!Reply
<1>8. CASE Settings!Lose
  BY <1>1, <1>8 DEF Settings!Lose, Settings!LoseBy, Settings!Unanswered, Settings!Reply
<1>9. CASE Settings!ServeStray
  BY <1>1, <1>9 DEF Settings!ServeStray, Settings!StrayBy
<1>. QED BY <1>0, <1>2, <1>3, <1>4, <1>5, <1>6, <1>7, <1>8, <1>9 DEF Settings!Next

\* The settings page keeps to what was shown, from the start.
LEMMA SeenStep ==
  ASSUME Counted, SettingsOK, ZonesOK, SeenOK, Settings!Next PROVE SeenOK'
<1>1. CASE form = "settings"
  <2>1. ~Settings!DomainDone /\ ~Settings!Listed
    BY <1>1 DEF Settings!DomainDone, Settings!Listed, Settings!Doing, SettingsOK, SettingsRun,
       PutRun, ReloadRun
  <2>. QED BY <1>1, <2>1, SeenServer, SeenPage DEF Settings!Next
<1>. QED BY <1>1, SeenDomains

\* It opens with what the server holds.
LEMMA SeenBegin == ASSUME Settings!Init PROVE SeenOK
<1>1. /\ run = None /\ net = None /\ stray = {} /\ ui = Settings!Blank
  BY DEF Settings!Init, Settings!Quiet
<1>2. ASSUME form = "settings" PROVE SeenForm(ui, srv.set)
  <2>1. srv.set.rev \in Nat
    BY <1>2, SettingsStart DEF SettingsOK, SettingsRow
  <2>2. PICK u : u = Settings!Blank
    OBVIOUS
  <2>3. u.data = srv.set /\ u.edit = None /\ u.review = None /\ u.high = srv.set.rev
    BY <1>2, <2>2 DEF Settings!Blank
  <2>. QED BY <1>1, <2>1, <2>2, <2>3 DEF SeenForm, Past
<1>. QED BY <1>1, <1>2 DEF SeenOK, SeenRun, SeenNet

\* A save that is accepted replaces the settings its draft was compared with.
LEMMA SettingsOverwrites ==
  ASSUME rivals \in Nat, SettingsOK, ZonesOK, SeenOK, Settings!Next PROVE Settings!OverwritesSeen
<1>. SUFFICES ASSUME NEW m \in Settings!InFlight, m.kind = "put", m \notin Settings!InFlight',
                     rivals' = rivals, srv'.set # srv.set
              PROVE  srv.set = m.seen
  BY DEF Settings!OverwritesSeen
<1>1. form = "settings" /\ PastDraft(m, srv.set) /\ SettingsRow(srv)
  BY DEF Settings!InFlight, Settings!Unanswered, SeenOK, SeenNet, SettingsOK
<1>2. m.rev = srv.set.rev
  <2>1. CASE Settings!ServeStray
    <3>1. PICK n \in stray : Settings!StrayBy(n, Settings!Handle(srv, n))
      BY <2>1 DEF Settings!ServeStray
    <3>2. PICK o \in Settings!Handle(srv, n) : srv' = o.srv
      BY <3>1 DEF Settings!StrayBy
    <3>3. n.kind \in ZonesKinds
      BY <3>1 DEF ZonesOK, ZonesKinds
    <3>4. n.rev = srv.set.rev
      BY <1>1, <3>2, <3>3, SetMoves
    <3>5. m = n
      BY <3>1 DEF Settings!StrayBy, Settings!InFlight, Settings!Unanswered
    <3>. QED BY <3>4, <3>5
  <2>2. CASE Settings!Serve \/ Settings!Lose
    <3>1. net # None /\ \E o \in Settings!Handle(srv, net.cmd) : srv' = o.srv
      <4>1. CASE Settings!Commit
        BY <4>1 DEF Settings!Commit, Settings!Unanswered, Settings!Handle
      <4>. QED BY <2>2, <4>1 DEF Settings!Serve, Settings!ServeBy, Settings!Lose, Settings!LoseBy,
                                 Settings!Unanswered
    <3>2. PICK o \in Settings!Handle(srv, net.cmd) : srv' = o.srv
      BY <3>1
    <3>3. net.cmd.rev = srv.set.rev
      BY <1>1, <3>1, <3>2, SetMoves DEF ZonesOK
    <3>4. stray \subseteq stray'
      BY <2>2 DEF Settings!Serve, Settings!ServeBy, Settings!Commit, Settings!Lose, Settings!LoseBy
    <3>5. m = net.cmd
      BY <3>4 DEF Settings!InFlight
    <3>. QED BY <3>3, <3>5
  <2>3. CASE Settings!Rival
    <3>1. rivals' = rivals + 1
      BY <2>3 DEF Settings!Rival, Settings!Others
    <3>. QED BY <3>1
  <2>4. CASE ~(Settings!ServeStray \/ Settings!Serve \/ Settings!Lose \/ Settings!Rival)
    <3>1. srv' = srv
      BY <2>4
      DEF Settings!Next, Settings!change, Settings!reload, Settings!save, Settings!typeDomain,
          Settings!addDomain, Settings!verifyDomain, Settings!deleteDomain, Settings!retry,
          Settings!Reloaded, Settings!Saved, Settings!DomainDone, Settings!Listed,
          Settings!Revalidate, Settings!Remount, Settings!Type, Settings!Read, Settings!Write,
          Settings!Refresh, Settings!RefreshFails, Settings!Reenter, Settings!Abandon,
          Settings!End, Settings!ReadZones, Settings!Then, Settings!Here, Settings!Doing
    <3>. QED BY <3>1
  <2>. QED BY <2>1, <2>2, <2>3, <2>4
<1>. QED BY <1>1, <1>2 DEF PastDraft, Past

\* A review that returns what the server holds gets the form going again.
LEMMA SettingsReleases ==
  ASSUME NoneApart, Counted, SettingsOK, SeenOK, Settings!Next PROVE Settings!Releases
<1>a. moves # moves + 1
  BY DEF Counted
<1>. SUFFICES ASSUME run # None, run.op = "reload", run.forReview, run' = None, moves' = moves,
                     Settings!Answered, Settings!Got.ok, Settings!Got.data.set = srv.set,
                     run.mine, run.steady
              PROVE  ~Settings!settingsStale(ui')
  BY DEF Settings!Releases
<1>0. /\ form = "settings" /\ SettingsRow(srv) /\ SettingsForm(ui) /\ ReloadRun(run, ui)
      /\ SeenForm(ui, srv.set) /\ SeenRun(run, net, srv.set)
  BY DEF SettingsOK, OtherRun, SettingsRun, PutRun, SeenOK
<1>1. Settings!Reloaded
  <2>1. ~Settings!Saved /\ ~Settings!DomainDone /\ ~Settings!Listed
    BY DEF Settings!Saved, Settings!DomainDone, Settings!Listed, Settings!Doing
  <2>2. ~Settings!Remount /\ ~Settings!change
    BY <1>a DEF Settings!Remount, Settings!Reenter, Settings!change, Settings!Type, Settings!Move
  <2>3. Settings!Moved # None
    <3>1. PICK r : r = [run EXCEPT !.steady = FALSE]
      OBVIOUS
    <3>2. Fields(r, {"forReview", "draft", "review", "high", "op", "mine", "steady"})
      BY <1>0, <3>1 DEF ReloadRun, Fields
    <3>3. r # None
      BY <3>2, SomeRecord
    <3>. QED BY <3>1, <3>3 DEF Settings!Moved
  <2>. QED BY <1>0, <2>1, <2>2, <2>3
       DEF Settings!Next, Settings!reload, Settings!save, Settings!Revalidate, Settings!Rival,
           Settings!Serve, Settings!Lose, Settings!ServeStray, Settings!Commit, Settings!ServeBy,
           Settings!LoseBy, Settings!StrayBy, Settings!Others, Settings!Read, Settings!Write,
           Settings!Idle, Settings!Refresh, Settings!RefreshFails
<1>. DEFINE a == net.answer
            fresh == a.data.set
            v == Settings!Shown(ui, fresh)
            shown == [v EXCEPT !.zones = a.data.zones]
            d == [run.draft EXCEPT !.rev = fresh.rev, !.seen = fresh]
<1>2. /\ fresh = srv.set /\ fresh.rev \in Nat /\ a.ok
      /\ run.high \in Int /\ run.high <= fresh.rev /\ ui.high \in Int /\ ui.high <= fresh.rev
      /\ run.draft.rev \in Int /\ run.draft.rev <= fresh.rev
      /\ run.review # None => /\ run.review.minimum \in Int /\ run.review.minimum <= fresh.rev
                              /\ run.review.newer < fresh.rev
  BY <1>0
  DEF Settings!Got, SettingsRow, ReloadRun, SeenForm, SeenRun, SettingsForm, PastDraft, Past, Floor
<1>3. Settings!reviewable(run, a)
  <2>. DEFINE least == IF run.review = None THEN run.draft.rev ELSE run.review.minimum
  <2>1. least \in Int /\ least <= fresh.rev
    BY <1>2
  <2>. HIDE DEF least
  <2>2. fresh.rev >= Settings!Max2(run.high, least)
    BY <1>2, <2>1 DEF Settings!Max2
  <2>. QED BY <1>2, <2>2 DEF Settings!reviewable, least
<1>4. ui' = [shown EXCEPT !.edit = d, !.review = None]
  BY <1>1, <1>3 DEF Settings!Reloaded, Settings!End, Settings!Got
<1>5. d.rev = fresh.rev
  <2>1. Draft(run.draft)
    BY <1>0 DEF ReloadRun
  <2>. QED BY <2>1 DEF Draft, Fields
<1>6. SettingsForm(v) /\ v.data = fresh /\ v.high = fresh.rev
  <2>1. SettingsForm(v)
    BY <1>0, <1>2, ShownForm
  <2>2. Settings!Max2(ui.high, fresh.rev) = fresh.rev
    BY <1>2 DEF Settings!Max2
  <2>3. v = [ui EXCEPT !.data = fresh, !.high = fresh.rev, !.failed = FALSE]
    BY <2>2 DEF Settings!Shown
  <2>. HIDE DEF v
  <2>. QED BY <1>0, <2>1, <2>3 DEF SettingsForm, FormShape, Fields
<1>. HIDE DEF v, d
<1>7. ui'.edit = d /\ ui'.review = None /\ ui'.data = fresh /\ ui'.high = fresh.rev
  BY <1>4, <1>6 DEF SettingsForm, FormShape, Fields
<1>. QED BY <1>2, <1>5, <1>7 DEF Settings!settingsStale

-----------------------------------------------------------------------------
(* The mailbox page: the row, and answers under way.                       *)

Revision == Nat \ {0}
BoxRow(b) == Fields(b, {"rev", "kind", "owner", "policy", "grant"}) /\ b.rev \in Revision

\* A read that was answered shows a revision; a write that was acknowledged has
\* been applied.
MailNet(n, rev) ==
  n # None =>
    /\ Packet(n)
    /\ n.answer # None /\ n.answer.ok =>
         /\ n.cmd.kind \in {"boxes", "grants"} => n.answer.data.rev \in Revision
         /\ n.cmd.kind \in Mailbox!Writes => n.cmd.rev \in Int /\ n.cmd.rev < rev

MailRow ==
  /\ BoxRow(box) /\ boxes.rev \in Revision
  /\ acked \in Nat /\ acked < box.rev /\ MailNet(net, box.rev)

\* The larger of two revisions.
LEMMA MailMax ==
  ASSUME NEW a \in Int, NEW b \in Int
  PROVE  Mailbox!Max2(a, b) \in Int /\ Mailbox!Max2(a, b) >= a /\ Mailbox!Max2(a, b) >= b
BY DEF Mailbox!Max2

\* A write is accepted for the present revision, and makes the next.
LEMMA Accepted ==
  ASSUME BoxRow(box), NEW m, Mailbox!Accept(m)
  PROVE  BoxRow(box') /\ box'.rev = box.rev + 1 /\ m.rev = box.rev /\ m.kind \in Mailbox!Writes
<1>1. m.rev = box.rev /\ m.kind \in Mailbox!Writes
  BY DEF Mailbox!Accept, Mailbox!SetWorkGrant, Mailbox!SetWorkMailboxSendPolicy,
     Mailbox!TransferWorkMailbox, Mailbox!ConvertSharedMailbox, Mailbox!Writes
<1>2. \/ \E x : box' = [box EXCEPT !.rev = @ + 1, !.grant = x]
      \/ \E x : box' = [box EXCEPT !.rev = @ + 1, !.policy = x]
      \/ \E x : box' = [box EXCEPT !.rev = @ + 1, !.kind = x]
      \/ \E x, y : box' = [box EXCEPT !.rev = @ + 1, !.owner = x, !.grant = y]
  <2>1. CASE Mailbox!SetWorkGrant(m)
    BY <2>1 DEF Mailbox!SetWorkGrant
  <2>2. CASE Mailbox!SetWorkMailboxSendPolicy(m)
    BY <2>2 DEF Mailbox!SetWorkMailboxSendPolicy
  <2>3. CASE Mailbox!TransferWorkMailbox(m)
    <3>. DEFINE y == IF box.owner = "member" THEN {} ELSE box.grant
    <3>1. box' = [box EXCEPT !.rev = @ + 1, !.owner = m.to, !.grant = y]
      BY <2>3 DEF Mailbox!TransferWorkMailbox
    <3>. QED BY <3>1
  <2>4. CASE Mailbox!ConvertSharedMailbox(m)
    BY <2>4 DEF Mailbox!ConvertSharedMailbox
  <2>. QED BY <2>1, <2>2, <2>3, <2>4 DEF Mailbox!Accept
<1>3. ASSUME NEW b, NEW x, NEW y,
             \/ b = [box EXCEPT !.rev = @ + 1, !.grant = x]
             \/ b = [box EXCEPT !.rev = @ + 1, !.policy = x]
             \/ b = [box EXCEPT !.rev = @ + 1, !.kind = x]
             \/ b = [box EXCEPT !.rev = @ + 1, !.owner = x, !.grant = y]
      PROVE  BoxRow(b) /\ b.rev = box.rev + 1
  <2>1. box.rev + 1 \in Revision
    BY DEF BoxRow, Revision
  <2>. QED BY <1>3, <2>1 DEF BoxRow, Fields
<1>4. BoxRow(box') /\ box'.rev = box.rev + 1
  <2>1. CASE \E x : box' = [box EXCEPT !.rev = @ + 1, !.grant = x]
    BY <1>3, <2>1
  <2>2. CASE \E x : box' = [box EXCEPT !.rev = @ + 1, !.policy = x]
    BY <1>3, <2>2
  <2>3. CASE \E x : box' = [box EXCEPT !.rev = @ + 1, !.kind = x]
    BY <1>3, <2>3
  <2>4. CASE \E x, y : box' = [box EXCEPT !.rev = @ + 1, !.owner = x, !.grant = y]
    BY <1>3, <2>4
  <2>. QED BY <1>2, <2>1, <2>2, <2>3, <2>4
<1>. QED BY <1>1, <1>4

\* What the server shows has the revision of the row.
LEMMA SnapshotRev == Mailbox!Snapshot.rev = box.rev /\ Mailbox!GrantSnapshot.rev = box.rev
BY DEF Mailbox!Snapshot, Mailbox!GrantSnapshot, Mailbox!Seen

\* The server's steps: a revision only grows, and commands stay what they are.
LEMMA MailServer ==
  ASSUME MailRow,
         Mailbox!Serve \/ Mailbox!Lose \/ Mailbox!ServeStray \/ Mailbox!Rival
  PROVE  MailRow' /\ UNCHANGED <<boxes, form, g, l, p, run, acked>> /\ net'.cmd = net.cmd
<1>0. UNCHANGED <<boxes, form, g, l, p, run, acked>>
  BY DEF Mailbox!Serve, Mailbox!Lose, Mailbox!ServeStray, Mailbox!Rival, Mailbox!forms
<1>. DEFINE Grows == BoxRow(box') /\ box'.rev \in {box.rev, box.rev + 1}
<1>1. ASSUME NEW m, Mailbox!Accept(m)
      PROVE  Grows /\ box'.rev = box.rev + 1 /\ m.rev = box.rev /\ m.kind \in Mailbox!Writes
  BY <1>1, Accepted DEF MailRow
<1>2. UNCHANGED Mailbox!server => Grows /\ box' = box
  BY DEF Mailbox!server, MailRow
<1>3. ASSUME net' = net, Grows
      PROVE  MailRow'
  BY <1>0, <1>3 DEF MailRow, MailNet, BoxRow, Revision
<1>4. ASSUME NEW a, net # None, Mailbox!Reply(a), Grows,
             a.ok => /\ net.cmd.kind \in {"boxes", "grants"} => a.data.rev \in Revision
                     /\ net.cmd.kind \in Mailbox!Writes => net.cmd.rev = box.rev /\ box'.rev = box.rev + 1
      PROVE  MailRow' /\ net'.cmd = net.cmd
  <2>1. Packet(net) /\ net' = [net EXCEPT !.answer = a]
    BY <1>4 DEF MailRow, MailNet, Mailbox!Reply
  <2>2. Packet(net') /\ net'.cmd = net.cmd /\ net'.answer = a
    BY <2>1 DEF Packet
  <2>3. MailNet(net', box'.rev)
    BY <1>4, <2>2 DEF MailRow, MailNet, BoxRow, Revision
  <2>. QED BY <1>0, <1>4, <2>2, <2>3 DEF MailRow, BoxRow, Revision
<1>5. ASSUME NEW a, a \in {Mailbox!No, Mailbox!Conflict, Mailbox!Garbled}
      PROVE  ~a.ok
  BY <1>5 DEF Mailbox!No, Mailbox!Conflict, Mailbox!Garbled
<1>. HIDE DEF Grows
<1>6. CASE Mailbox!Serve
  <2>0. net # None
    BY <1>6 DEF Mailbox!Serve, Mailbox!Unanswered
  <2>1. CASE \E s \in {Mailbox!Snapshot, Mailbox!GrantSnapshot} :
               /\ net.cmd.kind \in {"boxes", "grants"}
               /\ Mailbox!Reply(Mailbox!Yes(s)) /\ UNCHANGED Mailbox!server
    <3>1. PICK s \in {Mailbox!Snapshot, Mailbox!GrantSnapshot} : Mailbox!Reply(Mailbox!Yes(s))
      BY <2>1
    <3>2. s.rev \in Revision
      BY SnapshotRev DEF MailRow, BoxRow
    <3>3. Mailbox!Yes(s).data.rev \in Revision
      BY <3>2 DEF Mailbox!Yes
    <3>4. net.cmd.kind \notin Mailbox!Writes
      BY <2>1 DEF Mailbox!Writes
    <3>. QED BY <1>0, <1>2, <1>4, <2>0, <2>1, <3>1, <3>3, <3>4
  <2>2. CASE Mailbox!Accept(net.cmd) /\ Mailbox!Reply(Mailbox!Yes(None))
    <3>1. net.cmd.kind \notin {"boxes", "grants"}
      BY <1>1, <2>2 DEF Mailbox!Writes
    <3>. QED BY <1>0, <1>1, <1>4, <2>0, <2>2, <3>1
  <2>3. CASE \E a \in {Mailbox!No, Mailbox!Conflict} : Mailbox!Reply(a) /\ UNCHANGED Mailbox!server
    BY <1>0, <1>2, <1>4, <1>5, <2>0, <2>3
  <2>. QED BY <1>6, <2>1, <2>2, <2>3 DEF Mailbox!Serve
<1>7. CASE Mailbox!Lose
  <2>0. net # None
    BY <1>7 DEF Mailbox!Lose, Mailbox!Unanswered
  <2>1. /\ \E a \in {Mailbox!No, Mailbox!Conflict, Mailbox!Garbled} : Mailbox!Reply(a)
        /\ UNCHANGED Mailbox!server \/ Mailbox!Accept(net.cmd)
    BY <1>7 DEF Mailbox!Lose, Mailbox!server
  <2>. QED BY <1>0, <1>1, <1>2, <1>4, <1>5, <2>0, <2>1
<1>8. CASE Mailbox!ServeStray
  BY <1>0, <1>1, <1>2, <1>3, <1>8 DEF Mailbox!ServeStray
<1>9. CASE Mailbox!Rival
  <2>1. net' = net /\ (box' = box \/ \E m : Mailbox!Accept(m))
    BY <1>9 DEF Mailbox!Rival
  <2>2. box' = box => Grows
    BY DEF Grows, MailRow
  <2>. QED BY <1>0, <1>1, <1>3, <2>1, <2>2
<1>. QED BY <1>6, <1>7, <1>8, <1>9

-----------------------------------------------------------------------------
(* The mailbox page's forms: what each knows is above what it got          *)
(* acknowledged (k), or it is held until a read shows more than that.      *)

RunOf(r, keys) == Fields(r, keys \cup {"op", "mine", "steady"})
Perhaps == Int \cup {None}

\* The grant editor.
GrantForm(f, k) ==
  /\ Fields(f, {"data", "draft", "base", "rev", "conflict", "saved", "error", "high"})
  /\ f.data.rev \in Int /\ f.data.rev > 0
  /\ f.rev \in Perhaps /\ f.conflict \in Perhaps /\ f.saved \in Perhaps
  /\ f.high \in Int /\ f.high >= f.data.rev
  /\ f.saved = None => f.data.rev > k
  /\ f.saved # None => f.saved > k

GrantRun(r, f, n, k) ==
  r # None =>
    \/ /\ r.op \in {"gread", "gback"} /\ n.cmd.kind = "grants"
       /\ RunOf(r, {"minimum"}) /\ r.minimum \in Int /\ r.minimum > k
    \/ /\ r.op \in {"grefresh", "gshown"} /\ n.cmd.kind = "boxes"
       /\ RunOf(r, {"minimum"}) /\ f.data.rev > k
    \/ /\ r.op = "gput" /\ n.cmd.kind = "grant" /\ n.cmd.rev = r.rev
       /\ RunOf(r, {"rev"}) /\ r.rev \in Int /\ r.rev > k

\* The lifecycle editor.
LifecycleForm(f, k) ==
  /\ Fields(f, {"snap", "dirty", "next", "reason", "required", "reviewed", "ack", "high"})
  /\ f.snap.rev \in Int /\ f.high \in Int /\ f.high > k

LifecycleRun(r, n, k) ==
  r # None =>
    \/ /\ r.op = "lread" /\ n.cmd.kind = "boxes"
       /\ RunOf(r, {"minimum"}) /\ r.minimum \in Int /\ r.minimum > k
    \/ /\ r.op = "lpost" /\ n.cmd.kind \in Mailbox!Writes /\ n.cmd.rev = r.basis.rev
       /\ RunOf(r, {"basis"}) /\ r.basis.rev \in Int /\ r.basis.rev > k
    \/ r.op = "lrefresh" /\ n.cmd.kind = "boxes" /\ RunOf(r, {"basis"})

\* The send policy form.
PolicyKept(f, k) ==
  /\ Fields(f, {"choice", "rev", "required", "reviewed", "high"})
  /\ f.rev \in Int /\ f.high \in Int
  /\ f.required # None => f.required \in Floor
  /\ f.reviewed # None => f.reviewed.value.rev \in Int
  /\ f.required = None => f.rev > k
  /\ f.required # None => f.required.minimum > k \/ f.required.newer >= k

PolicyRun(r, n, k) ==
  r # None =>
    /\ RunOf(r, {"rev"}) /\ r.rev \in Int
    /\ \/ r.op = "pput" /\ n.cmd.kind = "policy" /\ n.cmd.rev = r.rev /\ r.rev > k
       \/ r.op = "pconfirm" /\ n.cmd.kind = "boxes" /\ r.rev >= k
       \/ r.op \in {"pshow", "pread"} /\ n.cmd.kind = "boxes"

MailboxOK ==
  /\ MailRow /\ form \in Mailbox!Forms
  /\ form = "grant" => GrantForm(g, acked) /\ GrantRun(run, g, net, acked)
  /\ form = "lifecycle" => LifecycleForm(l, acked) /\ LifecycleRun(run, net, acked)
  /\ form = "policy" => PolicyKept(p, acked) /\ PolicyRun(run, net, acked)

\* What the invariant of the mailbox page promises.
LEMMA MailMeans == ASSUME MailboxOK PROVE Mailbox!SavedOnce
<1>. SUFFICES ASSUME run # None, run.op \in {"gput", "lpost", "pput"}
             PROVE  net.cmd.rev > acked
  BY DEF Mailbox!SavedOnce
<1>1. CASE form = "grant"
  BY <1>1 DEF MailboxOK, GrantRun
<1>2. CASE form = "lifecycle"
  BY <1>2 DEF MailboxOK, LifecycleRun
<1>3. CASE form = "policy"
  BY <1>3 DEF MailboxOK, PolicyRun
<1>. QED BY <1>1, <1>2, <1>3 DEF MailboxOK, Mailbox!Forms

\* An action starts with its own data, not yet overtaken.
LEMMA MailStartsRead ==
  ASSUME NEW op, NEW x, NEW r, r = Mailbox!Start(op, [minimum |-> x])
  PROVE  RunOf(r, {"minimum"}) /\ r.op = op /\ r.minimum = x
<1>1. r \in [minimum : {x}, op : {op}, mine : BOOLEAN, steady : BOOLEAN]
  BY DEF Mailbox!Start, Mailbox!Over
<1>. QED BY <1>1 DEF RunOf, Fields

\* A write starts with the revision it is for.
LEMMA MailStartsWrite ==
  ASSUME NEW op, NEW x, NEW r, r = Mailbox!Start(op, [rev |-> x])
  PROVE  RunOf(r, {"rev"}) /\ r.op = op /\ r.rev = x
<1>1. r \in [rev : {x}, op : {op}, mine : BOOLEAN, steady : BOOLEAN]
  BY DEF Mailbox!Start, Mailbox!Over
<1>. QED BY <1>1 DEF RunOf, Fields

\* A handover or conversion starts with the mailbox it was filled from.
LEMMA MailStartsPost ==
  ASSUME NEW op, NEW x, NEW r, r = Mailbox!Start(op, [basis |-> x])
  PROVE  RunOf(r, {"basis"}) /\ r.op = op /\ r.basis = x
<1>1. r \in [basis : {x}, op : {op}, mine : BOOLEAN, steady : BOOLEAN]
  BY DEF Mailbox!Start, Mailbox!Over
<1>. QED BY <1>1 DEF RunOf, Fields

\* A request leaves without an answer.
LEMMA MailSent ==
  ASSUME NEW m, Mailbox!Send(m), NEW rev
  PROVE  net'.cmd = m /\ MailNet(net', rev)
BY DEF Mailbox!Send, MailNet, Packet

\* A step of the page.
LEMMA GrantKept ==
  ASSUME MailRow, form = "grant", form' = form, box' = box, boxes'.rev \in Revision,
         acked' \in Nat, acked' < box.rev, MailNet(net', box.rev),
         GrantForm(g', acked'), GrantRun(run', g', net', acked')
  PROVE  MailboxOK'
BY DEF MailboxOK, MailRow, Mailbox!Forms

\* Typing in the grant editor, a failed read, and a conflict leave what it knows.
LEMMA GrantTyped ==
  ASSUME NEW f, NEW k \in Int, GrantForm(f, k), NEW h,
         \/ \E x : h = [f EXCEPT !.draft = x]
         \/ \E x, y : \E v \in Perhaps : h = [f EXCEPT !.draft = x, !.base = y, !.rev = v]
         \/ \E x : h = [f EXCEPT !.error = x]
         \/ \E x : \E v \in Perhaps : h = [f EXCEPT !.conflict = v, !.error = x]
  PROVE  GrantForm(h, k) /\ h.data = f.data
<1>1. PICK x, y : \E v \in Perhaps :
        h \in {[f EXCEPT !.draft = x, !.base = y, !.rev = v], [f EXCEPT !.draft = x],
               [f EXCEPT !.error = x], [f EXCEPT !.conflict = v, !.error = x]}
  <2>1. None \in Perhaps
    BY DEF Perhaps
  <2>. QED BY <2>1
<1>2. PICK v \in Perhaps :
        h \in {[f EXCEPT !.draft = x, !.base = y, !.rev = v], [f EXCEPT !.draft = x],
               [f EXCEPT !.error = x], [f EXCEPT !.conflict = v, !.error = x]}
  BY <1>1
<1>3. /\ Fields(h, {"data", "draft", "base", "rev", "conflict", "saved", "error", "high"})
      /\ h.data = f.data /\ h.saved = f.saved /\ h.high = f.high
      /\ h.rev \in {f.rev, v} /\ h.conflict \in {f.conflict, v}
  BY <1>2 DEF GrantForm, Fields
<1>. QED BY <1>3 DEF GrantForm

\* A running action depends on the grant editor only through its data.
LEMMA GrantRunKept ==
  ASSUME NEW f, NEW h, h.data = f.data, NEW n, NEW k, GrantRun(run, f, n, k)
  PROVE  GrantRun(run, h, n, k) /\ GrantRun(Mailbox!Edited, h, n, k)
<1>1. GrantRun(run, h, n, k)
  BY DEF GrantRun
<1>2. ASSUME run # None
      PROVE  GrantRun([run EXCEPT !.mine = FALSE], h, n, k)
  <2>. DEFINE q == [run EXCEPT !.mine = FALSE]
  <2>1. CASE run.op = "gput"
    <3>1. RunOf(run, {"rev"})
      BY <1>1, <1>2, <2>1 DEF GrantRun
    <3>2. RunOf(q, {"rev"}) /\ q.rev = run.rev /\ q.op = run.op
      BY <3>1 DEF RunOf, Fields
    <3>. HIDE DEF q
    <3>3. GrantRun(q, h, n, k)
      BY <1>1, <1>2, <2>1, <3>2 DEF GrantRun
    <3>. QED BY <3>3 DEF q
  <2>2. CASE run.op # "gput"
    <3>1. RunOf(run, {"minimum"})
      BY <1>1, <1>2, <2>2 DEF GrantRun
    <3>2. RunOf(q, {"minimum"}) /\ q.minimum = run.minimum /\ q.op = run.op
      BY <3>1 DEF RunOf, Fields
    <3>. HIDE DEF q
    <3>3. GrantRun(q, h, n, k)
      BY <1>1, <1>2, <2>2, <3>2 DEF GrantRun
    <3>. QED BY <3>3 DEF q
  <2>. QED BY <2>1, <2>2
<1>. QED BY <1>1, <1>2 DEF Mailbox!Edited, GrantRun

\* A snapshot that was read, or that the revalidated cache brought.
LEMMA GrantAdopted ==
  ASSUME NEW f, NEW k \in Int, GrantForm(f, k), NEW d, d.rev \in Int, d.rev > 0, d.rev > k,
         NEW h, h = [f EXCEPT !.data = d, !.high = Mailbox!Max2(@, d.rev)]
  PROVE  GrantForm(h, k) /\ h.data = d
<1>. DEFINE n == Mailbox!Max2(f.high, d.rev)
<1>1. n \in Int /\ n >= d.rev
  BY MailMax DEF GrantForm
<1>2. h = [f EXCEPT !.data = d, !.high = n]
  OBVIOUS
<1>. HIDE DEF n
<1>3. /\ Fields(h, {"data", "draft", "base", "rev", "conflict", "saved", "error", "high"})
      /\ h.data = d /\ h.high = n /\ h.saved = f.saved /\ h.rev = f.rev /\ h.conflict = f.conflict
  BY <1>2 DEF GrantForm, Fields
<1>. QED BY <1>1, <1>3 DEF GrantForm

\* The editor as a review or a saved grant leaves it.
GrantEmpty(h, f) ==
  /\ Fields(h, {"data", "draft", "base", "rev", "conflict", "saved", "error", "high"})
  /\ h.data = f.data /\ h.saved = None /\ h.high \in {f.high, f.data.rev}
  /\ h.rev \in {f.rev, None} /\ h.conflict \in {f.conflict, None}

\* An emptied editor whose data is newer than the last saved grant is free.
LEMMA GrantEmptied ==
  ASSUME NEW f, NEW k \in Int, GrantForm(f, k), f.data.rev > k, NEW h, GrantEmpty(h, f)
  PROVE  GrantForm(h, k)
BY DEF GrantForm, GrantEmpty, Perhaps

\* A remount, a review and a confirmed save empty the editor.
LEMMA GrantCleared ==
  ASSUME NEW f, NEW k \in Int, GrantForm(f, k), f.data.rev > k, NEW h,
         \/ h = Mailbox!NoGrant(f.data)
         \/ \E e : h = [Mailbox!Released(f) EXCEPT !.error = e]
         \/ \E e : h = [f EXCEPT !.saved = None, !.error = e]
  PROVE  GrantForm(h, k) /\ h.data = f.data
<1>1. CASE h = Mailbox!NoGrant(f.data)
  BY <1>1, GrantEmptied DEF GrantEmpty, Fields, Mailbox!NoGrant
<1>2. CASE \E e : h = [Mailbox!Released(f) EXCEPT !.error = e]
  <2>1. GrantEmpty(h, f)
    BY <1>2 DEF GrantEmpty, Fields, Mailbox!NoGrant, Mailbox!Released
  <2>. QED BY <2>1, GrantEmptied DEF GrantEmpty
<1>3. CASE \E e : h = [f EXCEPT !.saved = None, !.error = e]
  <2>1. GrantEmpty(h, f)
    BY <1>3 DEF GrantEmpty, GrantForm, Fields
  <2>. QED BY <2>1, GrantEmptied DEF GrantEmpty
<1>. QED BY <1>1, <1>2, <1>3

\* A grant that was saved holds the editor until a read shows more.
LEMMA GrantSaved ==
  ASSUME NEW f, NEW k \in Int, GrantForm(f, k), NEW s \in Int, NEW j \in Int, s > j, NEW x,
         NEW v \in Perhaps, NEW h, h = [f EXCEPT !.saved = s, !.draft = x, !.rev = v]
  PROVE  GrantForm(h, j)
<1>1. /\ Fields(h, {"data", "draft", "base", "rev", "conflict", "saved", "error", "high"})
      /\ h.data = f.data /\ h.saved = s /\ h.high = f.high /\ h.rev = v
      /\ h.conflict = f.conflict
  BY DEF GrantForm, Fields
<1>2. s # None
  BY ConsoleBounds
<1>. QED BY <1>1, <1>2 DEF GrantForm, Perhaps

\* What the user does in the grant editor.
LEMMA GrantUserStep ==
  ASSUME MailboxOK, form = "grant",
         \/ Mailbox!selectMember \/ Mailbox!checkRight \/ Mailbox!reloadGrants
         \/ Mailbox!saveGrant
  PROVE  MailboxOK'
<1>0. /\ MailRow /\ GrantForm(g, acked) /\ GrantRun(run, g, net, acked)
      /\ acked \in Int /\ acked \in Nat /\ acked < box.rev /\ boxes.rev \in Revision
      /\ MailNet(net, box.rev)
  BY DEF MailboxOK, MailRow
<1>1. form' = form /\ box' = box /\ boxes' = boxes /\ acked' = acked
  BY DEF Mailbox!selectMember, Mailbox!checkRight, Mailbox!reloadGrants, Mailbox!saveGrant,
     Mailbox!KeepG, Mailbox!Away, Mailbox!server
<1>2. CASE Mailbox!selectMember \/ Mailbox!checkRight
  <2>1. net' = net /\ run' = Mailbox!Edited
    BY <1>2 DEF Mailbox!selectMember, Mailbox!checkRight
  <2>2. \/ \E x : g' = [g EXCEPT !.draft = x]
        \/ \E x, y : \E v \in Perhaps : g' = [g EXCEPT !.draft = x, !.base = y, !.rev = v]
    <3>1. CASE Mailbox!checkRight
      BY <3>1 DEF Mailbox!checkRight
    <3>2. CASE Mailbox!selectMember
      <4>. DEFINE v == IF Mailbox!readReady THEN g.data.rev ELSE None
      <4>1. v \in Perhaps
        BY <1>0 DEF GrantForm, Perhaps
      <4>2. g' = [g EXCEPT !.draft = g.data.right, !.base = g.data.right, !.rev = v]
        BY <3>2 DEF Mailbox!selectMember
      <4>. QED BY <4>1, <4>2
    <3>. QED BY <1>2, <3>1, <3>2
  <2>3. GrantForm(g', acked) /\ g'.data = g.data
    BY <1>0, <2>2, GrantTyped
  <2>4. GrantRun(run', g', net', acked)
    BY <1>0, <2>1, <2>3, GrantRunKept
  <2>. QED BY <1>0, <1>1, <2>1, <2>3, <2>4, GrantKept
<1>3. CASE Mailbox!reloadGrants
  <2>. DEFINE n == Mailbox!Max2(Mailbox!Max2(Mailbox!orZero(g.rev), Mailbox!orZero(g.conflict)),
                                Mailbox!Max2(Mailbox!orZero(g.saved), g.high))
  <2>1. /\ g' = [g EXCEPT !.error = FALSE] /\ run' = Mailbox!Start("gread", [minimum |-> n])
        /\ Mailbox!Send([kind |-> "grants"])
    BY <1>3 DEF Mailbox!reloadGrants, Mailbox!ReadGrants
  <2>2. n \in Int /\ n > acked
    <3>1. /\ Mailbox!orZero(g.rev) \in Int /\ Mailbox!orZero(g.conflict) \in Int
          /\ Mailbox!orZero(g.saved) \in Int /\ g.high \in Int
      BY <1>0 DEF GrantForm, Perhaps, Mailbox!orZero
    <3>2. g.saved # None => Mailbox!orZero(g.saved) > acked
      BY <1>0 DEF GrantForm, Mailbox!orZero
    <3>3. g.saved = None => g.high > acked
      BY <1>0 DEF GrantForm
    <3>. QED BY <1>0, <3>1, <3>2, <3>3 DEF Mailbox!Max2
  <2>. HIDE DEF n
  <2>3. GrantForm(g', acked)
    <3>1. \E x : g' = [g EXCEPT !.error = x]
      BY <2>1
    <3>. QED BY <1>0, <3>1, GrantTyped
  <2>4. net'.cmd.kind = "grants" /\ MailNet(net', box.rev)
    BY <2>1, MailSent
  <2>5. RunOf(run', {"minimum"}) /\ run'.op = "gread" /\ run'.minimum = n
    BY <2>1, MailStartsRead
  <2>6. GrantRun(run', g', net', acked)
    BY <2>2, <2>4, <2>5 DEF GrantRun
  <2>. QED BY <1>0, <1>1, <2>3, <2>4, <2>6, GrantKept
<1>4. CASE Mailbox!saveGrant
  <2>1. /\ g' = g /\ run' = Mailbox!Start("gput", [rev |-> g.rev])
        /\ Mailbox!Send([kind |-> "grant", rev |-> g.rev, right |-> g.draft, seen |-> g.base])
        /\ g.rev \in Int /\ g.rev > acked
    BY <1>0, <1>4 DEF Mailbox!saveGrant, Mailbox!gstale, GrantForm, Perhaps
  <2>2. net'.cmd.kind = "grant" /\ net'.cmd.rev = g.rev /\ MailNet(net', box.rev)
    BY <2>1, MailSent
  <2>3. RunOf(run', {"rev"}) /\ run'.op = "gput" /\ run'.rev = g.rev
    BY <2>1, MailStartsWrite
  <2>4. GrantRun(run', g', net', acked)
    BY <2>1, <2>2, <2>3 DEF GrantRun
  <2>. QED BY <1>0, <1>1, <2>1, <2>2, <2>4, GrantKept
<1>. QED BY <1>2, <1>3, <1>4

\* A read goes on to the next with the same minimum.
LEMMA ReadsRun ==
  ASSUME NEW r, NEW x, RunOf(r, {"minimum"}), NEW q, q = [r EXCEPT !.op = x]
  PROVE  RunOf(q, {"minimum"}) /\ q.op = x /\ q.minimum = r.minimum
BY DEF RunOf, Fields

\* The answers the grant editor waits for.
LEMMA GrantAnswerStep ==
  ASSUME MailboxOK, form = "grant",
         \/ Mailbox!GrantsRead \/ Mailbox!GrantsReviewed \/ Mailbox!GrantPut
         \/ Mailbox!GrantReadBack \/ Mailbox!GrantShown
  PROVE  MailboxOK'
<1>0. /\ MailRow /\ GrantForm(g, acked) /\ GrantRun(run, g, net, acked)
      /\ acked \in Int /\ acked \in Nat /\ acked < box.rev /\ box.rev \in Int
      /\ boxes.rev \in Revision /\ MailNet(net, box.rev)
  BY DEF MailboxOK, MailRow, BoxRow, Revision
<1>1. /\ form' = form /\ box' = box
      /\ run # None /\ net # None /\ net.answer # None
  BY DEF Mailbox!GrantsRead, Mailbox!GrantsReviewed, Mailbox!GrantPut, Mailbox!GrantReadBack,
     Mailbox!GrantShown, Mailbox!KeepG, Mailbox!Away, Mailbox!server, Mailbox!Doing,
     Mailbox!Answered
<1>2. ASSUME net' = None, run' = None, boxes'.rev \in Revision, acked' = acked,
             GrantForm(g', acked)
      PROVE  MailboxOK'
  <2>1. MailNet(net', box.rev) /\ GrantRun(run', g', net', acked)
    BY <1>2 DEF MailNet, GrantRun
  <2>. QED BY <1>0, <1>1, <1>2, <2>1, GrantKept
<1>3. CASE Mailbox!GrantsRead \/ Mailbox!GrantReadBack
  <2>. DEFINE a == net.answer
              next == IF run.op = "gread" THEN "grefresh" ELSE "gshown"
  <2>1. /\ run.op \in {"gread", "gback"} /\ boxes' = boxes /\ acked' = acked
        /\ IF Mailbox!confirmed(a, run.minimum)
           THEN g' = Mailbox!Adopt(g, a) /\ run' = Mailbox!Step(next) /\ Mailbox!Send([kind |-> "boxes"])
           ELSE g' = [g EXCEPT !.error = TRUE] /\ run' = None /\ net' = None
    BY <1>3
    DEF Mailbox!GrantsRead, Mailbox!GrantReadBack, Mailbox!KeepG, Mailbox!Doing, Mailbox!Got,
        Mailbox!ReadBoxes, Mailbox!Stop, Mailbox!Hang
  <2>2. /\ RunOf(run, {"minimum"}) /\ run.minimum \in Int /\ run.minimum > acked
        /\ net.cmd.kind = "grants"
    BY <1>0, <1>1, <2>1 DEF GrantRun
  <2>3. CASE Mailbox!confirmed(a, run.minimum)
    <3>1. a.ok /\ a.data.rev \in Revision
      BY <1>0, <1>1, <2>2, <2>3 DEF MailNet, Mailbox!confirmed
    <3>2. a.data.rev \in Int /\ a.data.rev > 0 /\ a.data.rev > acked
      <4>1. a.data.rev >= Mailbox!Max2(run.minimum, g.high)
        BY <2>3 DEF Mailbox!confirmed
      <4>2. g.high \in Int
        BY <1>0 DEF GrantForm
      <4>. QED BY <1>0, <2>2, <3>1, <4>1, <4>2 DEF Revision, Mailbox!Max2
    <3>3. GrantForm(g', acked) /\ g'.data = a.data
      <4>1. PICK d, h : d = a.data /\ h = g'
        OBVIOUS
      <4>2. h = [g EXCEPT !.data = d, !.high = Mailbox!Max2(@, d.rev)]
        BY <2>1, <2>3, <4>1 DEF Mailbox!Adopt
      <4>3. d.rev \in Int /\ d.rev > 0 /\ d.rev > acked
        BY <3>2, <4>1
      <4>4. GrantForm(h, acked) /\ h.data = d
        BY <1>0, <4>2, <4>3, GrantAdopted
      <4>. QED BY <4>1, <4>4
    <3>4. net'.cmd.kind = "boxes" /\ MailNet(net', box.rev)
      BY <2>1, <2>3, MailSent
    <3>5. RunOf(run', {"minimum"}) /\ run'.op = next
      BY <2>1, <2>2, <2>3, ReadsRun DEF Mailbox!Step
    <3>6. GrantRun(run', g', net', acked)
      BY <3>2, <3>3, <3>4, <3>5 DEF GrantRun
    <3>. QED BY <1>0, <1>1, <2>1, <3>3, <3>4, <3>6, GrantKept
  <2>4. CASE ~Mailbox!confirmed(a, run.minimum)
    <3>1. \E x : g' = [g EXCEPT !.error = x]
      BY <2>1, <2>4
    <3>. QED BY <1>0, <1>2, <2>1, <2>4, <3>1, GrantTyped
  <2>. QED BY <2>3, <2>4
<1>4. CASE Mailbox!GrantsReviewed \/ Mailbox!GrantShown
  <2>1. /\ run.op \in {"grefresh", "gshown"} /\ net' = None /\ acked' = acked /\ run' = None
        /\ boxes' = Mailbox!Fresh
        /\ \/ \E e : g' = [Mailbox!Released(g) EXCEPT !.error = e]
           \/ \E e : g' = [g EXCEPT !.saved = None, !.error = e]
    BY <1>4
    DEF Mailbox!GrantsReviewed, Mailbox!GrantShown, Mailbox!Doing, Mailbox!Hang, Mailbox!Render,
        Mailbox!Stop
  <2>2. g.data.rev > acked /\ net.cmd.kind = "boxes"
    BY <1>0, <1>1, <2>1 DEF GrantRun
  <2>3. boxes'.rev \in Revision
    BY <1>0, <1>1, <2>1, <2>2 DEF MailNet, Mailbox!Fresh, Mailbox!Got
  <2>4. GrantForm(g', acked)
    BY <1>0, <2>1, <2>2, GrantCleared
  <2>. QED BY <1>2, <2>1, <2>3, <2>4
<1>5. CASE Mailbox!GrantPut
  <2>. DEFINE a == net.answer
              s == Mailbox!Max2(run.rev + 1, g.high)
  <2>1. /\ run.op = "gput" /\ boxes' = boxes
        /\ RunOf(run, {"rev"}) /\ run.rev \in Int /\ run.rev > acked
        /\ net.cmd.kind \in Mailbox!Writes /\ net.cmd.rev = run.rev
    <3>1. run.op = "gput" /\ boxes' = boxes
      BY <1>5 DEF Mailbox!GrantPut, Mailbox!Doing
    <3>. QED BY <1>0, <1>1, <3>1 DEF GrantRun, Mailbox!Writes
  <2>2. CASE a.ok
    <3>. DEFINE x == IF run.mine THEN None ELSE g.draft
                v == IF run.mine THEN None ELSE g.rev
    <3>1. /\ g' = [g EXCEPT !.saved = s, !.draft = x, !.rev = v]
          /\ acked' = run.rev /\ run' = Mailbox!Start("gback", [minimum |-> s])
          /\ Mailbox!Send([kind |-> "grants"])
      BY <1>5, <2>2 DEF Mailbox!GrantPut, Mailbox!Got, Mailbox!ReadGrants
    <3>2. s \in Int /\ s > run.rev /\ v \in Perhaps
      BY <1>0, <2>1 DEF GrantForm, Mailbox!Max2, Perhaps
    <3>3. run.rev < box.rev /\ run.rev \in Nat
      BY <1>0, <1>1, <2>1, <2>2 DEF MailNet
    <3>. HIDE DEF s, x, v
    <3>4. GrantForm(g', acked')
      BY <1>0, <2>1, <3>1, <3>2, GrantSaved
    <3>5. net'.cmd.kind = "grants" /\ MailNet(net', box.rev)
      BY <3>1, MailSent
    <3>6. RunOf(run', {"minimum"}) /\ run'.op = "gback" /\ run'.minimum = s
      BY <3>1, MailStartsRead
    <3>7. GrantRun(run', g', net', acked')
      BY <3>1, <3>2, <3>5, <3>6 DEF GrantRun
    <3>. QED BY <1>0, <1>1, <2>1, <3>1, <3>3, <3>4, <3>5, <3>7, GrantKept
  <2>3. CASE ~a.ok
    <3>. DEFINE v == IF a.conflict \/ a.garbled THEN run.rev ELSE g.conflict
    <3>1. /\ g' = [g EXCEPT !.conflict = v, !.error = g.error \/ a.garbled]
          /\ run' = None /\ net' = None /\ acked' = acked
      BY <1>5, <2>3 DEF Mailbox!GrantPut, Mailbox!Got, Mailbox!Stop, Mailbox!Hang
    <3>2. v \in Perhaps
      BY <1>0, <2>1 DEF GrantForm, Perhaps
    <3>3. \E x : \E w \in Perhaps : g' = [g EXCEPT !.conflict = w, !.error = x]
      BY <3>1, <3>2
    <3>. QED BY <1>0, <1>2, <2>1, <3>1, <3>3, GrantTyped
  <2>. QED BY <2>2, <2>3
<1>. QED BY <1>3, <1>4, <1>5

\* The cache is revalidated under the grant editor.
LEMMA GrantRefreshed ==
  ASSUME MailboxOK, form = "grant", Mailbox!Revalidate
  PROVE  MailboxOK'
<1>0. /\ MailRow /\ GrantForm(g, acked) /\ GrantRun(run, g, net, acked)
      /\ acked \in Int /\ acked \in Nat /\ acked < box.rev /\ box.rev \in Int /\ box.rev > 0
      /\ boxes.rev \in Revision /\ MailNet(net, box.rev)
  BY DEF MailboxOK, MailRow, BoxRow, Revision
<1>1. /\ form' = form /\ box' = box /\ acked' = acked /\ net' = net /\ boxes' = boxes /\ run' = run
      /\ g' = [g EXCEPT !.data = Mailbox!GrantSnapshot, !.high = Mailbox!Max2(@, box.rev)]
  BY DEF Mailbox!Revalidate, Mailbox!Away, Mailbox!server
<1>2. PICK d, h : d = Mailbox!GrantSnapshot /\ h = g'
  OBVIOUS
<1>3. d.rev = box.rev /\ d.rev \in Int /\ d.rev > 0 /\ d.rev > acked
  BY <1>0, <1>2, SnapshotRev
<1>4. h = [g EXCEPT !.data = d, !.high = Mailbox!Max2(@, d.rev)]
  BY <1>1, <1>2, <1>3
<1>5. GrantForm(h, acked) /\ h.data = d
  <2>1. acked \in Int /\ GrantForm(g, acked)
    BY <1>0
  <2>2. d.rev \in Int /\ d.rev > 0 /\ d.rev > acked
    BY <1>3
  <2>. QED BY <1>4, <2>1, <2>2, GrantAdopted
<1>6. GrantRun(run, h, net, acked)
  BY <1>0, <1>3, <1>5 DEF GrantRun
<1>. QED BY <1>0, <1>1, <1>2, <1>5, <1>6, GrantKept

-----------------------------------------------------------------------------
(* The lifecycle editor.                                                   *)

\* A render raises what the editor has seen, and may ask for a review.
LEMMA LifecycleRendered ==
  ASSUME NEW f, NEW k \in Int, LifecycleForm(f, k), NEW b, b.rev \in Int
  PROVE  LifecycleForm(Mailbox!Lifecycle(f, b), k)
<1>. DEFINE n == Mailbox!Max2(f.high, b.rev)
            h == [f EXCEPT !.high = n]
            q == h.required \/ (h.dirty /\ Mailbox!lstale(h, b))
            v == [h EXCEPT !.required = q]
<1>1. n \in Int /\ n > k
  BY DEF LifecycleForm, Mailbox!Max2
<1>2. Mailbox!Lifecycle(f, b) = v
  BY DEF Mailbox!Lifecycle
<1>. HIDE DEF n, q
<1>3. /\ Fields(v, {"snap", "dirty", "next", "reason", "required", "reviewed", "ack", "high"})
      /\ v.snap = f.snap /\ v.high = n
  BY DEF LifecycleForm, Fields
<1>. HIDE DEF h, v
<1>4. LifecycleForm(v, k)
  BY <1>1, <1>3 DEF LifecycleForm
<1>. QED BY <1>2, <1>4

\* Edits and rereads mark a running action and leave its data.
LEMMA LifecycleMarked ==
  ASSUME NEW r, r # None, NEW n, NEW k, LifecycleRun(r, n, k), NEW q,
         \E x : q = [r EXCEPT !.mine = x] \/ q = [r EXCEPT !.steady = x]
  PROVE  LifecycleRun(q, n, k)
<1>1. CASE r.op = "lread"
  <2>1. RunOf(r, {"minimum"})
    BY <1>1 DEF LifecycleRun
  <2>2. RunOf(q, {"minimum"}) /\ q.minimum = r.minimum /\ q.op = r.op
    BY <2>1 DEF RunOf, Fields
  <2>. QED BY <1>1, <2>2 DEF LifecycleRun
<1>2. CASE r.op # "lread"
  <2>1. RunOf(r, {"basis"})
    BY <1>2 DEF LifecycleRun
  <2>2. RunOf(q, {"basis"}) /\ q.basis = r.basis /\ q.op = r.op
    BY <2>1 DEF RunOf, Fields
  <2>. QED BY <1>2, <2>2 DEF LifecycleRun
<1>. QED BY <1>1, <1>2

\* A step that ends in a render.
LEMMA LifecycleKept ==
  ASSUME MailRow, form = "lifecycle", form' = form, box' = box,
         NEW b, b.rev \in Revision, NEW fl, NEW fp, NEW r, Mailbox!Render(b, fl, fp, r),
         acked' \in Nat, acked' < box.rev, MailNet(net', box.rev),
         LifecycleForm(fl, acked'), LifecycleRun(r, net', acked')
  PROVE  MailboxOK'
<1>1. /\ boxes' = b /\ l' = Mailbox!Lifecycle(fl, b)
      /\ run' = r \/ (r # None /\ run' = [r EXCEPT !.steady = FALSE])
  BY DEF Mailbox!Render
<1>2. LifecycleForm(l', acked')
  BY <1>1, LifecycleRendered DEF Revision
<1>3. LifecycleRun(run', net', acked')
  BY <1>1, LifecycleMarked
<1>. QED BY <1>1, <1>2, <1>3 DEF MailboxOK, MailRow, Mailbox!Forms

\* What the user does in the lifecycle editor.
LEMMA LifecycleUserStep ==
  ASSUME MailboxOK, form = "lifecycle",
         \/ Mailbox!editLifecycle \/ Mailbox!acknowledge \/ Mailbox!reload \/ Mailbox!submit
  PROVE  MailboxOK'
<1>0. /\ MailRow /\ LifecycleForm(l, acked) /\ LifecycleRun(run, net, acked)
      /\ acked \in Int /\ acked \in Nat /\ acked < box.rev /\ box.rev \in Int
      /\ boxes.rev \in Revision /\ boxes.rev \in Int /\ MailNet(net, box.rev)
  BY DEF MailboxOK, MailRow, BoxRow, Revision
<1>1. form' = form /\ box' = box /\ acked' = acked
  BY DEF Mailbox!editLifecycle, Mailbox!acknowledge, Mailbox!reload, Mailbox!submit,
     Mailbox!KeepL, Mailbox!Away, Mailbox!server
<1>2. CASE Mailbox!editLifecycle
  <2>1. PICK f : /\ \E x : \/ f = [Mailbox!Pinned(l) EXCEPT !.next = x]
                           \/ f = [Mailbox!Pinned(l) EXCEPT !.reason = x]
                 /\ Mailbox!Render(boxes, f, p, Mailbox!Edited) /\ net' = net
    BY <1>2 DEF Mailbox!editLifecycle
  <2>2. LifecycleForm(Mailbox!Pinned(l), acked)
    BY <1>0 DEF Mailbox!Pinned, LifecycleForm, Fields
  <2>3. LifecycleForm(f, acked)
    <3>1. PICK h : h = Mailbox!Pinned(l)
      OBVIOUS
    <3>2. LifecycleForm(h, acked) /\ \E x : f = [h EXCEPT !.next = x] \/ f = [h EXCEPT !.reason = x]
      BY <2>1, <2>2, <3>1
    <3>. QED BY <3>2 DEF LifecycleForm, Fields
  <2>4. LifecycleRun(Mailbox!Edited, net, acked)
    <3>1. CASE run = None
      BY <1>0, <3>1 DEF Mailbox!Edited
    <3>2. CASE run # None
      <4>1. \E x : Mailbox!Edited = [run EXCEPT !.mine = x]
        BY <3>2 DEF Mailbox!Edited
      <4>. QED BY <1>0, <3>2, <4>1, LifecycleMarked
    <3>. QED BY <3>1, <3>2
  <2>. QED BY <1>0, <1>1, <2>1, <2>3, <2>4, LifecycleKept
<1>3. CASE Mailbox!acknowledge
  <2>1. PICK f : f = [l EXCEPT !.ack = TRUE] /\ Mailbox!Render(boxes, f, p, run) /\ net' = net
    BY <1>3 DEF Mailbox!acknowledge
  <2>2. LifecycleForm(f, acked)
    BY <1>0, <2>1 DEF LifecycleForm, Fields
  <2>. QED BY <1>0, <1>1, <2>1, <2>2, LifecycleKept
<1>4. CASE Mailbox!reload
  <2>1. PICK f, n, r :
          /\ f = [l EXCEPT !.required = TRUE, !.ack = FALSE] /\ n = Mailbox!Max2(l.high, boxes.rev)
          /\ r = Mailbox!Start("lread", [minimum |-> n])
          /\ Mailbox!Render(boxes, f, p, r) /\ Mailbox!Send([kind |-> "boxes"])
    BY <1>4 DEF Mailbox!reload, Mailbox!ReadBoxes
  <2>2. LifecycleForm(f, acked)
    BY <1>0, <2>1 DEF LifecycleForm, Fields
  <2>3. n \in Int /\ n > acked
    BY <1>0, <2>1 DEF LifecycleForm, Mailbox!Max2
  <2>4. net'.cmd.kind = "boxes" /\ MailNet(net', box.rev)
    BY <2>1, MailSent
  <2>5. RunOf(r, {"minimum"}) /\ r.op = "lread" /\ r.minimum = n
    BY <2>1, MailStartsRead
  <2>6. LifecycleRun(r, net', acked)
    BY <2>3, <2>4, <2>5 DEF LifecycleRun
  <2>. QED BY <1>0, <1>1, <2>1, <2>2, <2>4, <2>6, LifecycleKept
<1>5. CASE Mailbox!submit
  <2>1. PICK c, k, x :
          /\ c = Mailbox!lcur /\ run' = Mailbox!Start("lpost", [basis |-> c])
          /\ k \in {"handover", "convert"}
          /\ Mailbox!Send([kind |-> k, form |-> "lifecycle", rev |-> c.rev, to |-> x, seen |-> c])
          /\ ~Mailbox!lstale(l, boxes) /\ l' = l /\ boxes' = boxes
    <3>. DEFINE k == IF Mailbox!personal THEN "handover" ELSE "convert"
    <3>1. k \in {"handover", "convert"}
      OBVIOUS
    <3>2. /\ run' = Mailbox!Start("lpost", [basis |-> Mailbox!lcur])
          /\ Mailbox!Send([kind |-> k, form |-> "lifecycle", rev |-> Mailbox!lcur.rev,
                           to |-> l.next, seen |-> Mailbox!lcur])
          /\ ~Mailbox!lstale(l, boxes) /\ l' = l /\ boxes' = boxes
      BY <1>5 DEF Mailbox!submit, Mailbox!canSubmit
    <3>. HIDE DEF k
    <3>. QED BY <3>1, <3>2
  <2>2. c.rev \in Int /\ c.rev > acked
    <3>1. c = Mailbox!lcurrent(l, boxes) /\ c.rev \in Int
      BY <1>0, <2>1 DEF Mailbox!lcur, Mailbox!lcurrent, LifecycleForm
    <3>2. ~(c.rev < Mailbox!Max2(l.high, boxes.rev))
      BY <2>1, <3>1 DEF Mailbox!lstale
    <3>. QED BY <1>0, <3>1, <3>2 DEF LifecycleForm, Mailbox!Max2
  <2>3. net'.cmd.kind \in Mailbox!Writes /\ net'.cmd.rev = c.rev /\ MailNet(net', box.rev)
    BY <2>1, MailSent DEF Mailbox!Writes
  <2>4. RunOf(run', {"basis"}) /\ run'.op = "lpost" /\ run'.basis = c
    BY <2>1, MailStartsPost
  <2>5. LifecycleRun(run', net', acked)
    BY <2>2, <2>3, <2>4 DEF LifecycleRun
  <2>. QED BY <1>0, <1>1, <2>1, <2>3, <2>5 DEF MailboxOK, MailRow, Mailbox!Forms
<1>. QED BY <1>2, <1>3, <1>4, <1>5

\* The answers the lifecycle editor waits for, and the list when it is reread.
LEMMA LifecycleAnswerStep ==
  ASSUME MailboxOK, form = "lifecycle",
         \/ Mailbox!Reloaded \/ Mailbox!Submitted \/ Mailbox!LifecycleShown
         \/ Mailbox!Revalidate
  PROVE  MailboxOK'
<1>0. /\ MailRow /\ LifecycleForm(l, acked) /\ LifecycleRun(run, net, acked)
      /\ acked \in Int /\ acked \in Nat /\ acked < box.rev /\ box.rev \in Int
      /\ boxes.rev \in Revision /\ boxes.rev \in Int /\ MailNet(net, box.rev)
  BY DEF MailboxOK, MailRow, BoxRow, Revision
<1>1. form' = form /\ box' = box
  BY DEF Mailbox!Reloaded, Mailbox!Submitted, Mailbox!LifecycleShown, Mailbox!Revalidate,
     Mailbox!KeepL, Mailbox!Away, Mailbox!server
<1>2. ASSUME NEW b, b.rev \in Revision, NEW f, LifecycleForm(f, acked),
             Mailbox!Render(b, f, p, None), net' = None, acked' = acked
      PROVE  MailboxOK'
  <2>1. MailNet(net', box.rev) /\ LifecycleRun(None, net', acked)
    BY <1>2 DEF MailNet, LifecycleRun
  <2>. QED BY <1>0, <1>1, <1>2, <2>1, LifecycleKept
<1>3. CASE Mailbox!Revalidate
  <2>1. /\ Mailbox!Render(Mailbox!Snapshot, l, p, run) /\ net' = net /\ acked' = acked
    BY <1>3 DEF Mailbox!Revalidate
  <2>2. Mailbox!Snapshot.rev \in Revision
    BY <1>0, SnapshotRev DEF MailRow, BoxRow
  <2>. QED BY <1>0, <1>1, <2>1, <2>2, LifecycleKept
<1>4. CASE Mailbox!LifecycleShown
  <2>1. /\ Mailbox!Render(Mailbox!Fresh, l, p, None) /\ net' = None /\ acked' = acked
        /\ run # None /\ net # None /\ net.answer # None /\ run.op = "lrefresh"
    BY <1>4 DEF Mailbox!LifecycleShown, Mailbox!Doing, Mailbox!Answered, Mailbox!Hang, Mailbox!Stop
  <2>2. net.cmd.kind = "boxes"
    BY <1>0, <2>1 DEF LifecycleRun
  <2>3. Mailbox!Fresh.rev \in Revision
    BY <1>0, <2>1, <2>2 DEF MailNet, Mailbox!Fresh, Mailbox!Got
  <2>. QED BY <1>0, <1>2, <2>1, <2>3
<1>5. CASE Mailbox!Reloaded
  <2>1. PICK a, t, x :
          /\ a = net.answer
          /\ t = [l EXCEPT !.snap = a.data, !.high = a.data.rev, !.dirty = TRUE,
                           !.required = FALSE, !.reviewed = TRUE, !.next = x]
          /\ Mailbox!Render(boxes,
               IF a.ok /\ run.steady /\ run.mine /\ a.data.rev >= run.minimum THEN t ELSE l, p, None)
          /\ net' = None /\ acked' = acked
          /\ run # None /\ net # None /\ a # None /\ run.op = "lread"
    <3>. DEFINE x == IF l.next = net.answer.data.owner THEN "" ELSE l.next
                t == [l EXCEPT !.snap = net.answer.data, !.high = net.answer.data.rev,
                               !.dirty = TRUE, !.required = FALSE, !.reviewed = TRUE, !.next = x]
    <3>1. /\ Mailbox!Render(boxes,
               IF /\ net.answer.ok /\ run.steady /\ run.mine
                  /\ net.answer.data.rev >= run.minimum THEN t ELSE l, p, None)
          /\ net' = None /\ acked' = acked
          /\ run # None /\ net # None /\ net.answer # None /\ run.op = "lread"
      BY <1>5 DEF Mailbox!Reloaded, Mailbox!Doing, Mailbox!Answered, Mailbox!Hang, Mailbox!Stop,
         Mailbox!Got
    <3>. HIDE DEF x
    <3>. QED BY <3>1
  <2>2. /\ net.cmd.kind = "boxes" /\ run.minimum \in Int /\ run.minimum > acked
    BY <1>0, <2>1 DEF LifecycleRun
  <2>3. CASE a.ok /\ run.steady /\ run.mine /\ a.data.rev >= run.minimum
    <3>1. a.data.rev \in Int /\ a.data.rev > acked
      BY <1>0, <2>1, <2>2, <2>3 DEF MailNet, Revision
    <3>2. PICK d : d = a.data
      OBVIOUS
    <3>3. /\ Fields(t, {"snap", "dirty", "next", "reason", "required", "reviewed", "ack", "high"})
          /\ t.snap = d /\ t.high = d.rev
      BY <1>0, <2>1, <3>2 DEF LifecycleForm, Fields
    <3>4. LifecycleForm(t, acked)
      BY <3>1, <3>2, <3>3 DEF LifecycleForm
    <3>. QED BY <1>0, <1>2, <2>1, <2>3, <3>4
  <2>4. CASE ~(a.ok /\ run.steady /\ run.mine /\ a.data.rev >= run.minimum)
    <3>1. Mailbox!Render(boxes, l, p, None)
      BY <2>1, <2>4
    <3>. QED BY <1>0, <1>2, <2>1, <3>1
  <2>. QED BY <2>3, <2>4
<1>6. CASE Mailbox!Submitted
  <2>. DEFINE latched == [l EXCEPT !.snap = run.basis, !.dirty = TRUE, !.required = TRUE, !.ack = FALSE]
  <2>1. /\ run # None /\ net # None /\ net.answer # None /\ run.op = "lpost"
    BY <1>6 DEF Mailbox!Submitted, Mailbox!Doing, Mailbox!Answered
  <2>2. /\ RunOf(run, {"basis"}) /\ run.basis.rev \in Int /\ run.basis.rev > acked
        /\ net.cmd.kind \in Mailbox!Writes /\ net.cmd.rev = run.basis.rev
    BY <1>0, <2>1 DEF LifecycleRun
  <2>3. CASE net.answer.ok
    <3>1. PICK f, n, x, y :
            /\ n = Mailbox!Max2(l.high, run.basis.rev + 1)
            /\ f = [latched EXCEPT !.high = n, !.next = x, !.reason = y]
            /\ Mailbox!Render(boxes, f, p, Mailbox!Step("lrefresh"))
            /\ acked' = run.basis.rev /\ Mailbox!Send([kind |-> "boxes"])
      <4>. DEFINE x == IF run.mine THEN "" ELSE l.next
                  y == IF run.mine THEN FALSE ELSE l.reason
                  n == Mailbox!Max2(l.high, run.basis.rev + 1)
                  f == [latched EXCEPT !.high = n, !.next = x, !.reason = y]
      <4>1. /\ Mailbox!Render(boxes, [latched EXCEPT !.high = Mailbox!Max2(@, run.basis.rev + 1),
                                           !.next = IF run.mine THEN "" ELSE @,
                                           !.reason = IF run.mine THEN FALSE ELSE @],
                              p, Mailbox!Step("lrefresh"))
            /\ acked' = run.basis.rev /\ Mailbox!Send([kind |-> "boxes"])
        BY <1>6, <2>3 DEF Mailbox!Submitted, Mailbox!Got, Mailbox!ReadBoxes
      <4>2. latched.high = l.high /\ latched.next = l.next /\ latched.reason = l.reason
        BY <1>0 DEF LifecycleForm, Fields
      <4>3. Mailbox!Render(boxes, f, p, Mailbox!Step("lrefresh"))
        BY <4>1, <4>2
      <4>. HIDE DEF x, y, n, f
      <4>4. f = [latched EXCEPT !.high = n, !.next = x, !.reason = y]
        BY DEF f
      <4>5. n = Mailbox!Max2(l.high, run.basis.rev + 1)
        BY DEF n
      <4>. QED BY <4>1, <4>3, <4>4, <4>5
    <3>2. n \in Int /\ n > run.basis.rev
      BY <1>0, <2>2, <3>1 DEF LifecycleForm, Mailbox!Max2
    <3>3. run.basis.rev < box.rev /\ run.basis.rev \in Nat
      BY <1>0, <2>1, <2>2, <2>3 DEF MailNet
    <3>4. PICK c : c = run.basis
      OBVIOUS
    <3>5. /\ Fields(f, {"snap", "dirty", "next", "reason", "required", "reviewed", "ack", "high"})
          /\ f.snap = c /\ f.high = n
      BY <1>0, <3>1, <3>4 DEF LifecycleForm, Fields
    <3>6. LifecycleForm(f, acked')
      BY <2>2, <3>1, <3>2, <3>4, <3>5 DEF LifecycleForm
    <3>7. net'.cmd.kind = "boxes" /\ MailNet(net', box.rev)
      BY <3>1, MailSent
    <3>8. LifecycleRun(Mailbox!Step("lrefresh"), net', acked')
      <4>1. PICK q : q = [run EXCEPT !.op = "lrefresh"]
        OBVIOUS
      <4>2. RunOf(q, {"basis"}) /\ q.op = "lrefresh"
        BY <2>2, <4>1 DEF RunOf, Fields
      <4>3. LifecycleRun(q, net', acked')
        BY <3>7, <4>2 DEF LifecycleRun
      <4>. QED BY <4>1, <4>3 DEF Mailbox!Step
    <3>. QED BY <1>0, <1>1, <3>1, <3>3, <3>6, <3>7, <3>8, LifecycleKept
  <2>4. CASE ~net.answer.ok
    <3>1. PICK f : /\ f = latched /\ Mailbox!Render(boxes, f, p, None)
                   /\ net' = None /\ acked' = acked
      BY <1>6, <2>4 DEF Mailbox!Submitted, Mailbox!Got, Mailbox!Stop, Mailbox!Hang
    <3>2. PICK c : c = run.basis
      OBVIOUS
    <3>3. /\ Fields(f, {"snap", "dirty", "next", "reason", "required", "reviewed", "ack", "high"})
          /\ f.snap = c /\ f.high = l.high
      BY <1>0, <3>1, <3>2 DEF LifecycleForm, Fields
    <3>4. LifecycleForm(f, acked)
      BY <1>0, <2>2, <3>2, <3>3 DEF LifecycleForm
    <3>. QED BY <1>0, <1>2, <3>1, <3>4
  <2>. QED BY <2>3, <2>4
<1>. QED BY <1>3, <1>4, <1>5, <1>6

-----------------------------------------------------------------------------
(* The send policy form.                                                   *)

\* What the policy form compares with has a revision.
LEMMA PolicyCurrent ==
  ASSUME NEW f, NEW k \in Int, PolicyKept(f, k), NEW b, b.rev \in Int
  PROVE  Mailbox!pcurrent(f, b).rev \in Int
BY DEF PolicyKept, Mailbox!pcurrent

\* A render raises what the policy form has seen.
LEMMA PolicyRendered ==
  ASSUME NEW f, NEW k \in Int, PolicyKept(f, k), NEW b, b.rev \in Int
  PROVE  PolicyKept(Mailbox!PolicyForm(f, b), k)
<1>. DEFINE n == Mailbox!Max2(f.high, Mailbox!pcurrent(f, b).rev)
            v == [f EXCEPT !.high = n]
<1>1. n \in Int
  BY PolicyCurrent, MailMax DEF PolicyKept
<1>2. Mailbox!PolicyForm(f, b) = v
  BY DEF Mailbox!PolicyForm
<1>. HIDE DEF n
<1>3. /\ Fields(v, {"choice", "rev", "required", "reviewed", "high"})
      /\ v.rev = f.rev /\ v.required = f.required /\ v.reviewed = f.reviewed /\ v.high = n
  BY DEF PolicyKept, Fields
<1>. HIDE DEF v
<1>4. PolicyKept(v, k)
  BY <1>1, <1>3 DEF PolicyKept
<1>. QED BY <1>2, <1>4

\* A step that ends in a render.
LEMMA PolicyStepKept ==
  ASSUME MailRow, form = "policy", form' = form, box' = box,
         NEW b, b.rev \in Revision, NEW fl, NEW fp, NEW r, Mailbox!Render(b, fl, fp, r),
         acked' \in Nat, acked' < box.rev, MailNet(net', box.rev),
         PolicyKept(fp, acked'), PolicyRun(r, net', acked')
  PROVE  MailboxOK'
<1>1. /\ boxes' = b /\ p' = Mailbox!PolicyForm(fp, b)
      /\ run' = r \/ (r # None /\ run' = [r EXCEPT !.steady = FALSE])
  BY DEF Mailbox!Render
<1>2. PolicyKept(p', acked')
  BY <1>1, PolicyRendered DEF Revision
<1>3. PolicyRun(run', net', acked')
  <2>1. ASSUME r # None, NEW q, q = [r EXCEPT !.steady = FALSE]
        PROVE  RunOf(q, {"rev"}) /\ q.op = r.op /\ q.rev = r.rev
    BY <2>1 DEF PolicyRun, RunOf, Fields
  <2>2. CASE r # None /\ run' = [r EXCEPT !.steady = FALSE]
    <3>1. RunOf(run', {"rev"}) /\ run'.op = r.op /\ run'.rev = r.rev
      BY <2>1, <2>2
    <3>. QED BY <2>2, <3>1 DEF PolicyRun
  <2>. QED BY <1>1, <2>2
<1>. QED BY <1>1, <1>2, <1>3 DEF MailboxOK, MailRow, Mailbox!Forms

\* A choice, and a review of what is shown or was read.
LEMMA PolicyTyped ==
  ASSUME NEW f, NEW k \in Int, PolicyKept(f, k), NEW x, NEW h, h = [f EXCEPT !.choice = x]
  PROVE  PolicyKept(h, k)
<1>1. /\ Fields(h, {"choice", "rev", "required", "reviewed", "high"})
      /\ h.rev = f.rev /\ h.required = f.required /\ h.reviewed = f.reviewed /\ h.high = f.high
  BY DEF PolicyKept, Fields
<1>. QED BY <1>1 DEF PolicyKept

\* The form takes over a policy that was read.
LEMMA PolicyTook ==
  ASSUME NEW f, NEW k \in Int, PolicyKept(f, k), NEW v, v.rev \in Int, v.rev > k, NEW x,
         NEW h, h = Mailbox!Took(f, v) \/ h = [Mailbox!Took(f, v) EXCEPT !.choice = x]
  PROVE  PolicyKept(h, k)
<1>1. PICK w : w = [value |-> v, parent |-> boxes]
  OBVIOUS
<1>2. w.value.rev \in Int
  BY <1>1
<1>3. PICK t, n : n = v.rev /\ t = [f EXCEPT !.reviewed = w, !.rev = n, !.required = None]
  OBVIOUS
<1>4. t = Mailbox!Took(f, v)
  BY <1>1, <1>3 DEF Mailbox!Took
<1>5. /\ Fields(t, {"choice", "rev", "required", "reviewed", "high"})
      /\ t.rev = n /\ t.required = None /\ t.reviewed = w /\ t.high = f.high
  BY <1>3 DEF PolicyKept, Fields
<1>6. PolicyKept(t, k)
  BY <1>2, <1>3, <1>5 DEF PolicyKept
<1>7. CASE h = [Mailbox!Took(f, v) EXCEPT !.choice = x]
  BY <1>4, <1>6, <1>7, PolicyTyped
<1>. QED BY <1>4, <1>6, <1>7

\* A write that was acknowledged, or refused for its revision, is followed by a read.
LEMMA PolicyLatched ==
  ASSUME NEW f, NEW k \in Int, PolicyKept(f, k), NEW r \in Int, r > k, NEW wrote,
         NEW j \in Int, j = IF wrote THEN r ELSE k
  PROVE  PolicyKept(Mailbox!Latched(f, r, wrote), j)
<1>1. PICK n, m : n = Mailbox!Max2(r, f.high) /\ m = IF wrote THEN r ELSE 0
  OBVIOUS
<1>2. PICK q : q = [minimum |-> n, newer |-> m]
  OBVIOUS
<1>3. /\ n \in Int /\ m \in Int /\ n >= r
  BY <1>1 DEF PolicyKept, Mailbox!Max2
<1>4. q \in Floor /\ q.minimum = n /\ q.newer = m
  BY <1>2, <1>3 DEF Floor
<1>5. q # None
  BY <1>4, ConsoleBounds DEF Floor
<1>6. PICK h : h = [f EXCEPT !.required = q]
  OBVIOUS
<1>7. h = Mailbox!Latched(f, r, wrote)
  BY <1>1, <1>2, <1>6 DEF Mailbox!Latched
<1>8. /\ Fields(h, {"choice", "rev", "required", "reviewed", "high"})
      /\ h.rev = f.rev /\ h.required = q /\ h.reviewed = f.reviewed /\ h.high = f.high
  BY <1>6 DEF PolicyKept, Fields
<1>9. q.minimum > j \/ q.newer >= j
  BY <1>1, <1>3, <1>4
<1>10. PolicyKept(h, j)
  BY <1>4, <1>5, <1>8, <1>9 DEF PolicyKept
<1>. QED BY <1>7, <1>10

\* What the user does in the send policy form.
LEMMA PolicyUserStep ==
  ASSUME MailboxOK, form = "policy",
         Mailbox!choose \/ Mailbox!review \/ Mailbox!savePolicy
  PROVE  MailboxOK'
<1>0. /\ MailRow /\ PolicyKept(p, acked) /\ PolicyRun(run, net, acked)
      /\ acked \in Int /\ acked \in Nat /\ acked < box.rev /\ box.rev \in Int
      /\ boxes.rev \in Revision /\ boxes.rev \in Int /\ MailNet(net, box.rev)
  BY DEF MailboxOK, MailRow, BoxRow, Revision
<1>1. form' = form /\ box' = box /\ acked' = acked
  BY DEF Mailbox!choose, Mailbox!review, Mailbox!savePolicy, Mailbox!KeepL, Mailbox!Away,
     Mailbox!server
<1>2. CASE Mailbox!choose
  <2>1. PICK v, f : /\ f = [p EXCEPT !.choice = v] /\ Mailbox!Render(boxes, l, f, run) /\ net' = net
    BY <1>2 DEF Mailbox!choose
  <2>2. PolicyKept(f, acked)
    BY <1>0, <2>1, PolicyTyped
  <2>. QED BY <1>0, <1>1, <2>1, <2>2, PolicyStepKept
<1>3. CASE Mailbox!review
  <2>1. CASE p.required = None /\ Mailbox!pcurrent(p, boxes).rev >= Mailbox!Max2(p.rev, p.high)
    <3>1. PICK n, f : /\ n = Mailbox!pcurrent(p, boxes).rev
                      /\ f = [p EXCEPT !.choice = "", !.rev = n]
                      /\ Mailbox!Render(boxes, l, f, run) /\ net' = net
      BY <1>3, <2>1 DEF Mailbox!review
    <3>2. n \in Int /\ n > acked
      <4>1. n \in Int
        BY <1>0, <3>1, PolicyCurrent
      <4>2. p.rev \in Int /\ p.high \in Int /\ p.rev > acked
        BY <1>0, <2>1 DEF PolicyKept
      <4>. QED BY <1>0, <2>1, <3>1, <4>1, <4>2 DEF Mailbox!Max2
    <3>3. /\ Fields(f, {"choice", "rev", "required", "reviewed", "high"})
          /\ f.rev = n /\ f.required = p.required /\ f.reviewed = p.reviewed /\ f.high = p.high
      BY <1>0, <3>1 DEF PolicyKept, Fields
    <3>4. PolicyKept(f, acked)
      BY <1>0, <2>1, <3>2, <3>3 DEF PolicyKept
    <3>. QED BY <1>0, <1>1, <3>1, <3>4, PolicyStepKept
  <2>2. CASE ~(p.required = None /\ Mailbox!pcurrent(p, boxes).rev >= Mailbox!Max2(p.rev, p.high))
    <3>1. PICK r : /\ r = Mailbox!Start("pread", [rev |-> p.rev])
                   /\ Mailbox!Render(boxes, l, p, r) /\ Mailbox!Send([kind |-> "boxes"])
      BY <1>3, <2>2 DEF Mailbox!review, Mailbox!ReadBoxes
    <3>2. net'.cmd.kind = "boxes" /\ MailNet(net', box.rev)
      BY <3>1, MailSent
    <3>3. RunOf(r, {"rev"}) /\ r.op = "pread" /\ r.rev = p.rev
      BY <3>1, MailStartsWrite
    <3>4. PolicyRun(r, net', acked)
      BY <1>0, <3>2, <3>3 DEF PolicyRun, PolicyKept
    <3>. QED BY <1>0, <1>1, <3>1, <3>2, <3>4, PolicyStepKept
  <2>. QED BY <2>1, <2>2
<1>4. CASE Mailbox!savePolicy
  <2>1. PICK c, s : /\ run' = Mailbox!Start("pput", [rev |-> p.rev])
                    /\ Mailbox!Send([kind |-> "policy", rev |-> p.rev, choice |-> c, seen |-> s])
                    /\ p' = p /\ boxes' = boxes /\ p.required = None
    BY <1>4 DEF Mailbox!savePolicy, Mailbox!pstale
  <2>2. net'.cmd.kind = "policy" /\ net'.cmd.rev = p.rev /\ MailNet(net', box.rev)
    BY <2>1, MailSent
  <2>3. RunOf(run', {"rev"}) /\ run'.op = "pput" /\ run'.rev = p.rev
    BY <2>1, MailStartsWrite
  <2>4. PolicyRun(run', net', acked)
    BY <1>0, <2>1, <2>2, <2>3 DEF PolicyRun, PolicyKept
  <2>. QED BY <1>0, <1>1, <2>1, <2>2, <2>4 DEF MailboxOK, MailRow, Mailbox!Forms
<1>. QED BY <1>2, <1>3, <1>4

\* The answers the send policy form waits for, and the list when it is reread.
LEMMA PolicyAnswerStep ==
  ASSUME MailboxOK, form = "policy",
         \/ Mailbox!Reviewed \/ Mailbox!PolicyPut \/ Mailbox!PolicyShown \/ Mailbox!Revalidate
  PROVE  MailboxOK'
<1>0. /\ MailRow /\ PolicyKept(p, acked) /\ PolicyRun(run, net, acked)
      /\ acked \in Int /\ acked \in Nat /\ acked < box.rev /\ box.rev \in Int
      /\ boxes.rev \in Revision /\ boxes.rev \in Int /\ MailNet(net, box.rev)
  BY DEF MailboxOK, MailRow, BoxRow, Revision
<1>1. form' = form /\ box' = box
  BY DEF Mailbox!Reviewed, Mailbox!PolicyPut, Mailbox!PolicyShown, Mailbox!Revalidate,
     Mailbox!KeepL, Mailbox!Away, Mailbox!server
<1>2. ASSUME NEW b, b.rev \in Revision, NEW f, PolicyKept(f, acked),
             Mailbox!Render(b, l, f, None), net' = None, acked' = acked
      PROVE  MailboxOK'
  <2>1. MailNet(net', box.rev) /\ PolicyRun(None, net', acked)
    BY <1>2 DEF MailNet, PolicyRun
  <2>. QED BY <1>0, <1>1, <1>2, <2>1, PolicyStepKept
<1>3. CASE Mailbox!Revalidate
  <2>1. /\ Mailbox!Render(Mailbox!Snapshot, l, p, run) /\ net' = net /\ acked' = acked
    BY <1>3 DEF Mailbox!Revalidate
  <2>2. Mailbox!Snapshot.rev \in Revision
    BY <1>0, SnapshotRev DEF MailRow, BoxRow
  <2>. QED BY <1>0, <1>1, <2>1, <2>2, PolicyStepKept
<1>4. CASE Mailbox!Reviewed
  <2>1. PICK a, c, m, n :
          /\ a = net.answer
          /\ c = IF p.required = None THEN p.rev ELSE p.required.minimum
          /\ m = Mailbox!Max2(c, p.high)
          /\ n = IF p.required = None THEN 0 ELSE p.required.newer
          /\ Mailbox!Render(boxes, l, IF a.ok /\ Mailbox!policySnapshot(a.data, m, n)
                                      THEN [Mailbox!Took(p, a.data) EXCEPT !.choice = ""] ELSE p, None)
          /\ net' = None /\ acked' = acked
          /\ run # None /\ net # None /\ a # None /\ run.op = "pread"
    BY <1>4 DEF Mailbox!Reviewed, Mailbox!Doing, Mailbox!Answered, Mailbox!Hang, Mailbox!Stop,
       Mailbox!Got
  <2>2. net.cmd.kind = "boxes"
    BY <1>0, <2>1 DEF PolicyRun
  <2>3. CASE a.ok /\ Mailbox!policySnapshot(a.data, m, n)
    <3>1. PICK d, f : d = a.data /\ f = [Mailbox!Took(p, d) EXCEPT !.choice = ""]
      OBVIOUS
    <3>2. d.rev \in Int /\ d.rev >= m /\ d.rev > n
      <4>1. d.rev \in Revision
        BY <1>0, <2>1, <2>2, <2>3, <3>1 DEF MailNet
      <4>2. d.rev >= m /\ d.rev > n
        BY <2>3, <3>1 DEF Mailbox!policySnapshot
      <4>. QED BY <4>1, <4>2 DEF Revision
    <3>3. d.rev > acked
      <4>1. CASE p.required = None
        <5>1. c \in Int /\ c > acked /\ p.high \in Int
          BY <1>0, <2>1, <4>1 DEF PolicyKept
        <5>2. m >= c /\ m \in Int
          <6>1. m = Mailbox!Max2(c, p.high)
            BY <2>1
          <6>. QED BY <5>1, <6>1, MailMax
        <5>. QED BY <1>0, <3>2, <5>1, <5>2
      <4>2. CASE p.required # None
        <5>1. /\ p.required.minimum \in Int /\ p.required.newer \in Int /\ p.high \in Int
              /\ p.required.minimum > acked \/ p.required.newer >= acked
          BY <1>0, <4>2 DEF PolicyKept, Floor
        <5>2. c = p.required.minimum /\ n = p.required.newer
          BY <2>1, <4>2
        <5>3. m >= c /\ m \in Int
          <6>1. m = Mailbox!Max2(c, p.high) /\ c \in Int
            BY <2>1, <5>1, <5>2
          <6>. QED BY <5>1, <6>1, MailMax
        <5>. QED BY <1>0, <3>2, <5>1, <5>2, <5>3
      <4>. QED BY <4>1, <4>2
    <3>4. PolicyKept(f, acked)
      BY <1>0, <3>1, <3>2, <3>3, PolicyTook
    <3>5. Mailbox!Render(boxes, l, f, None)
      BY <2>1, <2>3, <3>1
    <3>. QED BY <1>0, <1>2, <2>1, <3>4, <3>5
  <2>4. CASE ~(a.ok /\ Mailbox!policySnapshot(a.data, m, n))
    <3>1. Mailbox!Render(boxes, l, p, None)
      BY <2>1, <2>4
    <3>. QED BY <1>0, <1>2, <2>1, <3>1
  <2>. QED BY <2>3, <2>4
<1>5. CASE Mailbox!PolicyShown
  <2>1. PICK b : /\ b = Mailbox!Fresh /\ net' = None /\ acked' = acked
                 /\ Mailbox!Render(b, l, IF /\ run.op = "pconfirm"
                                            /\ Mailbox!policySnapshot(b, Mailbox!Max2(run.rev, p.high), run.rev)
                                         THEN Mailbox!Took(p, b) ELSE p, None)
                 /\ run # None /\ net # None /\ net.answer # None
                 /\ run.op \in {"pconfirm", "pshow"}
    BY <1>5 DEF Mailbox!PolicyShown, Mailbox!Doing, Mailbox!Answered, Mailbox!Hang, Mailbox!Stop
  <2>2. /\ net.cmd.kind = "boxes" /\ run.rev \in Int
        /\ run.op = "pconfirm" => run.rev >= acked
    BY <1>0, <2>1 DEF PolicyRun
  <2>3. b.rev \in Revision /\ b.rev \in Int
    BY <1>0, <2>1, <2>2 DEF MailNet, Mailbox!Fresh, Mailbox!Got, Revision
  <2>4. CASE /\ run.op = "pconfirm"
             /\ Mailbox!policySnapshot(b, Mailbox!Max2(run.rev, p.high), run.rev)
    <3>1. b.rev > acked
      BY <1>0, <2>2, <2>3, <2>4 DEF Mailbox!policySnapshot
    <3>2. PICK f : f = Mailbox!Took(p, b)
      OBVIOUS
    <3>3. PolicyKept(f, acked)
      BY <1>0, <2>3, <3>1, <3>2, PolicyTook
    <3>4. Mailbox!Render(b, l, f, None)
      BY <2>1, <2>4, <3>2
    <3>. QED BY <1>2, <2>1, <2>3, <3>3, <3>4
  <2>5. CASE ~(/\ run.op = "pconfirm"
               /\ Mailbox!policySnapshot(b, Mailbox!Max2(run.rev, p.high), run.rev))
    <3>1. Mailbox!Render(b, l, p, None)
      BY <2>1, <2>5
    <3>. QED BY <1>0, <1>2, <2>1, <2>3, <3>1
  <2>. QED BY <2>4, <2>5
<1>6. CASE Mailbox!PolicyPut
  <2>1. /\ run # None /\ net # None /\ net.answer # None /\ run.op = "pput"
    BY <1>6 DEF Mailbox!PolicyPut, Mailbox!Doing, Mailbox!Answered
  <2>2. /\ RunOf(run, {"rev"}) /\ run.rev \in Int /\ run.rev > acked
        /\ net.cmd.kind \in Mailbox!Writes /\ net.cmd.rev = run.rev
    BY <1>0, <2>1 DEF PolicyRun, Mailbox!Writes
  <2>3. CASE net.answer.ok \/ net.answer.conflict
    <3>1. PICK f, q, op :
            /\ op = IF net.answer.ok THEN "pconfirm" ELSE "pshow"
            /\ f = Mailbox!Latched(p, run.rev, net.answer.ok) /\ q = [run EXCEPT !.op = op]
            /\ Mailbox!Render(boxes, l, f, q)
            /\ acked' = IF net.answer.ok THEN run.rev ELSE acked
            /\ Mailbox!Send([kind |-> "boxes"])
      BY <1>6, <2>3 DEF Mailbox!PolicyPut, Mailbox!Got, Mailbox!Step, Mailbox!ReadBoxes
    <3>2. acked' \in Nat /\ acked' \in Int /\ acked' < box.rev /\ run.rev >= acked'
      BY <1>0, <2>1, <2>2, <3>1 DEF MailNet
    <3>3. PolicyKept(f, acked')
      BY <1>0, <2>2, <3>1, <3>2, PolicyLatched
    <3>4. net'.cmd.kind = "boxes" /\ MailNet(net', box.rev)
      BY <3>1, MailSent
    <3>5. RunOf(q, {"rev"}) /\ q.op = op /\ q.rev = run.rev
      BY <2>2, <3>1 DEF RunOf, Fields
    <3>6. PolicyRun(q, net', acked')
      BY <2>2, <3>1, <3>2, <3>4, <3>5 DEF PolicyRun
    <3>. QED BY <1>0, <1>1, <3>1, <3>2, <3>3, <3>4, <3>6, PolicyStepKept
  <2>4. CASE ~(net.answer.ok \/ net.answer.conflict)
    <3>1. Mailbox!Render(boxes, l, p, None) /\ net' = None /\ acked' = acked
      BY <1>6, <2>4 DEF Mailbox!PolicyPut, Mailbox!Got, Mailbox!Stop, Mailbox!Hang
    <3>. QED BY <1>0, <1>2, <3>1
  <2>. QED BY <2>3, <2>4
<1>. QED BY <1>3, <1>4, <1>5, <1>6

-----------------------------------------------------------------------------
(* The mailbox page as a whole.                                            *)

\* The forms when the page opens: filled from the list, with nothing acknowledged.
LEMMA MailOpened ==
  ASSUME NEW b, b.rev \in Revision, NEW d, d.rev \in Revision
  PROVE  /\ GrantForm(Mailbox!NoGrant(d), 0) /\ LifecycleForm(Mailbox!Untouched(b), 0)
         /\ PolicyKept(Mailbox!NoChoice(b), 0)
<1>1. PICK h : h = Mailbox!NoGrant(d)
  OBVIOUS
<1>2. GrantForm(h, 0)
  <2>1. /\ Fields(h, {"data", "draft", "base", "rev", "conflict", "saved", "error", "high"})
        /\ h.data = d /\ h.saved = None /\ h.high = d.rev /\ h.rev = None /\ h.conflict = None
    BY <1>1 DEF Mailbox!NoGrant, Fields
  <2>2. d.rev \in Int /\ d.rev > 0 /\ d.rev >= d.rev
    BY DEF Revision
  <2>. QED BY <2>1, <2>2 DEF GrantForm, Perhaps
<1>3. LifecycleForm(Mailbox!Untouched(b), 0)
  <2>1. PICK f : f = Mailbox!Untouched(b)
    OBVIOUS
  <2>2. /\ Fields(f, {"snap", "dirty", "next", "reason", "required", "reviewed", "ack", "high"})
        /\ f.snap = b /\ f.high = b.rev
    BY <2>1 DEF Mailbox!Untouched, Fields
  <2>3. b.rev \in Int /\ b.rev > 0
    BY DEF Revision
  <2>4. LifecycleForm(f, 0)
    BY <2>2, <2>3 DEF LifecycleForm
  <2>. QED BY <2>1, <2>4
<1>4. PolicyKept(Mailbox!NoChoice(b), 0)
  <2>1. PICK f : f = Mailbox!NoChoice(b)
    OBVIOUS
  <2>2. /\ Fields(f, {"choice", "rev", "required", "reviewed", "high"})
        /\ f.rev = b.rev /\ f.high = b.rev /\ f.required = None /\ f.reviewed = None
    BY <2>1 DEF Mailbox!NoChoice, Fields
  <2>3. b.rev \in Int /\ b.rev > 0
    BY DEF Revision
  <2>4. PolicyKept(f, 0)
    BY <2>2, <2>3 DEF PolicyKept
  <2>. QED BY <2>1, <2>4
<1>. QED BY <1>1, <1>2, <1>3, <1>4

\* Leaving the page and coming back.
LEMMA RemountStep == ASSUME MailboxOK, Mailbox!Remount PROVE MailboxOK'
<1>0. MailRow /\ form \in Mailbox!Forms /\ boxes.rev \in Revision /\ box.rev \in Revision
  BY DEF MailboxOK, MailRow, BoxRow
<1>1. /\ form' = form /\ box' = box /\ boxes' = boxes /\ acked' = 0 /\ net' = None /\ run' = None
      /\ g' = Mailbox!NoGrant(g.data) /\ l' = Mailbox!Untouched(boxes) /\ p' = Mailbox!NoChoice(boxes)
  BY DEF Mailbox!Remount, Mailbox!server
<1>2. MailRow'
  BY <1>0, <1>1 DEF MailRow, MailNet, BoxRow, Revision
<1>3. form = "grant" => GrantForm(g', 0) /\ GrantRun(run', g', net', 0)
  <2>1. form = "grant" => g.data.rev \in Revision
    BY DEF MailboxOK, GrantForm, Revision
  <2>. QED BY <1>0, <1>1, <2>1, MailOpened DEF GrantRun
<1>4. LifecycleForm(l', 0) /\ LifecycleRun(run', net', 0)
  BY <1>0, <1>1, MailOpened DEF LifecycleRun
<1>5. PolicyKept(p', 0) /\ PolicyRun(run', net', 0)
  BY <1>0, <1>1, MailOpened DEF PolicyRun
<1>. QED BY <1>0, <1>1, <1>2, <1>3, <1>4, <1>5 DEF MailboxOK

\* Every step of the mailbox page keeps its invariant.
LEMMA MailboxStep == ASSUME MailboxOK, Mailbox!Next PROVE MailboxOK'
<1>1. CASE Mailbox!Serve \/ Mailbox!Lose \/ Mailbox!ServeStray \/ Mailbox!Rival
  <2>1. MailRow' /\ UNCHANGED <<form, g, l, p, run, acked>> /\ net'.cmd = net.cmd
    BY <1>1, MailServer DEF MailboxOK
  <2>2. GrantRun(run, g, net, acked) => GrantRun(run, g, net', acked)
    BY <2>1 DEF GrantRun
  <2>3. LifecycleRun(run, net, acked) => LifecycleRun(run, net', acked)
    BY <2>1 DEF LifecycleRun
  <2>4. PolicyRun(run, net, acked) => PolicyRun(run, net', acked)
    BY <2>1 DEF PolicyRun
  <2>. QED BY <2>1, <2>2, <2>3, <2>4 DEF MailboxOK
<1>2. CASE Mailbox!Remount
  BY <1>2, RemountStep
<1>3. CASE Mailbox!Revalidate
  BY <1>3, GrantRefreshed, LifecycleAnswerStep, PolicyAnswerStep DEF MailboxOK, Mailbox!Forms
<1>4. CASE Mailbox!User /\ ~Mailbox!Remount
  BY <1>4, GrantUserStep, LifecycleUserStep, PolicyUserStep DEF Mailbox!User
<1>5. CASE Mailbox!Answers
  <2>1. CASE \/ Mailbox!GrantsRead \/ Mailbox!GrantsReviewed \/ Mailbox!GrantPut
             \/ Mailbox!GrantReadBack \/ Mailbox!GrantShown
    <3>1. run # None /\ run.op \in {"gread", "grefresh", "gput", "gback", "gshown"}
      BY <2>1 DEF Mailbox!GrantsRead, Mailbox!GrantsReviewed, Mailbox!GrantPut,
         Mailbox!GrantReadBack, Mailbox!GrantShown, Mailbox!Doing
    <3>2. form # "lifecycle" /\ form # "policy"
      BY <3>1 DEF MailboxOK, LifecycleRun, PolicyRun
    <3>. QED BY <2>1, <3>2, GrantAnswerStep DEF MailboxOK, Mailbox!Forms
  <2>2. CASE Mailbox!Reloaded \/ Mailbox!Submitted \/ Mailbox!LifecycleShown
    <3>1. run # None /\ run.op \in {"lread", "lpost", "lrefresh"}
      BY <2>2 DEF Mailbox!Reloaded, Mailbox!Submitted, Mailbox!LifecycleShown, Mailbox!Doing
    <3>2. form # "grant" /\ form # "policy"
      BY <3>1 DEF MailboxOK, GrantRun, PolicyRun
    <3>. QED BY <2>2, <3>2, LifecycleAnswerStep DEF MailboxOK, Mailbox!Forms
  <2>3. CASE Mailbox!Reviewed \/ Mailbox!PolicyPut \/ Mailbox!PolicyShown
    <3>1. run # None /\ run.op \in {"pread", "pput", "pconfirm", "pshow"}
      BY <2>3 DEF Mailbox!Reviewed, Mailbox!PolicyPut, Mailbox!PolicyShown, Mailbox!Doing
    <3>2. form # "grant" /\ form # "lifecycle"
      BY <3>1 DEF MailboxOK, GrantRun, LifecycleRun
    <3>. QED BY <2>3, <3>2, PolicyAnswerStep DEF MailboxOK, Mailbox!Forms
  <2>. QED BY <1>5, <2>1, <2>2, <2>3 DEF Mailbox!Answers
<1>. QED BY <1>1, <1>2, <1>3, <1>4, <1>5 DEF Mailbox!Next

\* The mailbox page when it opens.
LEMMA MailboxStart == ASSUME Mailbox!Init PROVE MailboxOK
<1>1. /\ form \in Mailbox!Forms /\ acked = 0 /\ run = None /\ net = None
      /\ boxes = Mailbox!Snapshot /\ g = Mailbox!NoGrant(Mailbox!GrantSnapshot)
      /\ l = Mailbox!Untouched(boxes) /\ p = Mailbox!NoChoice(boxes)
      /\ \E k, o : box = [rev |-> 1, kind |-> k, owner |-> o, policy |-> "", grant |-> {}]
  <2>1. PICK k \in {"personal", "legacy"} :
          box = [rev |-> 1, kind |-> k, owner |-> IF k = "personal" THEN "owner" ELSE "",
                 policy |-> "", grant |-> {}]
    BY DEF Mailbox!Init
  <2>. QED BY <2>1 DEF Mailbox!Init, Mailbox!Quiet
<1>2. BoxRow(box) /\ box.rev = 1
  <2>1. PICK k, o : box = [rev |-> 1, kind |-> k, owner |-> o, policy |-> "", grant |-> {}]
    BY <1>1
  <2>2. Fields(box, {"rev", "kind", "owner", "policy", "grant"}) /\ box.rev = 1
    BY <2>1 DEF Fields
  <2>. QED BY <2>2 DEF BoxRow, Revision
<1>3. Mailbox!Snapshot.rev = 1 /\ Mailbox!GrantSnapshot.rev = 1 /\ 1 \in Revision
  BY <1>2, SnapshotRev DEF Revision
<1>4. MailRow
  <2>1. boxes.rev \in Revision
    BY <1>1, <1>3
  <2>2. acked \in Nat /\ acked < box.rev
    <3>1. acked = 0
      BY <1>1
    <3>2. box.rev = 1
      BY <1>2
    <3>. QED BY <3>1, <3>2
  <2>3. MailNet(net, box.rev)
    BY <1>1 DEF MailNet
  <2>. QED BY <1>2, <2>1, <2>2, <2>3 DEF MailRow
<1>5. GrantForm(g, 0) /\ LifecycleForm(l, 0) /\ PolicyKept(p, 0)
  BY <1>1, <1>3, MailOpened
<1>. QED BY <1>1, <1>4, <1>5 DEF MailboxOK, GrantRun, LifecycleRun, PolicyRun

-----------------------------------------------------------------------------
(* What the mailbox page's forms were filled from.                         *)

\* The list showed d, or the grant editor read it, when the row is b: it is no
\* newer, and what the row holds unless it is older.
PastBox(d, b) ==
  d.rev \in Int /\ d.rev <= b.rev
  /\ (d.rev = b.rev => d.kind = b.kind /\ d.owner = b.owner /\ d.override = b.policy)
PastGrant(d, b) == d.rev \in Int /\ d.rev <= b.rev /\ (d.rev = b.rev => d.right = b.grant)

\* A write replaces what its form showed, if the row is still at its revision.
Replaces(m, b) ==
  CASE m.kind = "grant" -> b.grant = m.seen
    [] m.kind = "policy" -> b.policy = m.seen.override
    [] OTHER -> b.owner = m.seen.owner /\ b.kind = m.seen.kind
BoxCmd(m, b) ==
  m.kind \in Mailbox!Writes => m.rev \in Int /\ m.rev <= b.rev /\ (m.rev = b.rev => Replaces(m, b))
BoxNet(n, b) ==
  n # None =>
    /\ BoxCmd(n.cmd, b)
    /\ n.answer # None /\ n.answer.ok => /\ n.cmd.kind = "boxes" => PastBox(n.answer.data, b)
                                         /\ n.cmd.kind = "grants" => PastGrant(n.answer.data, b)

GrantSeen(f, b) ==
  /\ PastGrant(f.data, b)
  /\ f.rev # None => f.rev <= b.rev /\ (f.rev = b.rev => f.base = b.grant)
LifecycleSeen(f, b) == PastBox(f.snap, b) /\ f.high <= b.rev
LifecycleReads(r, b) ==
  r # None => /\ r.op = "lread" => r.minimum <= b.rev
              /\ r.op = "lpost" => PastBox(r.basis, b)
PolicySeen(f, b) ==
  /\ f.rev <= b.rev /\ f.high <= b.rev
  /\ f.reviewed # None => PastBox(f.reviewed.value, b)
  /\ f.required # None => f.required.minimum <= b.rev /\ f.required.newer < b.rev

BoxSeenOK ==
  /\ PastBox(boxes, box) /\ BoxNet(net, box) /\ \A m \in stray : BoxCmd(m, box)
  /\ form = "grant" => GrantSeen(g, box)
  /\ form = "lifecycle" => LifecycleSeen(l, box) /\ LifecycleReads(run, box)
  /\ form = "policy" => PolicySeen(p, box)

\* A write makes the next revision: what the forms hold stays what was shown.
LEMMA BoxStays ==
  ASSUME NEW b, b.rev \in Int, NEW t, t = b \/ t.rev = b.rev + 1
  PROVE  /\ \A d : PastBox(d, b) => PastBox(d, t)
         /\ \A m : BoxCmd(m, b) => BoxCmd(m, t)
         /\ \A n : BoxNet(n, b) => BoxNet(n, t)
         /\ \A f, k : GrantForm(f, k) /\ GrantSeen(f, b) => GrantSeen(f, t)
         /\ \A f, k : LifecycleForm(f, k) /\ LifecycleSeen(f, b) => LifecycleSeen(f, t)
         /\ \A r, n, k : LifecycleRun(r, n, k) /\ LifecycleReads(r, b) => LifecycleReads(r, t)
         /\ \A f, k : PolicyKept(f, k) /\ PolicySeen(f, b) => PolicySeen(f, t)
<1>1. CASE t = b
  BY <1>1
<1>2. CASE t.rev = b.rev + 1
  <2>0. \A i \in Int : i <= b.rev => i <= t.rev /\ i # t.rev /\ i < t.rev
    BY <1>2
  <2>1. ASSUME NEW d, PastBox(d, b) PROVE PastBox(d, t)
    BY <2>0, <2>1 DEF PastBox
  <2>2. ASSUME NEW d, PastGrant(d, b) PROVE PastGrant(d, t)
    BY <2>0, <2>2 DEF PastGrant
  <2>3. ASSUME NEW m, BoxCmd(m, b) PROVE BoxCmd(m, t)
    BY <2>0, <2>3 DEF BoxCmd
  <2>4. ASSUME NEW n, BoxNet(n, b) PROVE BoxNet(n, t)
    BY <2>1, <2>2, <2>3, <2>4 DEF BoxNet
  <2>5. ASSUME NEW f, NEW k, GrantForm(f, k), GrantSeen(f, b) PROVE GrantSeen(f, t)
    <3>1. f.rev # None => f.rev \in Int
      BY <2>5 DEF GrantForm, Perhaps
    <3>2. f.rev # None => f.rev <= b.rev
      BY <2>5 DEF GrantSeen
    <3>3. f.rev # None => f.rev <= t.rev /\ f.rev # t.rev
      BY <2>0, <3>1, <3>2
    <3>. QED BY <2>2, <2>5, <3>3 DEF GrantSeen
  <2>6. ASSUME NEW f, NEW k, LifecycleForm(f, k), LifecycleSeen(f, b) PROVE LifecycleSeen(f, t)
    BY <2>0, <2>1, <2>6 DEF LifecycleForm, LifecycleSeen
  <2>7. ASSUME NEW r, NEW n, NEW k, LifecycleRun(r, n, k), LifecycleReads(r, b)
        PROVE  LifecycleReads(r, t)
    BY <2>0, <2>1, <2>7 DEF LifecycleRun, LifecycleReads
  <2>8. ASSUME NEW f, NEW k, PolicyKept(f, k), PolicySeen(f, b) PROVE PolicySeen(f, t)
    <3>1. f.rev <= t.rev /\ f.high <= t.rev
      BY <2>0, <2>8 DEF PolicyKept, PolicySeen
    <3>2. f.required # None => f.required.minimum <= t.rev /\ f.required.newer < t.rev
      <4>1. f.required # None => /\ f.required.minimum \in Int /\ f.required.newer \in Int
                                 /\ f.required.minimum <= b.rev /\ f.required.newer < b.rev
        BY <2>8 DEF PolicyKept, PolicySeen, Floor
      <4>. QED BY <1>2, <4>1
    <3>. QED BY <2>1, <2>8, <3>1, <3>2 DEF PolicySeen
  <2>. QED BY <2>1, <2>3, <2>4, <2>5, <2>6, <2>7, <2>8
<1>. QED BY <1>1, <1>2

\* What the server shows is what the row holds.
LEMMA BoxShown ==
  ASSUME BoxRow(box)
  PROVE  /\ PastBox(Mailbox!Snapshot, box) /\ PastGrant(Mailbox!GrantSnapshot, box)
<1>1. box.rev \in Int
  BY DEF BoxRow, Revision
<1>2. PICK d, e : d = Mailbox!Snapshot /\ e = Mailbox!GrantSnapshot
  OBVIOUS
<1>3. /\ d.rev = box.rev /\ d.kind = box.kind /\ d.owner = box.owner /\ d.override = box.policy
      /\ e.rev = box.rev /\ e.right = box.grant
  BY <1>2 DEF Mailbox!Snapshot, Mailbox!GrantSnapshot, Mailbox!Seen
<1>. QED BY <1>1, <1>2, <1>3 DEF PastBox, PastGrant

\* The server's steps keep what the forms hold to what was shown.
LEMMA BoxServer ==
  ASSUME MailboxOK, BoxSeenOK,
         Mailbox!Serve \/ Mailbox!Lose \/ Mailbox!ServeStray \/ Mailbox!Rival
  PROVE  BoxSeenOK'
<1>0. /\ MailRow /\ BoxRow(box) /\ box.rev \in Int
      /\ PastBox(boxes, box) /\ BoxNet(net, box) /\ \A m \in stray : BoxCmd(m, box)
  BY DEF MailboxOK, MailRow, BoxRow, Revision, BoxSeenOK
<1>1. UNCHANGED <<boxes, form, g, l, p, run, acked>>
  BY <1>0, MailServer
<1>2. ASSUME NEW m, Mailbox!Accept(m)
      PROVE  box'.rev = box.rev + 1 /\ m.kind \in Mailbox!Writes
  BY <1>0, <1>2, Accepted
<1>3. box' = box \/ box'.rev = box.rev + 1
  BY <1>2 DEF Mailbox!Serve, Mailbox!Lose, Mailbox!ServeStray, Mailbox!Rival, Mailbox!server
<1>4. /\ PastBox(boxes, box') /\ BoxNet(net, box')
      /\ \A m : BoxCmd(m, box) => BoxCmd(m, box')
      /\ form = "grant" => GrantSeen(g, box')
      /\ form = "lifecycle" => LifecycleSeen(l, box') /\ LifecycleReads(run, box')
      /\ form = "policy" => PolicySeen(p, box')
  BY <1>0, <1>3, BoxStays DEF MailboxOK, BoxSeenOK
<1>5. ASSUME BoxNet(net', box'), stray' \subseteq stray \cup {net.cmd},
             stray' \subseteq stray \/ net # None
      PROVE  BoxSeenOK'
  <2>1. \A m \in stray' : BoxCmd(m, box)
    BY <1>0, <1>5 DEF BoxNet
  <2>. QED BY <1>1, <1>4, <1>5, <2>1 DEF BoxSeenOK
<1>6. ASSUME net # None, NEW a, net' = [net EXCEPT !.answer = a],
             \/ ~a.ok
             \/ net.cmd.kind = "boxes" /\ PastBox(a.data, box')
             \/ net.cmd.kind = "grants" /\ PastGrant(a.data, box')
             \/ net.cmd.kind \in Mailbox!Writes
      PROVE  BoxNet(net', box')
  <2>1. net'.cmd = net.cmd /\ net'.answer = a
    BY <1>0, <1>6 DEF MailRow, MailNet, Packet
  <2>. QED BY <1>4, <1>6, <2>1 DEF BoxNet, Mailbox!Writes
<1>7. ASSUME NEW a, a \in {Mailbox!No, Mailbox!Conflict, Mailbox!Garbled}
      PROVE  ~a.ok
  BY <1>7 DEF Mailbox!No, Mailbox!Conflict, Mailbox!Garbled
<1>8. CASE Mailbox!Serve
  <2>0. net # None /\ stray' = stray
    BY <1>8 DEF Mailbox!Serve, Mailbox!Unanswered
  <2>1. CASE net.cmd.kind = "boxes" /\ Mailbox!Reply(Mailbox!Yes(Mailbox!Snapshot)) /\ box' = box
    <3>1. PICK a : a = Mailbox!Yes(Mailbox!Snapshot)
      OBVIOUS
    <3>2. a.data = Mailbox!Snapshot /\ net' = [net EXCEPT !.answer = a]
      BY <2>1, <3>1 DEF Mailbox!Yes, Mailbox!Reply
    <3>3. PastBox(a.data, box')
      BY <1>0, <2>1, <3>2, BoxShown
    <3>. QED BY <1>5, <1>6, <2>0, <2>1, <3>2, <3>3
  <2>2. CASE net.cmd.kind = "grants" /\ Mailbox!Reply(Mailbox!Yes(Mailbox!GrantSnapshot)) /\ box' = box
    <3>1. PICK a : a = Mailbox!Yes(Mailbox!GrantSnapshot)
      OBVIOUS
    <3>2. a.data = Mailbox!GrantSnapshot /\ net' = [net EXCEPT !.answer = a]
      BY <2>2, <3>1 DEF Mailbox!Yes, Mailbox!Reply
    <3>3. PastGrant(a.data, box')
      BY <1>0, <2>2, <3>2, BoxShown
    <3>. QED BY <1>5, <1>6, <2>0, <2>2, <3>2, <3>3
  <2>3. CASE net.cmd.kind \in Mailbox!Writes /\ \E a : Mailbox!Reply(a)
    BY <1>5, <1>6, <2>0, <2>3 DEF Mailbox!Reply
  <2>. QED BY <1>8, <2>1, <2>2, <2>3 DEF Mailbox!Serve, Mailbox!server, Mailbox!Writes
<1>9. CASE Mailbox!Lose
  <2>1. /\ net # None /\ \E a \in {Mailbox!No, Mailbox!Conflict, Mailbox!Garbled} : Mailbox!Reply(a)
        /\ stray' = stray \/ stray' = stray \cup {net.cmd}
    BY <1>9 DEF Mailbox!Lose, Mailbox!Unanswered
  <2>2. BoxNet(net', box')
    BY <1>6, <1>7, <2>1 DEF Mailbox!Reply
  <2>. QED BY <1>5, <2>1, <2>2
<1>10. CASE Mailbox!ServeStray \/ Mailbox!Rival
  <2>1. net' = net /\ stray' \subseteq stray
    BY <1>10 DEF Mailbox!ServeStray, Mailbox!Rival
  <2>. QED BY <1>4, <1>5, <2>1
<1>. QED BY <1>8, <1>9, <1>10

\* A request of the page is a read, or carries what its form showed.
LEMMA BoxSent ==
  ASSUME NEW m, Mailbox!Send(m), NEW b, m.kind \notin Mailbox!Writes \/ BoxCmd(m, b)
  PROVE  BoxNet(net', b)
BY DEF Mailbox!Send, BoxNet, BoxCmd

\* A step of the page at the grant editor.
LEMMA GrantSeenKept ==
  ASSUME BoxSeenOK, form = "grant", form' = form, box' = box, stray' = stray,
         PastBox(boxes', box), BoxNet(net', box), PastGrant(g'.data, box),
         \/ g'.rev = None
         \/ g'.rev = g.rev /\ g'.base = g.base
         \/ g'.rev = g'.data.rev /\ g'.base = g'.data.right
  PROVE  BoxSeenOK'
<1>1. GrantSeen(g', box)
  BY DEF BoxSeenOK, GrantSeen, PastGrant
<1>. QED BY <1>1 DEF BoxSeenOK

\* The grant editor works on what was shown.
LEMMA GrantSeenStep ==
  ASSUME MailboxOK, BoxSeenOK, form = "grant",
         \/ Mailbox!selectMember \/ Mailbox!checkRight \/ Mailbox!reloadGrants
         \/ Mailbox!saveGrant \/ Mailbox!GrantsRead \/ Mailbox!GrantsReviewed
         \/ Mailbox!GrantPut \/ Mailbox!GrantReadBack \/ Mailbox!GrantShown \/ Mailbox!Revalidate
  PROVE  BoxSeenOK'
<1>0. /\ MailRow /\ BoxRow(box) /\ GrantForm(g, acked) /\ GrantRun(run, g, net, acked)
      /\ PastBox(boxes, box) /\ BoxNet(net, box) /\ GrantSeen(g, box) /\ PastGrant(g.data, box)
      /\ Fields(g, {"data", "draft", "base", "rev", "conflict", "saved", "error", "high"})
  BY DEF MailboxOK, MailRow, BoxSeenOK, GrantSeen, GrantForm
<1>1. form' = form /\ box' = box /\ stray' = stray
  BY DEF Mailbox!selectMember, Mailbox!checkRight, Mailbox!reloadGrants, Mailbox!saveGrant,
     Mailbox!GrantsRead, Mailbox!GrantsReviewed, Mailbox!GrantPut, Mailbox!GrantReadBack,
     Mailbox!GrantShown, Mailbox!Revalidate, Mailbox!KeepG, Mailbox!Away, Mailbox!server
<1>2. CASE Mailbox!selectMember
  <2>1. PICK x, y, v : /\ g' = [g EXCEPT !.draft = x, !.base = y, !.rev = v]
                       /\ y = g.data.right /\ v \in {g.data.rev, None}
                       /\ net' = net /\ boxes' = boxes
    BY <1>2 DEF Mailbox!selectMember, Mailbox!KeepG
  <2>2. g'.data = g.data /\ g'.base = y /\ g'.rev = v
    BY <1>0, <2>1 DEF Fields
  <2>. QED BY <1>0, <1>1, <2>1, <2>2, GrantSeenKept
<1>3. CASE Mailbox!checkRight
  <2>1. PICK x : g' = [g EXCEPT !.draft = x] /\ net' = net /\ boxes' = boxes
    BY <1>3 DEF Mailbox!checkRight, Mailbox!KeepG
  <2>2. g'.data = g.data /\ g'.base = g.base /\ g'.rev = g.rev
    BY <1>0, <2>1 DEF Fields
  <2>. QED BY <1>0, <1>1, <2>1, <2>2, GrantSeenKept
<1>4. CASE Mailbox!reloadGrants
  <2>1. PICK m : /\ m = [kind |-> "grants"] /\ Mailbox!Send(m)
                 /\ g' = [g EXCEPT !.error = FALSE] /\ boxes' = boxes
    BY <1>4 DEF Mailbox!reloadGrants, Mailbox!ReadGrants, Mailbox!KeepG
  <2>2. g'.data = g.data /\ g'.base = g.base /\ g'.rev = g.rev
    BY <1>0, <2>1 DEF Fields
  <2>3. m.kind \notin Mailbox!Writes
    BY <2>1 DEF Mailbox!Writes
  <2>4. BoxNet(net', box)
    BY <2>1, <2>3, BoxSent
  <2>. QED BY <1>0, <1>1, <2>1, <2>2, <2>4, GrantSeenKept
<1>5. CASE Mailbox!saveGrant
  <2>1. PICK m : /\ m = [kind |-> "grant", rev |-> g.rev, right |-> g.draft, seen |-> g.base]
                 /\ Mailbox!Send(m) /\ g.rev # None /\ g' = g /\ boxes' = boxes
    BY <1>5 DEF Mailbox!saveGrant
  <2>2. m.kind = "grant" /\ m.rev = g.rev /\ m.seen = g.base
    BY <2>1
  <2>3. g.rev \in Int /\ g.rev <= box.rev /\ (g.rev = box.rev => g.base = box.grant)
    BY <1>0, <2>1 DEF GrantForm, GrantSeen, Perhaps
  <2>4. BoxCmd(m, box)
    BY <2>2, <2>3 DEF BoxCmd, Replaces
  <2>5. BoxNet(net', box)
    BY <2>1, <2>4, BoxSent
  <2>. QED BY <1>0, <1>1, <2>1, <2>5, GrantSeenKept
<1>6. CASE Mailbox!GrantsRead \/ Mailbox!GrantReadBack
  <2>1. /\ run # None /\ net # None /\ net.answer # None /\ boxes' = boxes
        /\ run.op \in {"gread", "gback"}
        /\ \/ /\ net.answer.ok /\ g' = Mailbox!Adopt(g, net.answer)
              /\ Mailbox!Send([kind |-> "boxes"])
           \/ g' = [g EXCEPT !.error = TRUE] /\ net' = None
    BY <1>6
    DEF Mailbox!GrantsRead, Mailbox!GrantReadBack, Mailbox!KeepG, Mailbox!Doing,
        Mailbox!Answered, Mailbox!Got, Mailbox!ReadBoxes, Mailbox!Hang, Mailbox!confirmed
  <2>2. net.cmd.kind = "grants"
    BY <1>0, <2>1 DEF GrantRun
  <2>3. CASE net.answer.ok /\ g' = Mailbox!Adopt(g, net.answer) /\ Mailbox!Send([kind |-> "boxes"])
    <3>1. PICK d, n : d = net.answer.data /\ g' = [g EXCEPT !.data = d, !.high = n]
      BY <2>3 DEF Mailbox!Adopt
    <3>2. g'.data = d /\ g'.base = g.base /\ g'.rev = g.rev
      BY <1>0, <3>1 DEF Fields
    <3>3. PastGrant(d, box)
      BY <1>0, <2>1, <2>2, <2>3, <3>1 DEF BoxNet
    <3>4. PICK m : m = [kind |-> "boxes"]
      OBVIOUS
    <3>5. m.kind \notin Mailbox!Writes /\ Mailbox!Send(m)
      BY <2>3, <3>4 DEF Mailbox!Writes
    <3>6. BoxNet(net', box)
      BY <3>5, BoxSent
    <3>. QED BY <1>0, <1>1, <2>1, <3>2, <3>3, <3>6, GrantSeenKept
  <2>4. CASE g' = [g EXCEPT !.error = TRUE] /\ net' = None
    <3>1. g'.data = g.data /\ g'.base = g.base /\ g'.rev = g.rev /\ BoxNet(net', box)
      BY <1>0, <2>4 DEF Fields, BoxNet
    <3>. QED BY <1>0, <1>1, <2>1, <3>1, GrantSeenKept
  <2>. QED BY <2>1, <2>3, <2>4
<1>7. CASE Mailbox!GrantsReviewed \/ Mailbox!GrantShown
  <2>1. /\ run # None /\ net # None /\ net.answer # None /\ run.op \in {"grefresh", "gshown"}
        /\ net' = None /\ boxes' = Mailbox!Fresh
        /\ \/ \E e : g' = [Mailbox!Released(g) EXCEPT !.error = e]
           \/ \E e : g' = [g EXCEPT !.saved = None, !.error = e]
    BY <1>7
    DEF Mailbox!GrantsReviewed, Mailbox!GrantShown, Mailbox!Doing, Mailbox!Answered,
        Mailbox!Hang, Mailbox!Render
  <2>2. net.cmd.kind = "boxes"
    BY <1>0, <2>1 DEF GrantRun
  <2>3. PastBox(boxes', box) /\ BoxNet(net', box)
    BY <1>0, <2>1, <2>2 DEF Mailbox!Fresh, Mailbox!Got, BoxNet
  <2>4. g'.data = g.data /\ (g'.rev = None \/ (g'.rev = g.rev /\ g'.base = g.base))
    <3>1. CASE \E e : g' = [Mailbox!Released(g) EXCEPT !.error = e]
      BY <3>1 DEF Mailbox!Released, Mailbox!NoGrant
    <3>2. CASE \E e : g' = [g EXCEPT !.saved = None, !.error = e]
      BY <1>0, <3>2 DEF Fields
    <3>. QED BY <2>1, <3>1, <3>2
  <2>. QED BY <1>0, <1>1, <2>3, <2>4, GrantSeenKept
<1>8. CASE Mailbox!GrantPut
  <2>1. /\ boxes' = boxes
        /\ \/ /\ \E x, y : \E v \in {None, g.rev} : g' = [g EXCEPT !.saved = x, !.draft = y, !.rev = v]
              /\ Mailbox!Send([kind |-> "grants"])
           \/ /\ \E x, y : g' = [g EXCEPT !.conflict = x, !.error = y]
              /\ net' = None
    <3>1. CASE net.answer.ok
      <4>. DEFINE x == Mailbox!Max2(run.rev + 1, g.high)
                  y == IF run.mine THEN None ELSE g.draft
                  v == IF run.mine THEN None ELSE g.rev
      <4>1. g' = [g EXCEPT !.saved = x, !.draft = y, !.rev = v] /\ v \in {None, g.rev}
        BY <1>8, <3>1 DEF Mailbox!GrantPut, Mailbox!Got
      <4>2. boxes' = boxes /\ Mailbox!Send([kind |-> "grants"])
        BY <1>8, <3>1 DEF Mailbox!GrantPut, Mailbox!Got, Mailbox!ReadGrants
      <4>. HIDE DEF x, y, v
      <4>. QED BY <4>1, <4>2
    <3>2. CASE ~net.answer.ok
      BY <1>8, <3>2 DEF Mailbox!GrantPut, Mailbox!Got, Mailbox!Hang
    <3>. QED BY <3>1, <3>2
  <2>2. g'.data = g.data /\ (g'.rev = None \/ (g'.rev = g.rev /\ g'.base = g.base))
    <3>1. CASE \E x, y : \E v \in {None, g.rev} : g' = [g EXCEPT !.saved = x, !.draft = y, !.rev = v]
      <4>1. PICK x, y, v : v \in {None, g.rev} /\ g' = [g EXCEPT !.saved = x, !.draft = y, !.rev = v]
        BY <3>1
      <4>. QED BY <1>0, <4>1 DEF Fields
    <3>2. CASE \E x, y : g' = [g EXCEPT !.conflict = x, !.error = y]
      BY <1>0, <3>2 DEF Fields
    <3>. QED BY <2>1, <3>1, <3>2
  <2>3. BoxNet(net', box)
    <3>1. CASE net' = None
      BY <3>1 DEF BoxNet
    <3>2. CASE Mailbox!Send([kind |-> "grants"])
      <4>1. PICK m : m = [kind |-> "grants"]
        OBVIOUS
      <4>2. m.kind \notin Mailbox!Writes /\ Mailbox!Send(m)
        BY <3>2, <4>1 DEF Mailbox!Writes
      <4>. QED BY <4>2, BoxSent
    <3>. QED BY <2>1, <3>1, <3>2
  <2>. QED BY <1>0, <1>1, <2>1, <2>2, <2>3, GrantSeenKept
<1>9. CASE Mailbox!Revalidate
  <2>1. PICK d, n : /\ d = Mailbox!GrantSnapshot /\ g' = [g EXCEPT !.data = d, !.high = n]
                    /\ boxes' = boxes /\ net' = net
    BY <1>9 DEF Mailbox!Revalidate
  <2>2. g'.data = d /\ g'.base = g.base /\ g'.rev = g.rev
    BY <1>0, <2>1 DEF Fields
  <2>3. PastGrant(d, box)
    BY <1>0, <2>1, BoxShown
  <2>. QED BY <1>0, <1>1, <2>1, <2>2, <2>3, GrantSeenKept
<1>. QED BY <1>2, <1>3, <1>4, <1>5, <1>6, <1>7, <1>8, <1>9

\* Edits and rereads mark a running action and leave what it reads or sent.
LEMMA LifecycleReadsMarked ==
  ASSUME NEW r, r # None, NEW n, NEW k, LifecycleRun(r, n, k), NEW b, LifecycleReads(r, b), NEW q,
         \E x : q = [r EXCEPT !.mine = x] \/ q = [r EXCEPT !.steady = x]
  PROVE  LifecycleReads(q, b)
<1>1. CASE r.op = "lread"
  <2>1. RunOf(r, {"minimum"})
    BY <1>1 DEF LifecycleRun
  <2>2. q.minimum = r.minimum /\ q.op = r.op
    BY <2>1 DEF RunOf, Fields
  <2>. QED BY <1>1, <2>2 DEF LifecycleReads
<1>2. CASE r.op # "lread"
  <2>1. RunOf(r, {"basis"})
    BY <1>2 DEF LifecycleRun
  <2>2. q.basis = r.basis /\ q.op = r.op
    BY <2>1 DEF RunOf, Fields
  <2>. QED BY <1>2, <2>2 DEF LifecycleReads
<1>. QED BY <1>1, <1>2

\* A step of the lifecycle editor that ends in a render.
LEMMA LifecycleSeenKept ==
  ASSUME BoxSeenOK, BoxRow(box), form = "lifecycle", form' = form, box' = box, stray' = stray,
         NEW b, b.rev \in Int, PastBox(b, box), BoxNet(net', box),
         NEW f, NEW k \in Int, LifecycleForm(f, k), LifecycleSeen(f, box),
         NEW r, NEW n, LifecycleRun(r, n, k), LifecycleReads(r, box),
         NEW fp, Mailbox!Render(b, f, fp, r)
  PROVE  BoxSeenOK'
<1>1. /\ boxes' = b /\ l' = Mailbox!Lifecycle(f, b)
      /\ run' = r \/ (r # None /\ run' = [r EXCEPT !.steady = FALSE])
  BY DEF Mailbox!Render
<1>2. LifecycleReads(run', box)
  BY <1>1, LifecycleReadsMarked
<1>3. LifecycleSeen(l', box)
  <2>. DEFINE m == Mailbox!Max2(f.high, b.rev)
              h == [f EXCEPT !.high = m]
              v == [h EXCEPT !.required = h.required \/ (h.dirty /\ Mailbox!lstale(h, b))]
  <2>1. f.high \in Int /\ f.high <= box.rev /\ b.rev <= box.rev /\ PastBox(f.snap, box)
    BY DEF LifecycleForm, LifecycleSeen, PastBox
  <2>2. m <= box.rev
    BY <2>1 DEF Mailbox!Max2
  <2>3. l' = v
    BY <1>1 DEF Mailbox!Lifecycle
  <2>. HIDE DEF m
  <2>4. v.snap = f.snap /\ v.high = m
    BY DEF LifecycleForm, Fields
  <2>. HIDE DEF v
  <2>. QED BY <2>1, <2>2, <2>3, <2>4 DEF LifecycleSeen
<1>. QED BY <1>1, <1>2, <1>3 DEF BoxSeenOK

\* The user at the lifecycle editor works on what was shown.
LEMMA LifecycleSeenUser ==
  ASSUME MailboxOK, BoxSeenOK, form = "lifecycle",
         Mailbox!editLifecycle \/ Mailbox!acknowledge \/ Mailbox!reload \/ Mailbox!submit
  PROVE  BoxSeenOK'
<1>0. /\ MailRow /\ BoxRow(box) /\ LifecycleForm(l, acked) /\ LifecycleRun(run, net, acked)
      /\ boxes.rev \in Int /\ acked \in Int
      /\ PastBox(boxes, box) /\ BoxNet(net, box) /\ LifecycleSeen(l, box) /\ LifecycleReads(run, box)
      /\ Fields(l, {"snap", "dirty", "next", "reason", "required", "reviewed", "ack", "high"})
  BY DEF MailboxOK, MailRow, BoxSeenOK, LifecycleForm, PastBox
<1>1. form' = form /\ box' = box /\ stray' = stray
  BY DEF Mailbox!editLifecycle, Mailbox!acknowledge, Mailbox!reload, Mailbox!submit,
     Mailbox!KeepL, Mailbox!Away, Mailbox!server
<1>2. CASE Mailbox!editLifecycle
  <2>1. PICK h : h = Mailbox!Pinned(l)
    OBVIOUS
  <2>2. /\ Fields(h, {"snap", "dirty", "next", "reason", "required", "reviewed", "ack", "high"})
        /\ h.snap \in {l.snap, boxes} /\ h.high = l.high
    BY <1>0, <2>1 DEF Mailbox!Pinned, Fields
  <2>3. PICK f : /\ \E x : f = [h EXCEPT !.next = x] \/ f = [h EXCEPT !.reason = x]
                 /\ Mailbox!Render(boxes, f, p, Mailbox!Edited) /\ net' = net
    BY <1>2, <2>1 DEF Mailbox!editLifecycle
  <2>4. /\ Fields(f, {"snap", "dirty", "next", "reason", "required", "reviewed", "ack", "high"})
        /\ f.snap \in {l.snap, boxes} /\ f.high = l.high
    BY <2>2, <2>3 DEF Fields
  <2>5. LifecycleForm(f, acked) /\ LifecycleSeen(f, box)
    BY <1>0, <2>4 DEF LifecycleForm, LifecycleSeen
  <2>6. LifecycleRun(Mailbox!Edited, net, acked) /\ LifecycleReads(Mailbox!Edited, box)
    <3>1. CASE run = None
      BY <1>0, <3>1 DEF Mailbox!Edited
    <3>2. CASE run # None
      <4>1. \E x : Mailbox!Edited = [run EXCEPT !.mine = x]
        BY <3>2 DEF Mailbox!Edited
      <4>. QED BY <1>0, <3>2, <4>1, LifecycleMarked, LifecycleReadsMarked
    <3>. QED BY <3>1, <3>2
  <2>. QED BY <1>0, <1>1, <2>3, <2>5, <2>6, LifecycleSeenKept
<1>3. CASE Mailbox!acknowledge
  <2>1. PICK f : f = [l EXCEPT !.ack = TRUE] /\ Mailbox!Render(boxes, f, p, run) /\ net' = net
    BY <1>3 DEF Mailbox!acknowledge
  <2>2. LifecycleForm(f, acked) /\ LifecycleSeen(f, box)
    BY <1>0, <2>1 DEF LifecycleForm, LifecycleSeen, Fields
  <2>. QED BY <1>0, <1>1, <2>1, <2>2, LifecycleSeenKept
<1>4. CASE Mailbox!reload
  <2>1. PICK f, i, m, r :
          /\ f = [l EXCEPT !.required = TRUE, !.ack = FALSE] /\ i = Mailbox!Max2(l.high, boxes.rev)
          /\ r = Mailbox!Start("lread", [minimum |-> i])
          /\ m = [kind |-> "boxes"] /\ Mailbox!Render(boxes, f, p, r) /\ Mailbox!Send(m)
    BY <1>4 DEF Mailbox!reload, Mailbox!ReadBoxes
  <2>2. LifecycleForm(f, acked) /\ LifecycleSeen(f, box)
    BY <1>0, <2>1 DEF LifecycleForm, LifecycleSeen, Fields
  <2>3. i \in Int /\ i > acked /\ i <= box.rev
    <3>1. l.high \in Int /\ l.high > acked /\ l.high <= box.rev /\ boxes.rev <= box.rev
      BY <1>0 DEF LifecycleForm, LifecycleSeen, PastBox
    <3>2. box.rev \in Int
      BY <1>0 DEF BoxRow, Revision
    <3>. QED BY <1>0, <2>1, <3>1, <3>2 DEF Mailbox!Max2
  <2>4. m.kind = "boxes" /\ m.kind \notin Mailbox!Writes
    BY <2>1 DEF Mailbox!Writes
  <2>5. BoxNet(net', box) /\ net'.cmd.kind = "boxes"
    BY <2>1, <2>4, BoxSent, MailSent
  <2>6. RunOf(r, {"minimum"}) /\ r.op = "lread" /\ r.minimum = i
    BY <2>1, MailStartsRead
  <2>7. LifecycleRun(r, net', acked) /\ LifecycleReads(r, box)
    BY <2>3, <2>5, <2>6 DEF LifecycleRun, LifecycleReads
  <2>. QED BY <1>0, <1>1, <2>1, <2>2, <2>5, <2>7, LifecycleSeenKept
<1>5. CASE Mailbox!submit
  <2>1. PICK c, kind, x, m :
          /\ c = Mailbox!lcur /\ run' = Mailbox!Start("lpost", [basis |-> c])
          /\ kind \in {"handover", "convert"}
          /\ m = [kind |-> kind, form |-> "lifecycle", rev |-> c.rev, to |-> x, seen |-> c]
          /\ Mailbox!Send(m) /\ l' = l /\ boxes' = boxes
    <3>. DEFINE kind == IF Mailbox!personal THEN "handover" ELSE "convert"
    <3>1. kind \in {"handover", "convert"}
      OBVIOUS
    <3>2. /\ run' = Mailbox!Start("lpost", [basis |-> Mailbox!lcur])
          /\ Mailbox!Send([kind |-> kind, form |-> "lifecycle", rev |-> Mailbox!lcur.rev,
                           to |-> l.next, seen |-> Mailbox!lcur])
          /\ l' = l /\ boxes' = boxes
      BY <1>5 DEF Mailbox!submit
    <3>. HIDE DEF kind
    <3>. QED BY <3>1, <3>2
  <2>2. PastBox(c, box)
    BY <1>0, <2>1 DEF Mailbox!lcur, Mailbox!lcurrent, LifecycleSeen
  <2>3. m.kind \in {"handover", "convert"} /\ m.rev = c.rev /\ m.seen = c
    BY <2>1
  <2>4. BoxCmd(m, box)
    BY <2>2, <2>3 DEF BoxCmd, Replaces, PastBox
  <2>5. BoxNet(net', box)
    BY <2>1, <2>4, BoxSent
  <2>6. run'.op = "lpost" /\ run'.basis = c
    BY <2>1, MailStartsPost
  <2>7. LifecycleReads(run', box)
    BY <2>2, <2>6 DEF LifecycleReads
  <2>. QED BY <1>0, <1>1, <2>1, <2>5, <2>7 DEF BoxSeenOK
<1>. QED BY <1>2, <1>3, <1>4, <1>5

\* So do the answers it waits for, and the list when it is reread.
LEMMA LifecycleSeenAnswer ==
  ASSUME MailboxOK, BoxSeenOK, form = "lifecycle",
         \/ Mailbox!Reloaded \/ Mailbox!Submitted \/ Mailbox!LifecycleShown \/ Mailbox!Revalidate
  PROVE  BoxSeenOK'
<1>0. /\ MailRow /\ BoxRow(box) /\ LifecycleForm(l, acked) /\ LifecycleRun(run, net, acked)
      /\ boxes.rev \in Int /\ acked \in Int /\ box.rev \in Int /\ MailNet(net, box.rev)
      /\ PastBox(boxes, box) /\ BoxNet(net, box) /\ LifecycleSeen(l, box) /\ LifecycleReads(run, box)
      /\ Fields(l, {"snap", "dirty", "next", "reason", "required", "reviewed", "ack", "high"})
  BY DEF MailboxOK, MailRow, BoxSeenOK, LifecycleForm, PastBox, BoxRow, Revision
<1>1. form' = form /\ box' = box /\ stray' = stray
  BY DEF Mailbox!Reloaded, Mailbox!Submitted, Mailbox!LifecycleShown, Mailbox!Revalidate,
     Mailbox!KeepL, Mailbox!Away, Mailbox!server
<1>2. ASSUME NEW b, PastBox(b, box), NEW f, NEW k \in Int, LifecycleForm(f, k),
             LifecycleSeen(f, box), Mailbox!Render(b, f, p, None), net' = None
      PROVE  BoxSeenOK'
  <2>1. /\ b.rev \in Int /\ BoxNet(net', box)
        /\ LifecycleRun(None, None, k) /\ LifecycleReads(None, box)
    BY <1>2 DEF PastBox, BoxNet, LifecycleRun, LifecycleReads
  <2>. QED BY <1>0, <1>1, <1>2, <2>1, LifecycleSeenKept
<1>3. CASE Mailbox!Revalidate
  <2>1. PICK b : b = Mailbox!Snapshot /\ Mailbox!Render(b, l, p, run) /\ net' = net
    BY <1>3 DEF Mailbox!Revalidate
  <2>2. PastBox(b, box) /\ b.rev \in Int
    BY <1>0, <2>1, BoxShown DEF PastBox
  <2>. QED BY <1>0, <1>1, <2>1, <2>2, LifecycleSeenKept
<1>4. CASE Mailbox!LifecycleShown
  <2>1. /\ Mailbox!Render(Mailbox!Fresh, l, p, None) /\ net' = None
        /\ run # None /\ net # None /\ net.answer # None /\ run.op = "lrefresh"
    BY <1>4 DEF Mailbox!LifecycleShown, Mailbox!Doing, Mailbox!Answered, Mailbox!Hang, Mailbox!Stop
  <2>2. net.cmd.kind = "boxes"
    BY <1>0, <2>1 DEF LifecycleRun
  <2>3. PastBox(Mailbox!Fresh, box)
    BY <1>0, <2>1, <2>2 DEF BoxNet, Mailbox!Fresh, Mailbox!Got
  <2>. QED BY <1>0, <1>2, <2>1, <2>3
<1>5. CASE Mailbox!Reloaded
  <2>1. PICK a, d, t, x :
          /\ a = net.answer /\ d = a.data
          /\ t = [l EXCEPT !.snap = d, !.high = d.rev, !.dirty = TRUE,
                           !.required = FALSE, !.reviewed = TRUE, !.next = x]
          /\ Mailbox!Render(boxes,
               IF a.ok /\ run.steady /\ run.mine /\ d.rev >= run.minimum THEN t ELSE l, p, None)
          /\ net' = None /\ run # None /\ net # None /\ a # None /\ run.op = "lread"
    <3>. DEFINE x == IF l.next = net.answer.data.owner THEN "" ELSE l.next
                t == [l EXCEPT !.snap = net.answer.data, !.high = net.answer.data.rev,
                               !.dirty = TRUE, !.required = FALSE, !.reviewed = TRUE, !.next = x]
    <3>1. /\ Mailbox!Render(boxes,
               IF /\ net.answer.ok /\ run.steady /\ run.mine
                  /\ net.answer.data.rev >= run.minimum THEN t ELSE l, p, None)
          /\ net' = None /\ run # None /\ net # None /\ net.answer # None /\ run.op = "lread"
      BY <1>5 DEF Mailbox!Reloaded, Mailbox!Doing, Mailbox!Answered, Mailbox!Hang, Mailbox!Stop,
         Mailbox!Got
    <3>. HIDE DEF x
    <3>. QED BY <3>1
  <2>2. net.cmd.kind = "boxes"
    BY <1>0, <2>1 DEF LifecycleRun
  <2>3. CASE a.ok /\ run.steady /\ run.mine /\ d.rev >= run.minimum
    <3>1. PastBox(d, box)
      BY <1>0, <2>1, <2>2, <2>3 DEF BoxNet
    <3>2. /\ Fields(t, {"snap", "dirty", "next", "reason", "required", "reviewed", "ack", "high"})
          /\ t.snap = d /\ t.high = d.rev
      BY <1>0, <2>1 DEF Fields
    <3>3. d.rev \in Int /\ d.rev <= box.rev
      BY <3>1 DEF PastBox
    <3>4. d.rev - 1 \in Int /\ d.rev > d.rev - 1
      BY <3>3
    <3>5. LifecycleForm(t, d.rev - 1) /\ LifecycleSeen(t, box)
      BY <3>1, <3>2, <3>3, <3>4 DEF LifecycleForm, LifecycleSeen
    <3>. QED BY <1>0, <1>2, <2>1, <2>3, <3>4, <3>5
  <2>4. CASE ~(a.ok /\ run.steady /\ run.mine /\ d.rev >= run.minimum)
    <3>1. Mailbox!Render(boxes, l, p, None)
      BY <2>1, <2>4
    <3>. QED BY <1>0, <1>2, <2>1, <3>1
  <2>. QED BY <2>3, <2>4
<1>6. CASE Mailbox!Submitted
  <2>. DEFINE latched == [l EXCEPT !.snap = run.basis, !.dirty = TRUE, !.required = TRUE, !.ack = FALSE]
  <2>1. /\ run # None /\ net # None /\ net.answer # None /\ run.op = "lpost"
    BY <1>6 DEF Mailbox!Submitted, Mailbox!Doing, Mailbox!Answered
  <2>2. /\ RunOf(run, {"basis"}) /\ run.basis.rev \in Int /\ PastBox(run.basis, box)
        /\ net.cmd.kind \in Mailbox!Writes /\ net.cmd.rev = run.basis.rev
        /\ l.high \in Int /\ l.high > acked /\ l.high <= box.rev
    BY <1>0, <2>1 DEF LifecycleRun, LifecycleReads, LifecycleForm, LifecycleSeen
  <2>3. CASE net.answer.ok
    <3>1. PICK f, i, m, x, y :
            /\ i = Mailbox!Max2(l.high, run.basis.rev + 1) /\ m = [kind |-> "boxes"]
            /\ f = [latched EXCEPT !.high = i, !.next = x, !.reason = y]
            /\ Mailbox!Render(boxes, f, p, Mailbox!Step("lrefresh")) /\ Mailbox!Send(m)
      <4>. DEFINE x == IF run.mine THEN "" ELSE l.next
                  y == IF run.mine THEN FALSE ELSE l.reason
                  i == Mailbox!Max2(l.high, run.basis.rev + 1)
                  f == [latched EXCEPT !.high = i, !.next = x, !.reason = y]
      <4>1. /\ Mailbox!Render(boxes, [latched EXCEPT !.high = Mailbox!Max2(@, run.basis.rev + 1),
                                           !.next = IF run.mine THEN "" ELSE @,
                                           !.reason = IF run.mine THEN FALSE ELSE @],
                              p, Mailbox!Step("lrefresh"))
            /\ Mailbox!Send([kind |-> "boxes"])
        BY <1>6, <2>3 DEF Mailbox!Submitted, Mailbox!Got, Mailbox!ReadBoxes
      <4>2. latched.high = l.high /\ latched.next = l.next /\ latched.reason = l.reason
        BY <1>0 DEF Fields
      <4>3. Mailbox!Render(boxes, f, p, Mailbox!Step("lrefresh"))
        BY <4>1, <4>2
      <4>. HIDE DEF x, y, i, f
      <4>4. f = [latched EXCEPT !.high = i, !.next = x, !.reason = y]
        BY DEF f
      <4>5. i = Mailbox!Max2(l.high, run.basis.rev + 1)
        BY DEF i
      <4>. QED BY <4>1, <4>3, <4>4, <4>5
    <3>2. run.basis.rev < box.rev
      BY <1>0, <2>1, <2>2, <2>3 DEF MailNet
    <3>3. i \in Int /\ i > acked /\ i <= box.rev
      <4>1. run.basis.rev + 1 \in Int /\ run.basis.rev + 1 <= box.rev
        BY <1>0, <2>2, <3>2
      <4>. QED BY <1>0, <2>2, <3>1, <4>1 DEF Mailbox!Max2
    <3>4. PICK c : c = run.basis
      OBVIOUS
    <3>5. /\ Fields(f, {"snap", "dirty", "next", "reason", "required", "reviewed", "ack", "high"})
          /\ f.snap = c /\ f.high = i
      BY <1>0, <3>1, <3>4 DEF Fields
    <3>6. LifecycleForm(f, acked) /\ LifecycleSeen(f, box)
      BY <2>2, <3>3, <3>4, <3>5 DEF LifecycleForm, LifecycleSeen
    <3>7. m.kind = "boxes" /\ m.kind \notin Mailbox!Writes
      BY <3>1 DEF Mailbox!Writes
    <3>8. BoxNet(net', box) /\ net'.cmd.kind = "boxes"
      BY <3>1, <3>7, BoxSent, MailSent
    <3>9. LifecycleRun(Mailbox!Step("lrefresh"), net', acked) /\ LifecycleReads(Mailbox!Step("lrefresh"), box)
      <4>1. PICK q : q = [run EXCEPT !.op = "lrefresh"]
        OBVIOUS
      <4>2. RunOf(q, {"basis"}) /\ q.op = "lrefresh"
        BY <2>2, <4>1 DEF RunOf, Fields
      <4>3. LifecycleRun(q, net', acked) /\ LifecycleReads(q, box)
        BY <3>8, <4>2 DEF LifecycleRun, LifecycleReads
      <4>. QED BY <4>1, <4>3 DEF Mailbox!Step
    <3>. QED BY <1>0, <1>1, <3>1, <3>6, <3>8, <3>9, LifecycleSeenKept
  <2>4. CASE ~net.answer.ok
    <3>1. PICK f : f = latched /\ Mailbox!Render(boxes, f, p, None) /\ net' = None
      BY <1>6, <2>4 DEF Mailbox!Submitted, Mailbox!Got, Mailbox!Stop, Mailbox!Hang
    <3>2. PICK c : c = run.basis
      OBVIOUS
    <3>3. /\ Fields(f, {"snap", "dirty", "next", "reason", "required", "reviewed", "ack", "high"})
          /\ f.snap = c /\ f.high = l.high
      BY <1>0, <3>1, <3>2 DEF Fields
    <3>4. LifecycleForm(f, acked) /\ LifecycleSeen(f, box)
      BY <2>2, <3>2, <3>3 DEF LifecycleForm, LifecycleSeen
    <3>. QED BY <1>0, <1>2, <3>1, <3>4
  <2>. QED BY <2>3, <2>4
<1>. QED BY <1>3, <1>4, <1>5, <1>6

\* What the send policy form compares with was shown.
LEMMA PolicySeenCurrent ==
  ASSUME NEW f, NEW c, PolicySeen(f, c), NEW b, PastBox(b, c)
  PROVE  PastBox(Mailbox!pcurrent(f, b), c)
BY DEF PolicySeen, Mailbox!pcurrent

\* A step of the send policy form that ends in a render.
LEMMA PolicySeenKept ==
  ASSUME BoxSeenOK, BoxRow(box), form = "policy", form' = form, box' = box, stray' = stray,
         NEW b, PastBox(b, box), BoxNet(net', box),
         NEW f, NEW k \in Int, PolicyKept(f, k), PolicySeen(f, box),
         NEW fl, NEW r, Mailbox!Render(b, fl, f, r)
  PROVE  BoxSeenOK'
<1>1. boxes' = b /\ p' = Mailbox!PolicyForm(f, b)
  BY DEF Mailbox!Render
<1>2. PolicySeen(p', box)
  <2>. DEFINE c == Mailbox!pcurrent(f, b)
              m == Mailbox!Max2(f.high, c.rev)
              v == [f EXCEPT !.high = m]
  <2>1. PastBox(c, box)
    BY PolicySeenCurrent
  <2>. HIDE DEF c
  <2>2. f.high \in Int /\ f.high <= box.rev /\ c.rev \in Int /\ c.rev <= box.rev
    BY <2>1 DEF PolicyKept, PolicySeen, PastBox
  <2>3. m <= box.rev
    BY <2>2 DEF Mailbox!Max2
  <2>4. p' = v
    BY <1>1 DEF Mailbox!PolicyForm, c
  <2>. HIDE DEF m
  <2>5. v.rev = f.rev /\ v.required = f.required /\ v.reviewed = f.reviewed /\ v.high = m
    BY DEF PolicyKept, Fields
  <2>. HIDE DEF v
  <2>. QED BY <2>3, <2>4, <2>5 DEF PolicySeen
<1>. QED BY <1>1, <1>2 DEF BoxSeenOK

\* The form takes over a policy that was read.
LEMMA PolicySeenTook ==
  ASSUME NEW f, NEW k \in Int, PolicyKept(f, k), NEW b, PolicySeen(f, b), NEW v, PastBox(v, b), NEW x,
         NEW h, h = Mailbox!Took(f, v) \/ h = [Mailbox!Took(f, v) EXCEPT !.choice = x]
  PROVE  PolicyKept(h, v.rev - 1) /\ PolicySeen(h, b) /\ h.required = None
<1>0. v.rev \in Int /\ v.rev <= b.rev /\ v.rev - 1 \in Int /\ v.rev > v.rev - 1
  BY DEF PastBox
<1>1. PICK w : w = [value |-> v, parent |-> boxes]
  OBVIOUS
<1>2. w.value = v
  BY <1>1
<1>3. PICK t, n : n = v.rev /\ t = [f EXCEPT !.reviewed = w, !.rev = n, !.required = None]
  OBVIOUS
<1>4. t = Mailbox!Took(f, v)
  BY <1>1, <1>3 DEF Mailbox!Took
<1>5. /\ Fields(t, {"choice", "rev", "required", "reviewed", "high"})
      /\ t.rev = n /\ t.required = None /\ t.reviewed = w /\ t.high = f.high
  BY <1>3 DEF PolicyKept, Fields
<1>6. /\ Fields(h, {"choice", "rev", "required", "reviewed", "high"})
      /\ h.rev = n /\ h.required = None /\ h.reviewed = w /\ h.high = f.high
  <2>1. h = t \/ h = [t EXCEPT !.choice = x]
    BY <1>4
  <2>. QED BY <1>5, <2>1 DEF Fields
<1>7. PolicyKept(h, v.rev - 1)
  BY <1>0, <1>2, <1>3, <1>6 DEF PolicyKept
<1>8. PolicySeen(h, b)
  BY <1>0, <1>2, <1>3, <1>6 DEF PolicySeen
<1>. QED BY <1>6, <1>7, <1>8

\* A form that waits for a read to confirm a write, or to show what refused it,
\* waits for no revision that is yet to come.
LEMMA PolicySeenLatched ==
  ASSUME NEW f, NEW k \in Int, PolicyKept(f, k), NEW b, b.rev \in Revision, PolicySeen(f, b),
         NEW r \in Int, r <= b.rev, NEW wrote, wrote => r < b.rev
  PROVE  PolicySeen(Mailbox!Latched(f, r, wrote), b)
<1>1. PICK n, m : n = Mailbox!Max2(r, f.high) /\ m = IF wrote THEN r ELSE 0
  OBVIOUS
<1>2. PICK q : q = [minimum |-> n, newer |-> m]
  OBVIOUS
<1>3. f.high \in Int /\ f.high <= b.rev /\ b.rev \in Int /\ 0 < b.rev
  BY DEF PolicyKept, PolicySeen, Revision
<1>4. n <= b.rev /\ m < b.rev
  BY <1>1, <1>3 DEF Mailbox!Max2
<1>5. q.minimum = n /\ q.newer = m
  BY <1>2
<1>6. PICK h : h = [f EXCEPT !.required = q]
  OBVIOUS
<1>7. h = Mailbox!Latched(f, r, wrote)
  BY <1>1, <1>2, <1>6 DEF Mailbox!Latched
<1>8. h.rev = f.rev /\ h.required = q /\ h.reviewed = f.reviewed /\ h.high = f.high
  BY <1>6 DEF PolicyKept, Fields
<1>. QED BY <1>4, <1>5, <1>7, <1>8 DEF PolicySeen

\* The user at the send policy form works on what was shown.
LEMMA PolicySeenUser ==
  ASSUME MailboxOK, BoxSeenOK, form = "policy",
         Mailbox!choose \/ Mailbox!review \/ Mailbox!savePolicy
  PROVE  BoxSeenOK'
<1>0. /\ BoxRow(box) /\ PolicyKept(p, acked) /\ acked \in Int
      /\ PastBox(boxes, box) /\ BoxNet(net, box) /\ PolicySeen(p, box)
      /\ Fields(p, {"choice", "rev", "required", "reviewed", "high"})
  BY DEF MailboxOK, MailRow, BoxSeenOK, PolicyKept
<1>1. form' = form /\ box' = box /\ stray' = stray
  BY DEF Mailbox!choose, Mailbox!review, Mailbox!savePolicy, Mailbox!KeepL, Mailbox!Away,
     Mailbox!server
<1>2. PastBox(Mailbox!pcurrent(p, boxes), box)
  BY <1>0, PolicySeenCurrent
<1>3. CASE Mailbox!choose
  <2>1. PICK v, f : f = [p EXCEPT !.choice = v] /\ Mailbox!Render(boxes, l, f, run) /\ net' = net
    BY <1>3 DEF Mailbox!choose
  <2>2. PolicyKept(f, acked)
    BY <1>0, <2>1, PolicyTyped
  <2>3. f.rev = p.rev /\ f.required = p.required /\ f.reviewed = p.reviewed /\ f.high = p.high
    BY <1>0, <2>1 DEF Fields
  <2>4. PolicySeen(f, box)
    BY <1>0, <2>3 DEF PolicySeen
  <2>. QED BY <1>0, <1>1, <2>1, <2>2, <2>4, PolicySeenKept
<1>4. CASE Mailbox!review
  <2>1. CASE p.required = None /\ Mailbox!pcurrent(p, boxes).rev >= Mailbox!Max2(p.rev, p.high)
    <3>1. PICK n, f : /\ n = Mailbox!pcurrent(p, boxes).rev
                      /\ f = [p EXCEPT !.choice = "", !.rev = n]
                      /\ Mailbox!Render(boxes, l, f, run) /\ net' = net
      BY <1>4, <2>1 DEF Mailbox!review
    <3>2. n \in Int /\ n <= box.rev /\ n - 1 \in Int /\ n > n - 1
      BY <1>2, <3>1 DEF PastBox
    <3>3. /\ Fields(f, {"choice", "rev", "required", "reviewed", "high"})
          /\ f.rev = n /\ f.required = p.required /\ f.reviewed = p.reviewed /\ f.high = p.high
      BY <1>0, <3>1 DEF Fields
    <3>4. PolicyKept(f, n - 1)
      BY <1>0, <2>1, <3>2, <3>3 DEF PolicyKept
    <3>5. PolicySeen(f, box)
      BY <1>0, <3>2, <3>3 DEF PolicySeen
    <3>. QED BY <1>0, <1>1, <3>1, <3>2, <3>4, <3>5, PolicySeenKept
  <2>2. CASE ~(p.required = None /\ Mailbox!pcurrent(p, boxes).rev >= Mailbox!Max2(p.rev, p.high))
    <3>1. PICK r, m : /\ m = [kind |-> "boxes"] /\ Mailbox!Send(m)
                      /\ Mailbox!Render(boxes, l, p, r)
      BY <1>4, <2>2 DEF Mailbox!review, Mailbox!ReadBoxes
    <3>2. m.kind \notin Mailbox!Writes
      BY <3>1 DEF Mailbox!Writes
    <3>3. BoxNet(net', box)
      BY <3>1, <3>2, BoxSent
    <3>. QED BY <1>0, <1>1, <3>1, <3>3, PolicySeenKept
  <2>. QED BY <2>1, <2>2
<1>5. CASE Mailbox!savePolicy
  <2>1. PICK s, m : /\ s = Mailbox!pcurrent(p, boxes)
                    /\ m = [kind |-> "policy", rev |-> p.rev, choice |-> p.choice, seen |-> s]
                    /\ Mailbox!Send(m) /\ p' = p /\ boxes' = boxes /\ p.rev = s.rev
    BY <1>5 DEF Mailbox!savePolicy, Mailbox!pstale
  <2>2. m.kind = "policy" /\ m.rev = s.rev /\ m.seen = s
    BY <2>1
  <2>3. BoxCmd(m, box)
    BY <1>2, <2>1, <2>2 DEF BoxCmd, Replaces, PastBox
  <2>4. BoxNet(net', box)
    BY <2>1, <2>3, BoxSent
  <2>. QED BY <1>0, <1>1, <2>1, <2>4 DEF BoxSeenOK
<1>. QED BY <1>3, <1>4, <1>5

\* So do the answers it waits for, and the list when it is reread.
LEMMA PolicySeenAnswer ==
  ASSUME MailboxOK, BoxSeenOK, form = "policy",
         \/ Mailbox!Reviewed \/ Mailbox!PolicyPut \/ Mailbox!PolicyShown \/ Mailbox!Revalidate
  PROVE  BoxSeenOK'
<1>0. /\ MailRow /\ BoxRow(box) /\ PolicyKept(p, acked) /\ PolicyRun(run, net, acked) /\ acked \in Int
      /\ box.rev \in Revision /\ MailNet(net, box.rev)
      /\ PastBox(boxes, box) /\ BoxNet(net, box) /\ PolicySeen(p, box)
  BY DEF MailboxOK, MailRow, BoxRow, BoxSeenOK
<1>1. form' = form /\ box' = box /\ stray' = stray
  BY DEF Mailbox!Reviewed, Mailbox!PolicyPut, Mailbox!PolicyShown, Mailbox!Revalidate,
     Mailbox!KeepL, Mailbox!Away, Mailbox!server
<1>2. BoxNet(None, box)
  BY DEF BoxNet
<1>3. CASE Mailbox!Revalidate
  <2>1. PICK b : b = Mailbox!Snapshot /\ Mailbox!Render(b, l, p, run) /\ net' = net
    BY <1>3 DEF Mailbox!Revalidate
  <2>2. PastBox(b, box)
    BY <1>0, <2>1, BoxShown
  <2>. QED BY <1>0, <1>1, <2>1, <2>2, PolicySeenKept
<1>4. CASE Mailbox!Reviewed
  <2>1. PICK a, d, f, ok : /\ a = net.answer /\ d = a.data /\ f = [Mailbox!Took(p, d) EXCEPT !.choice = ""]
                           /\ Mailbox!Render(boxes, l, IF ok THEN f ELSE p, None)
                           /\ ok \in BOOLEAN /\ (ok => a.ok)
                           /\ net' = None /\ run # None /\ net # None /\ a # None /\ run.op = "pread"
    <3>. DEFINE minimum == Mailbox!Max2(IF p.required = None THEN p.rev ELSE p.required.minimum, p.high)
                newer == IF p.required = None THEN 0 ELSE p.required.newer
                ok == net.answer.ok /\ Mailbox!policySnapshot(net.answer.data, minimum, newer)
    <3>1. /\ Mailbox!Render(boxes, l, IF ok THEN [Mailbox!Took(p, net.answer.data) EXCEPT !.choice = ""]
                                      ELSE p, None)
          /\ net' = None /\ run # None /\ net # None /\ net.answer # None /\ run.op = "pread"
      BY <1>4 DEF Mailbox!Reviewed, Mailbox!Doing, Mailbox!Answered, Mailbox!Hang, Mailbox!Stop,
         Mailbox!Got
    <3>2. PICK b \in BOOLEAN : b <=> ok
      OBVIOUS
    <3>3. b => net.answer.ok
      BY <3>2
    <3>4. Mailbox!Render(boxes, l, IF b THEN [Mailbox!Took(p, net.answer.data) EXCEPT !.choice = ""]
                                   ELSE p, None)
      BY <3>1, <3>2
    <3>. HIDE DEF ok
    <3>. QED BY <3>1, <3>3, <3>4
  <2>2. net.cmd.kind = "boxes"
    BY <1>0, <2>1 DEF PolicyRun
  <2>3. CASE ok
    <3>1. PastBox(d, box)
      BY <1>0, <2>1, <2>2, <2>3 DEF BoxNet
    <3>2. d.rev - 1 \in Int
      BY <3>1 DEF PastBox
    <3>3. PolicyKept(f, d.rev - 1) /\ PolicySeen(f, box)
      BY <1>0, <2>1, <3>1, PolicySeenTook
    <3>4. Mailbox!Render(boxes, l, f, None)
      BY <2>1, <2>3
    <3>. QED BY <1>0, <1>1, <1>2, <2>1, <3>2, <3>3, <3>4, PolicySeenKept
  <2>4. CASE ~ok
    <3>1. Mailbox!Render(boxes, l, p, None)
      BY <2>1, <2>4
    <3>. QED BY <1>0, <1>1, <1>2, <2>1, <3>1, PolicySeenKept
  <2>. QED BY <2>3, <2>4
<1>5. CASE Mailbox!PolicyShown
  <2>1. PICK b : /\ b = Mailbox!Fresh /\ net' = None
                 /\ \/ Mailbox!Render(b, l, p, None)
                    \/ Mailbox!Render(b, l, Mailbox!Took(p, b), None)
                 /\ run # None /\ net # None /\ net.answer # None
                 /\ run.op \in {"pconfirm", "pshow"}
    BY <1>5 DEF Mailbox!PolicyShown, Mailbox!Doing, Mailbox!Answered, Mailbox!Hang, Mailbox!Stop
  <2>2. net.cmd.kind = "boxes"
    BY <1>0, <2>1 DEF PolicyRun
  <2>3. PastBox(b, box)
    BY <1>0, <2>1, <2>2 DEF BoxNet, Mailbox!Fresh, Mailbox!Got
  <2>4. CASE Mailbox!Render(b, l, p, None)
    BY <1>0, <1>1, <1>2, <2>1, <2>3, <2>4, PolicySeenKept
  <2>5. CASE Mailbox!Render(b, l, Mailbox!Took(p, b), None)
    <3>1. PICK f : f = Mailbox!Took(p, b)
      OBVIOUS
    <3>2. b.rev - 1 \in Int
      BY <2>3 DEF PastBox
    <3>3. PolicyKept(f, b.rev - 1) /\ PolicySeen(f, box)
      BY <1>0, <2>3, <3>1, PolicySeenTook
    <3>. QED BY <1>0, <1>1, <1>2, <2>1, <2>3, <2>5, <3>1, <3>2, <3>3, PolicySeenKept
  <2>. QED BY <2>1, <2>4, <2>5
<1>6. CASE Mailbox!PolicyPut
  <2>1. /\ run # None /\ net # None /\ net.answer # None /\ run.op = "pput"
    BY <1>6 DEF Mailbox!PolicyPut, Mailbox!Doing, Mailbox!Answered
  <2>2. /\ run.rev \in Int /\ run.rev > acked /\ net.cmd.kind = "policy" /\ net.cmd.rev = run.rev
    BY <1>0, <2>1 DEF PolicyRun
  <2>3. net.cmd.kind \in Mailbox!Writes
    BY <2>2 DEF Mailbox!Writes
  <2>4. run.rev <= box.rev /\ (net.answer.ok => run.rev < box.rev)
    BY <1>0, <2>1, <2>2, <2>3 DEF BoxNet, BoxCmd, MailNet
  <2>5. CASE net.answer.ok \/ net.answer.conflict
    <3>1. PICK f, q, m : /\ f = Mailbox!Latched(p, run.rev, net.answer.ok) /\ m = [kind |-> "boxes"]
                         /\ Mailbox!Render(boxes, l, f, q) /\ Mailbox!Send(m)
      BY <1>6, <2>5 DEF Mailbox!PolicyPut, Mailbox!Got, Mailbox!ReadBoxes
    <3>2. PolicySeen(f, box)
      BY <1>0, <2>2, <2>4, <3>1, PolicySeenLatched
    <3>3. PICK j \in Int : j = IF net.answer.ok THEN run.rev ELSE acked
      BY <1>0, <2>2
    <3>4. PolicyKept(f, j)
      BY <1>0, <2>2, <3>1, <3>3, PolicyLatched
    <3>5. m.kind \notin Mailbox!Writes
      BY <3>1 DEF Mailbox!Writes
    <3>6. BoxNet(net', box)
      BY <3>1, <3>5, BoxSent
    <3>. QED BY <1>0, <1>1, <3>1, <3>2, <3>4, <3>6, PolicySeenKept
  <2>6. CASE ~(net.answer.ok \/ net.answer.conflict)
    <3>1. Mailbox!Render(boxes, l, p, None) /\ net' = None
      BY <1>6, <2>6 DEF Mailbox!PolicyPut, Mailbox!Got, Mailbox!Stop, Mailbox!Hang
    <3>. QED BY <1>0, <1>1, <1>2, <3>1, PolicySeenKept
  <2>. QED BY <2>5, <2>6
<1>. QED BY <1>3, <1>4, <1>5, <1>6

\* The forms when the page opens, or another mailbox is selected.
LEMMA BoxOpened ==
  ASSUME NEW c, c.rev \in Revision, NEW b, PastBox(b, c), NEW d, PastGrant(d, c)
  PROVE  /\ GrantSeen(Mailbox!NoGrant(d), c) /\ LifecycleSeen(Mailbox!Untouched(b), c)
         /\ PolicySeen(Mailbox!NoChoice(b), c)
<1>1. GrantSeen(Mailbox!NoGrant(d), c)
  <2>1. PICK f : f = Mailbox!NoGrant(d)
    OBVIOUS
  <2>2. f.data = d /\ f.rev = None
    BY <2>1 DEF Mailbox!NoGrant
  <2>. QED BY <2>1, <2>2 DEF GrantSeen
<1>2. LifecycleSeen(Mailbox!Untouched(b), c)
  <2>1. PICK f : f = Mailbox!Untouched(b)
    OBVIOUS
  <2>2. f.snap = b /\ f.high = b.rev
    BY <2>1 DEF Mailbox!Untouched
  <2>. QED BY <2>1, <2>2 DEF LifecycleSeen, PastBox
<1>3. PolicySeen(Mailbox!NoChoice(b), c)
  <2>1. PICK f : f = Mailbox!NoChoice(b)
    OBVIOUS
  <2>2. f.rev = b.rev /\ f.high = b.rev /\ f.required = None /\ f.reviewed = None
    BY <2>1 DEF Mailbox!NoChoice
  <2>. QED BY <2>1, <2>2 DEF PolicySeen, PastBox
<1>. QED BY <1>1, <1>2, <1>3

\* Leaving the page and coming back.
LEMMA BoxRemount == ASSUME MailboxOK, BoxSeenOK, Mailbox!Remount PROVE BoxSeenOK'
<1>0. /\ box.rev \in Revision /\ PastBox(boxes, box) /\ BoxNet(net, box)
      /\ \A m \in stray : BoxCmd(m, box)
  BY DEF MailboxOK, MailRow, BoxRow, BoxSeenOK
<1>1. /\ form' = form /\ box' = box /\ boxes' = boxes /\ net' = None /\ run' = None
      /\ g' = Mailbox!NoGrant(g.data) /\ l' = Mailbox!Untouched(boxes) /\ p' = Mailbox!NoChoice(boxes)
      /\ stray' \subseteq stray \/ (net # None /\ stray' \subseteq stray \cup {net.cmd})
  BY DEF Mailbox!Remount, Mailbox!server, Mailbox!Unanswered
<1>2. \A m \in stray' : BoxCmd(m, box)
  BY <1>0, <1>1 DEF BoxNet
<1>3. form = "grant" => GrantSeen(g', box)
  <2>1. form = "grant" => PastGrant(g.data, box)
    BY DEF BoxSeenOK, GrantSeen
  <2>. QED BY <1>0, <1>1, <2>1, BoxOpened
<1>4. LifecycleSeen(l', box) /\ PolicySeen(p', box)
  <2>1. PICK d : d = Mailbox!GrantSnapshot
    OBVIOUS
  <2>2. PastGrant(d, box)
    BY <2>1, BoxShown DEF MailboxOK, MailRow
  <2>. QED BY <1>0, <1>1, <2>2, BoxOpened
<1>. QED BY <1>0, <1>1, <1>2, <1>3, <1>4 DEF BoxSeenOK, BoxNet, LifecycleReads

\* An answer of one form's action comes to that form.
LEMMA AnswersForm ==
  ASSUME MailboxOK, run # None
  PROVE  /\ run.op \in {"gread", "gback", "grefresh", "gshown", "gput"} => form = "grant"
         /\ run.op \in {"lread", "lpost", "lrefresh"} => form = "lifecycle"
         /\ run.op \in {"pread", "pput", "pconfirm", "pshow"} => form = "policy"
BY DEF MailboxOK, GrantRun, LifecycleRun, PolicyRun, Mailbox!Forms

\* The mailbox page keeps to what was shown, from the start.
LEMMA BoxSeenStep == ASSUME MailboxOK, BoxSeenOK, Mailbox!Next PROVE BoxSeenOK'
<1>1. CASE Mailbox!Serve \/ Mailbox!Lose \/ Mailbox!ServeStray \/ Mailbox!Rival
  BY <1>1, BoxServer
<1>2. CASE Mailbox!Remount
  BY <1>2, BoxRemount
<1>3. CASE Mailbox!Revalidate
  BY <1>3, GrantSeenStep, LifecycleSeenAnswer, PolicySeenAnswer DEF MailboxOK, Mailbox!Forms
<1>4. CASE Mailbox!User /\ ~Mailbox!Remount
  BY <1>4, GrantSeenStep, LifecycleSeenUser, PolicySeenUser DEF Mailbox!User
<1>5. CASE Mailbox!Answers
  <2>1. CASE \/ Mailbox!GrantsRead \/ Mailbox!GrantsReviewed \/ Mailbox!GrantPut
             \/ Mailbox!GrantReadBack \/ Mailbox!GrantShown
    <3>1. form = "grant"
      BY <2>1, AnswersForm
      DEF Mailbox!GrantsRead, Mailbox!GrantsReviewed, Mailbox!GrantPut, Mailbox!GrantReadBack,
          Mailbox!GrantShown, Mailbox!Doing
    <3>. QED BY <2>1, <3>1, GrantSeenStep
  <2>2. CASE Mailbox!Reloaded \/ Mailbox!Submitted \/ Mailbox!LifecycleShown
    <3>1. form = "lifecycle"
      BY <2>2, AnswersForm DEF Mailbox!Reloaded, Mailbox!Submitted, Mailbox!LifecycleShown, Mailbox!Doing
    <3>. QED BY <2>2, <3>1, LifecycleSeenAnswer
  <2>3. CASE Mailbox!Reviewed \/ Mailbox!PolicyPut \/ Mailbox!PolicyShown
    <3>1. form = "policy"
      BY <2>3, AnswersForm DEF Mailbox!Reviewed, Mailbox!PolicyPut, Mailbox!PolicyShown, Mailbox!Doing
    <3>. QED BY <2>3, <3>1, PolicySeenAnswer
  <2>. QED BY <1>5, <2>1, <2>2, <2>3 DEF Mailbox!Answers
<1>. QED BY <1>1, <1>2, <1>3, <1>4, <1>5 DEF Mailbox!Next

\* It opens with what the server holds.
LEMMA BoxSeenBegin == ASSUME Mailbox!Init PROVE BoxSeenOK
<1>1. BoxRow(box)
  BY MailboxStart DEF MailboxOK, MailRow
<1>2. PICK b, d : b = Mailbox!Snapshot /\ d = Mailbox!GrantSnapshot
  OBVIOUS
<1>3. /\ run = None /\ net = None /\ stray = {} /\ boxes = b
      /\ g = Mailbox!NoGrant(d) /\ l = Mailbox!Untouched(b) /\ p = Mailbox!NoChoice(b)
  BY <1>2 DEF Mailbox!Init, Mailbox!Quiet
<1>4. PastBox(b, box) /\ PastGrant(d, box) /\ box.rev \in Revision
  BY <1>1, <1>2, BoxShown DEF BoxRow
<1>5. GrantSeen(g, box) /\ LifecycleSeen(l, box) /\ PolicySeen(p, box)
  BY <1>3, <1>4, BoxOpened
<1>. QED BY <1>3, <1>4, <1>5 DEF BoxSeenOK, BoxNet, LifecycleReads

\* A write that is accepted replaces what its form showed.
LEMMA MailOverwrites == ASSUME BoxSeenOK PROVE Mailbox!OverwritesSeen
<1>1. \A m \in Mailbox!Outstanding : BoxCmd(m, box)
  BY DEF BoxSeenOK, BoxNet, Mailbox!Outstanding, Mailbox!Unanswered
<1>. QED BY <1>1 DEF Mailbox!OverwritesSeen, BoxCmd, Replaces

\* What is counted on the mailbox page only grows.
LEMMA MailCounts == ASSUME Counted, Mailbox!Next PROVE Counted'
<1>1. moves' \in {moves, moves + 1} /\ rivals' \in {rivals, rivals + 1} /\ lost' \in {lost, lost + 1}
  <2>1. CASE Mailbox!User
    BY <2>1
    DEF Mailbox!User, Mailbox!selectMember, Mailbox!checkRight, Mailbox!reloadGrants,
        Mailbox!saveGrant, Mailbox!editLifecycle, Mailbox!acknowledge, Mailbox!reload,
        Mailbox!submit, Mailbox!choose, Mailbox!review, Mailbox!savePolicy, Mailbox!Remount,
        Mailbox!KeepG, Mailbox!KeepL, Mailbox!Away, Mailbox!Move
  <2>2. CASE Mailbox!Answers
    BY <2>2
    DEF Mailbox!Answers, Mailbox!GrantsRead, Mailbox!GrantsReviewed, Mailbox!GrantPut,
        Mailbox!GrantReadBack, Mailbox!GrantShown, Mailbox!Reloaded, Mailbox!Submitted,
        Mailbox!LifecycleShown, Mailbox!Reviewed, Mailbox!PolicyPut, Mailbox!PolicyShown,
        Mailbox!KeepG, Mailbox!KeepL, Mailbox!Away
  <2>3. CASE Mailbox!Revalidate
    BY <2>3 DEF Mailbox!Revalidate, Mailbox!Away
  <2>4. CASE Mailbox!Serve \/ Mailbox!Lose \/ Mailbox!ServeStray \/ Mailbox!Rival
    BY <2>4 DEF Mailbox!Serve, Mailbox!Lose, Mailbox!ServeStray, Mailbox!Rival, Mailbox!forms
  <2>. QED BY <2>1, <2>2, <2>3, <2>4 DEF Mailbox!Next
<1>. QED BY <1>1 DEF Counted

\* An action that is marked is still under way.
LEMMA MailUnderWay ==
  ASSUME NoneApart, MailboxOK, run # None
  PROVE  [run EXCEPT !.steady = FALSE] # None
<1>1. RunOf(run, {"minimum"}) \/ RunOf(run, {"rev"}) \/ RunOf(run, {"basis"})
  BY DEF MailboxOK, GrantRun, LifecycleRun, PolicyRun, Mailbox!Forms
<1>2. PICK r : r = [run EXCEPT !.steady = FALSE]
  OBVIOUS
<1>3. RunOf(r, {"minimum"}) \/ RunOf(r, {"rev"}) \/ RunOf(r, {"basis"})
  BY <1>1, <1>2 DEF RunOf, Fields
<1>4. r # None
  BY <1>3, SomeRecord DEF RunOf
<1>. QED BY <1>2, <1>4

\* An action ends with its answer, or when the page is left.
LEMMA MailEnds ==
  ASSUME NoneApart, Counted, MailboxOK, Mailbox!Next, run # None, run' = None, moves' = moves
  PROVE  Mailbox!Answers
<1>1. moves # moves + 1
  BY DEF Counted
<1>2. ~Mailbox!Revalidate
  <2>1. ASSUME Mailbox!Revalidate PROVE run' \in {run, [run EXCEPT !.steady = FALSE]}
    BY <2>1 DEF Mailbox!Revalidate, Mailbox!Render
  <2>. QED BY <2>1, MailUnderWay
<1>3. ~Mailbox!User
  BY <1>1
  DEF Mailbox!User, Mailbox!selectMember, Mailbox!checkRight, Mailbox!reloadGrants,
      Mailbox!saveGrant, Mailbox!editLifecycle, Mailbox!acknowledge, Mailbox!reload,
      Mailbox!submit, Mailbox!canSubmit, Mailbox!choose, Mailbox!review, Mailbox!savePolicy,
      Mailbox!Remount, Mailbox!Move, Mailbox!Idle
<1>. QED BY <1>2, <1>3
     DEF Mailbox!Next, Mailbox!Serve, Mailbox!Lose, Mailbox!ServeStray, Mailbox!Rival, Mailbox!forms

\* A review that returns what the server holds gets its form going again.
LEMMA MailReleases ==
  ASSUME NoneApart, Counted, MailboxOK, BoxSeenOK, Mailbox!Next PROVE Mailbox!Releases
<1>. SUFFICES ASSUME run # None, run.op \in {"grefresh", "lread", "pread"}, run' = None,
                     Mailbox!Answered, net.answer.ok, net.answer.data.rev = box.rev,
                     run.mine, run.steady, moves' = moves
              PROVE  ~Mailbox!Blocked'
  BY DEF Mailbox!Releases, Mailbox!Got
<1>0. /\ Mailbox!Answers /\ net # None /\ net.answer # None
      /\ BoxRow(box) /\ box.rev \in Int /\ box.rev > 0
      /\ PastBox(boxes, box) /\ BoxNet(net, box) /\ boxes.rev \in Int /\ boxes.rev <= box.rev
  BY MailEnds DEF Mailbox!Answered, MailboxOK, MailRow, BoxRow, Revision, BoxSeenOK, PastBox
<1>1. CASE run.op = "grefresh"
  <2>1. Mailbox!GrantsReviewed
    BY <1>0, <1>1
    DEF Mailbox!Answers, Mailbox!GrantsRead, Mailbox!GrantPut, Mailbox!GrantReadBack,
        Mailbox!GrantShown, Mailbox!Reloaded, Mailbox!Submitted, Mailbox!LifecycleShown,
        Mailbox!Reviewed, Mailbox!PolicyPut, Mailbox!PolicyShown, Mailbox!Doing
  <2>2. form = "grant" /\ form' = form
    BY <1>1, <2>1, AnswersForm DEF Mailbox!GrantsReviewed, Mailbox!Away
  <2>3. g' = [Mailbox!Released(g) EXCEPT !.error = g.error]
    BY <2>1 DEF Mailbox!GrantsReviewed
  <2>4. g'.conflict = None /\ g'.saved = None
    BY <2>3 DEF Mailbox!Released, Mailbox!NoGrant
  <2>. QED BY <2>2, <2>4 DEF Mailbox!Blocked
<1>2. CASE run.op = "lread"
  <2>1. Mailbox!Reloaded
    BY <1>0, <1>2
    DEF Mailbox!Answers, Mailbox!GrantsRead, Mailbox!GrantPut, Mailbox!GrantReadBack,
        Mailbox!GrantShown, Mailbox!GrantsReviewed, Mailbox!Submitted, Mailbox!LifecycleShown,
        Mailbox!Reviewed, Mailbox!PolicyPut, Mailbox!PolicyShown, Mailbox!Doing
  <2>2. form = "lifecycle" /\ form' = form
    BY <1>2, <2>1, AnswersForm DEF Mailbox!Reloaded, Mailbox!KeepL, Mailbox!Away
  <2>3. /\ run.minimum \in Int /\ run.minimum <= box.rev /\ net.cmd.kind = "boxes"
        /\ Fields(l, {"snap", "dirty", "next", "reason", "required", "reviewed", "ack", "high"})
    BY <1>2, <2>2 DEF MailboxOK, LifecycleRun, LifecycleForm, BoxSeenOK, LifecycleReads
  <2>4. PICK d, t, x : /\ d = net.answer.data /\ l' = Mailbox!Lifecycle(t, boxes)
                       /\ t = [l EXCEPT !.snap = d, !.high = d.rev, !.dirty = TRUE,
                                        !.required = FALSE, !.reviewed = TRUE, !.next = x]
    <3>. DEFINE x == IF l.next = net.answer.data.owner THEN "" ELSE l.next
                t == [l EXCEPT !.snap = net.answer.data, !.high = net.answer.data.rev,
                               !.dirty = TRUE, !.required = FALSE, !.reviewed = TRUE, !.next = x]
    <3>1. net.answer.data.rev >= run.minimum
      BY <1>0, <2>3
    <3>2. Mailbox!Render(boxes, t, p, None)
      BY <2>1, <3>1 DEF Mailbox!Reloaded, Mailbox!Got, Mailbox!Stop
    <3>3. l' = Mailbox!Lifecycle(t, boxes)
      BY <2>2, <3>2 DEF Mailbox!Render
    <3>. HIDE DEF x
    <3>. QED BY <3>3
  <2>5. /\ Fields(t, {"snap", "dirty", "next", "reason", "required", "reviewed", "ack", "high"})
        /\ t.snap = d /\ t.high = d.rev /\ t.dirty /\ ~t.required
    BY <2>3, <2>4 DEF Fields
  <2>6. PastBox(d, box) /\ d.rev = box.rev
    BY <1>0, <2>3, <2>4 DEF BoxNet
  <2>7. PICK h : h = [t EXCEPT !.high = d.rev]
    OBVIOUS
  <2>8. /\ Fields(h, {"snap", "dirty", "next", "reason", "required", "reviewed", "ack", "high"})
        /\ h.snap = d /\ h.high = d.rev /\ h.dirty /\ ~h.required
    BY <2>5, <2>7 DEF Fields
  <2>9. Mailbox!Max2(d.rev, boxes.rev) = d.rev
    BY <1>0, <2>6 DEF Mailbox!Max2
  <2>10. ~Mailbox!lstale(h, boxes)
    <3>1. Mailbox!lcurrent(h, boxes) = d
      BY <2>8 DEF Mailbox!lcurrent
    <3>2. ~(d.rev < Mailbox!Max2(h.high, boxes.rev))
      BY <1>0, <2>6, <2>8, <2>9
    <3>3. d.rev = boxes.rev => Mailbox!signature(d) = Mailbox!signature(boxes)
      BY <1>0, <2>6 DEF PastBox, Mailbox!signature
    <3>. QED BY <3>1, <3>2, <3>3 DEF Mailbox!lstale
  <2>11. l' = [h EXCEPT !.required = h.required \/ (h.dirty /\ Mailbox!lstale(h, boxes))]
    BY <2>4, <2>5, <2>7, <2>9 DEF Mailbox!Lifecycle
  <2>12. l'.required = (h.required \/ (h.dirty /\ Mailbox!lstale(h, boxes)))
    BY <2>8, <2>11 DEF Fields
  <2>13. ~l'.required
    BY <2>8, <2>10, <2>12
  <2>. QED BY <2>2, <2>13 DEF Mailbox!Blocked
<1>3. CASE run.op = "pread"
  <2>1. Mailbox!Reviewed
    BY <1>0, <1>3
    DEF Mailbox!Answers, Mailbox!GrantsRead, Mailbox!GrantPut, Mailbox!GrantReadBack,
        Mailbox!GrantShown, Mailbox!GrantsReviewed, Mailbox!Reloaded, Mailbox!Submitted,
        Mailbox!LifecycleShown, Mailbox!PolicyPut, Mailbox!PolicyShown, Mailbox!Doing
  <2>2. form = "policy" /\ form' = form
    BY <1>3, <2>1, AnswersForm DEF Mailbox!Reviewed, Mailbox!KeepL, Mailbox!Away
  <2>3. PolicyKept(p, acked) /\ PolicySeen(p, box) /\ acked \in Int /\ net.cmd.kind = "boxes"
    BY <1>3, <2>2 DEF MailboxOK, MailRow, PolicyRun, BoxSeenOK
  <2>4. PICK c, n : /\ c = IF p.required = None THEN p.rev ELSE p.required.minimum
                    /\ n = IF p.required = None THEN 0 ELSE p.required.newer
    OBVIOUS
  <2>5. c \in Int /\ c <= box.rev /\ n \in Int /\ n < box.rev /\ p.high \in Int /\ p.high <= box.rev
    BY <1>0, <2>3, <2>4 DEF PolicyKept, PolicySeen, Floor
  <2>6. Mailbox!policySnapshot(net.answer.data, Mailbox!Max2(c, p.high), n)
    BY <1>0, <2>5 DEF Mailbox!policySnapshot, Mailbox!Max2
  <2>7. PICK d, f : d = net.answer.data /\ f = [Mailbox!Took(p, d) EXCEPT !.choice = ""]
    OBVIOUS
  <2>8. Mailbox!Render(boxes, l, f, None)
    BY <2>1, <2>4, <2>6, <2>7 DEF Mailbox!Reviewed, Mailbox!Got, Mailbox!Stop
  <2>9. PICK w, i, t : /\ w = [value |-> d, parent |-> boxes] /\ i = d.rev
                        /\ t = [p EXCEPT !.reviewed = w, !.rev = i, !.required = None]
    OBVIOUS
  <2>10. t = Mailbox!Took(p, d)
    BY <2>9 DEF Mailbox!Took
  <2>11. Fields(t, {"choice", "rev", "required", "reviewed", "high"}) /\ t.required = None
    BY <2>3, <2>9 DEF PolicyKept, Fields
  <2>12. Fields(f, {"choice", "rev", "required", "reviewed", "high"}) /\ f.required = None
    BY <2>7, <2>10, <2>11 DEF Fields
  <2>13. PICK m : p' = [f EXCEPT !.high = m]
    BY <2>2, <2>8 DEF Mailbox!Render, Mailbox!PolicyForm
  <2>14. p'.required = None
    BY <2>12, <2>13 DEF Fields
  <2>. QED BY <2>2, <2>14 DEF Mailbox!Blocked
<1>. QED BY <1>1, <1>2, <1>3

-----------------------------------------------------------------------------
(* The console.                                                            *)

ConsoleOK ==
  /\ page = "recovery" => RecoveryOK
  /\ page = "settings" => SettingsOK
  /\ page = "mailbox" => MailboxOK

\* What was done is not done again, on any page, for any number of retries, lost
\* answers, crashes and changes by others: no form sends a command for a revision
\* whose write was acknowledged to it (mailbox-admin.tsx and its three editors,
\* company settings), and no target of an accepted receipt gets a second copy.
THEOREM NothingTwice == Spec => []DoneOnce
<1>1. Init => ConsoleOK
  BY RecoveryStart, SettingsStart, MailboxStart DEF Init, ConsoleOK
<1>2. ConsoleOK /\ [Next]_vars => ConsoleOK'
  <2>1. ASSUME ConsoleOK, Next PROVE ConsoleOK'
    <3>1. page' = page
      BY <2>1 DEF Next
    <3>2. CASE page = "recovery"
      BY <2>1, <3>1, <3>2, RecoveryStep DEF Next, ConsoleOK
    <3>3. CASE page = "settings"
      BY <2>1, <3>1, <3>3, SettingsStep DEF Next, ConsoleOK
    <3>4. CASE page = "mailbox"
      BY <2>1, <3>1, <3>4, MailboxStep DEF Next, ConsoleOK
    <3>. QED BY <3>1, <3>2, <3>3, <3>4 DEF ConsoleOK
  <2>2. ASSUME ConsoleOK, UNCHANGED vars PROVE ConsoleOK'
    <3>1. UNCHANGED <<page, form, run, net, stray, srv, ui, box, boxes, g, l, p, acked>>
      BY <2>2 DEF vars, mailboxVars
    <3>2. RecoveryOK => RecoveryOK'
      BY <3>1 DEF RecoveryOK
    <3>3. SettingsOK => SettingsOK'
      BY <3>1 DEF SettingsOK
    <3>4. MailboxOK => MailboxOK'
      BY <3>1 DEF MailboxOK, MailRow
    <3>. QED BY <2>2, <3>1, <3>2, <3>3, <3>4 DEF ConsoleOK
  <2>. QED BY <2>1, <2>2
<1>3. ConsoleOK => DoneOnce
  BY OnceMeans, SettingsMeans, MailMeans DEF ConsoleOK, DoneOnce
<1>. QED BY <1>1, <1>2, <1>3, PTL DEF Spec

\* The invariants of all pages.
FormsOK ==
  /\ PagesOK
  /\ page = "settings" => Counted /\ SettingsOK /\ ZonesOK /\ SeenOK
  /\ page = "mailbox" => Counted /\ MailboxOK /\ BoxSeenOK

\* It holds at the start, and every step keeps it.
LEMMA FormsAlways == ASSUME NoneApart PROVE Spec => []FormsOK
<1>1. Init => FormsOK
  <2>1. Init /\ page = "settings" => Settings!Init
    BY DEF Init
  <2>2. Init /\ page = "mailbox" => Mailbox!Init
    BY DEF Init
  <2>3. Mailbox!Init => Counted
    <3>1. Mailbox!Init => Mailbox!Quiet
      BY DEF Mailbox!Init
    <3>2. Mailbox!Quiet => Counted
      BY DEF Mailbox!Quiet, Counted
    <3>. QED BY <3>1, <3>2
  <2>4. Init => PagesOK
    BY PagesBegin
  <2>5. Init /\ page = "settings" => Counted /\ SettingsOK /\ ZonesOK /\ SeenOK
    BY <2>1, SettingsStart, ZonesBegin, SeenBegin
  <2>6. Init /\ page = "mailbox" => Counted /\ MailboxOK /\ BoxSeenOK
    BY <2>2, <2>3, MailboxStart, BoxSeenBegin
  <2>. QED BY <2>4, <2>5, <2>6 DEF FormsOK
<1>2. FormsOK /\ [Next]_vars => FormsOK'
  <2>. SUFFICES ASSUME FormsOK, [Next]_vars PROVE FormsOK'
    OBVIOUS
  <2>1. PagesOK'
    BY PagesStep DEF FormsOK
  <2>2. page' = page
    BY DEF Next, vars
  <2>3. CASE page = "settings" /\ Next
    <3>1. Settings!Next /\ Counted /\ SettingsOK /\ ZonesOK /\ SeenOK
      BY <2>3 DEF Next, FormsOK
    <3>2. Counted'
      BY <3>1, SettingsCounts
    <3>3. SettingsOK'
      BY <3>1, SettingsStep
    <3>4. ZonesOK'
      BY <3>1, ZonesStep
    <3>5. SeenOK'
      BY <3>1, SeenStep
    <3>. QED BY <2>1, <2>2, <2>3, <3>2, <3>3, <3>4, <3>5 DEF FormsOK
  <2>4. CASE page = "mailbox" /\ Next
    <3>1. Mailbox!Next /\ Counted /\ MailboxOK /\ BoxSeenOK
      BY <2>4 DEF Next, FormsOK
    <3>2. Counted' /\ MailboxOK' /\ BoxSeenOK'
      BY <3>1, MailCounts, MailboxStep, BoxSeenStep
    <3>. QED BY <2>1, <2>2, <2>4, <3>2 DEF FormsOK
  <2>5. CASE UNCHANGED vars
    <3>1. UNCHANGED <<form, run, net, stray, moves, rivals, lost, srv, ui, box, boxes, g, l, p, acked>>
      BY <2>5 DEF vars, mailboxVars
    <3>2. Counted = Counted' /\ (SettingsOK => SettingsOK') /\ (ZonesOK => ZonesOK')
      BY <3>1 DEF Counted, SettingsOK, ZonesOK
    <3>3. SeenOK => SeenOK'
      BY <3>1 DEF SeenOK
    <3>4. (MailboxOK => MailboxOK') /\ (BoxSeenOK => BoxSeenOK')
      BY <3>1 DEF MailboxOK, MailRow, BoxSeenOK
    <3>. QED BY <2>1, <2>2, <3>2, <3>3, <3>4 DEF FormsOK
  <2>. QED BY <2>1, <2>2, <2>3, <2>4, <2>5 DEF FormsOK
<1>. QED BY <1>1, <1>2, PTL DEF Spec

\* A step of a page that promises how a command is carried out.
ConfirmedStep ==
  /\ page = "settings" => Settings!PrimaryKept'
  /\ page = "directory" => Directory!AsConfirmed
  /\ page = "recovery" => Recovery!AsConfirmed
  /\ page = "platform" => Platform!AsConfirmed
  /\ page = "dialogs" => Dialogs!AsConfirmed

\* A confirmed command does what the screen showed when it was confirmed, with
\* any number of changes by others, lost answers and stray requests in between
\* (directory-forms.tsx and offboarding, recovery-panels.tsx, platform settings,
\* send-limits dialog), and the company keeps its primary domain.
THEOREM ConfirmedShown == ASSUME NoneApart PROVE Spec => ConfirmedAsShown
<1>1. ASSUME FormsOK, FormsOK', Next PROVE ConfirmedStep
  <2>1. ASSUME page = "settings" PROVE Settings!PrimaryKept'
    <3>1. page' = page
      BY <1>1 DEF Next
    <3>2. ZonesOK'
      BY <1>1, <2>1, <3>1 DEF FormsOK
    <3>. QED BY <3>2 DEF ZonesOK, ZonesRow, Settings!PrimaryKept, Settings!Ids
  <2>2. ASSUME page = "directory" PROVE Directory!AsConfirmed
    <3>1. Directory!Next /\ form \in Directory!Forms /\ rivals \in Nat /\ DirectoryOK
      BY <1>1, <2>2 DEF Next, FormsOK, PagesOK, Counted
    <3>. QED BY <3>1, DirectoryConfirmed
  <2>3. ASSUME page = "recovery" PROVE Recovery!AsConfirmed
    <3>1. Recovery!Next /\ form \in Recovery!Forms /\ rivals \in Nat /\ RecoveryOK /\ InspectionsOK
      BY <1>1, <2>3 DEF Next, FormsOK, PagesOK
    <3>. QED BY <3>1, RecoveryConfirmed
  <2>4. ASSUME page = "platform" PROVE Platform!AsConfirmed
    <3>1. Platform!Next /\ form \in Platform!Forms /\ rivals \in Nat /\ PlatformOK
      BY <1>1, <2>4 DEF Next, FormsOK, PagesOK, Counted
    <3>. QED BY <3>1, PlatformConfirmed
  <2>5. ASSUME page = "dialogs" PROVE Dialogs!AsConfirmed
    <3>1. Dialogs!Next /\ form \in Dialogs!Forms /\ rivals \in Nat /\ DialogsOK
      BY <1>1, <2>5 DEF Next, FormsOK, PagesOK, Counted
    <3>. QED BY <3>1, DialogsConfirmed
  <2>. QED BY <2>1, <2>2, <2>3, <2>4, <2>5 DEF ConfirmedStep
<1>2. FormsOK /\ FormsOK' /\ [Next]_vars => [ConfirmedStep]_vars
  BY <1>1
<1>3. Spec => [][ConfirmedStep]_vars
  BY <1>2, FormsAlways, PTL DEF Spec
<1>. QED BY <1>3 DEF ConfirmedAsShown, ConfirmedStep

\* A step of a page that keeps what is typed.
TypedStep ==
  /\ page = "settings" => Settings!TypedKept
  /\ page = "onboarding" => Onboard!TypedKept /\ Onboard!TokenKept
  /\ page = "directory" => Directory!TypedKept
  /\ page = "platform" => Platform!TypedKept
  /\ page = "tenants" => Tenants!TypedKept
  /\ page = "dialogs" => Dialogs!TypedKept

\* On no page does a reply, a refresh or a failed reread empty a form that is
\* being edited, whatever the order of typing, replies and rereads: input goes
\* only with a submission of it that was accepted (useAction in common.tsx and
\* the forms of the onboarding, directory, settings, platform and tenant pages).
THEOREM InputSurvives == ASSUME NoneApart PROVE Spec => TypedInputSurvives
<1>1. ASSUME FormsOK, Next PROVE TypedStep
  <2>1. ASSUME page = "settings" PROVE Settings!TypedKept
    <3>1. Settings!Next /\ Counted /\ SettingsOK /\ ZonesOK
      BY <1>1, <2>1 DEF Next, FormsOK
    <3>. QED BY <3>1, SettingsTyped
  <2>2. ASSUME page = "onboarding" PROVE Onboard!TypedKept /\ Onboard!TokenKept
    <3>1. Onboard!Next /\ form \in Onboard!Forms /\ moves \in Nat /\ OnboardOK
      BY <1>1, <2>2 DEF Next, FormsOK, PagesOK, Counted
    <3>. QED BY <3>1, OnboardTyped, OnboardToken
  <2>3. ASSUME page = "directory" PROVE Directory!TypedKept
    <3>1. Directory!Next /\ form \in Directory!Forms /\ moves \in Nat /\ DirectoryOK
      BY <1>1, <2>3 DEF Next, FormsOK, PagesOK, Counted
    <3>. QED BY <3>1, DirectoryTyped
  <2>4. ASSUME page = "platform" PROVE Platform!TypedKept
    <3>1. Platform!Next /\ form \in Platform!Forms /\ moves \in Nat /\ PlatformOK
      BY <1>1, <2>4 DEF Next, FormsOK, PagesOK, Counted
    <3>. QED BY <3>1, PlatformTyped
  <2>5. ASSUME page = "tenants" PROVE Tenants!TypedKept
    <3>1. Tenants!Next /\ Counted /\ TenantsOK
      BY <1>1, <2>5 DEF Next, FormsOK, PagesOK
    <3>. QED BY <3>1, TenantsTyped
  <2>6. ASSUME page = "dialogs" PROVE Dialogs!TypedKept
    <3>1. Dialogs!Next /\ form \in Dialogs!Forms /\ moves \in Nat /\ DialogsOK
      BY <1>1, <2>6 DEF Next, FormsOK, PagesOK, Counted
    <3>. QED BY <3>1, DialogsTyped
  <2>. QED BY <2>1, <2>2, <2>3, <2>4, <2>5, <2>6 DEF TypedStep
<1>2. FormsOK /\ [Next]_vars => [TypedStep]_vars
  BY <1>1
<1>3. Spec => [][TypedStep]_vars
  BY <1>2, FormsAlways, PTL DEF Spec
<1>. QED BY <1>3 DEF TypedInputSurvives, TypedStep

\* A write of a form that keeps a revision replaces what the form showed.
OverwriteStep ==
  /\ page = "mailbox" => Mailbox!OverwritesSeen
  /\ page = "settings" => Settings!OverwritesSeen

\* No form overwrites what its user has not seen: whatever refreshes, reviews,
\* lost answers, stray writes and changes by others came in between, a write that
\* the server accepts replaces what the form showed when it was filled in
\* (grants.tsx, mailbox-lifecycle.tsx, send-policy.tsx and company settings,
\* against claimMailboxRevision and the settings' version on the server).
THEOREM SeenOverwritten == ASSUME NoneApart PROVE Spec => NoBlindOverwrite
<1>1. ASSUME FormsOK, Next PROVE OverwriteStep
  <2>1. ASSUME page = "mailbox" PROVE Mailbox!OverwritesSeen
    <3>1. BoxSeenOK
      BY <1>1, <2>1 DEF FormsOK
    <3>. QED BY <3>1, MailOverwrites
  <2>2. ASSUME page = "settings" PROVE Settings!OverwritesSeen
    <3>1. Settings!Next /\ rivals \in Nat /\ SettingsOK /\ ZonesOK /\ SeenOK
      BY <1>1, <2>2 DEF Next, FormsOK, Counted
    <3>. QED BY <3>1, SettingsOverwrites
  <2>. QED BY <2>1, <2>2 DEF OverwriteStep
<1>2. FormsOK /\ [Next]_vars => [OverwriteStep]_vars
  BY <1>1
<1>3. Spec => [][OverwriteStep]_vars
  BY <1>2, FormsAlways, PTL DEF Spec
<1>. QED BY <1>3 DEF NoBlindOverwrite, OverwriteStep

\* A review that read what the server holds releases its form.
ReleaseStep ==
  /\ page = "mailbox" => Mailbox!Releases
  /\ page = "settings" => Settings!Releases

\* A form that waits for a review is never stuck: whatever it remembers of
\* conflicts, acknowledged and unconfirmed writes, an explicit read that returns
\* the server's present state, with nothing typed or reread meanwhile, releases
\* it (the reload and review handlers of the same forms).
THEOREM ReviewsRelease == ASSUME NoneApart PROVE Spec => ReviewReleases
<1>1. ASSUME FormsOK, Next PROVE ReleaseStep
  <2>1. ASSUME page = "mailbox" PROVE Mailbox!Releases
    <3>1. Mailbox!Next /\ Counted /\ MailboxOK /\ BoxSeenOK
      BY <1>1, <2>1 DEF Next, FormsOK
    <3>. QED BY <3>1, MailReleases
  <2>2. ASSUME page = "settings" PROVE Settings!Releases
    <3>1. Settings!Next /\ Counted /\ SettingsOK /\ SeenOK
      BY <1>1, <2>2 DEF Next, FormsOK
    <3>. QED BY <3>1, SettingsReleases
  <2>. QED BY <2>1, <2>2 DEF ReleaseStep
<1>2. FormsOK /\ [Next]_vars => [ReleaseStep]_vars
  BY <1>1
<1>3. Spec => [][ReleaseStep]_vars
  BY <1>2, FormsAlways, PTL DEF Spec
<1>. QED BY <1>3 DEF ReviewReleases, ReleaseStep
=============================================================================

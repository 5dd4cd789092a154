----------------------- MODULE TemplateEditingProofs -----------------------
(***************************************************************************)
(* Proofs about TemplateEditing: the inductive invariant TInv, and from it *)
(* the three properties of the template page, for any bounds, rival        *)
(* changes and lost answers.  One lemma per action says that it preserves  *)
(* TInv; the lemmas before them say what the server, a request and a       *)
(* selection change of its parts.                                          *)
(***************************************************************************)
EXTENDS TemplateEditing, TLAPS

\* None is apart from every record, function and sequence.
NoneApart == \A D, R : None \notin [D -> R]

-----------------------------------------------------------------------------
(* The inductive invariant.                                                *)

Vals == [Fields -> Values]
Row == [rev : Nat, val : Vals, retired : BOOLEAN]
Draft == [id : Nat \cup {None}, rev : Nat, val : Vals, retired : BOOLEAN]
Seen == SUBSET (Fields \X Values)
ServerOK(t, v) == t \in Seq(Row) /\ v \in Seq([id : Nat, subject : Values, revoked : BOOLEAN])

\* Template t has, or had, at revision d.rev the content of d.
Past(d, t) ==
  d.rev \in Nat /\ d.id \in DOMAIN t /\ d.rev <= t[d.id].rev /\ (d.rev = t[d.id].rev => d.val = t[d.id].val)
\* The list x was read from t, now or earlier.
PastList(x, t) == x \in Seq(Row) /\ \A id \in DOMAIN x : Past(Template(id, x[id]), t)
\* The list x and the stored draft d agree on the content of a revision.
Agree(x, d) == Has(x, d.id) /\ x[d.id].rev = d.rev => x[d.id].val = d.val
Knows(seen, d) == \A f \in Fields : <<f, d.val[f]>> \in seen

LibOK == lib \in [data : Seq(Row) \cup {None}, error : BOOLEAN, recovery : BOOLEAN]
         /\ (lib.data # None => PastList(lib.data, tmpls))

\* A request that is under way: if the template is still at its revision, a save
\* has seen what it replaces and a publication showed what it publishes.
RequestOK(c, t) ==
  /\ c.kind \in Writes \cup {"list"}
  /\ c.kind = "save" =>
       /\ c.id \in Nat \cup {None} /\ c.rev \in Nat /\ c.val \in Vals
       /\ c.id # None => /\ c.id \in DOMAIN t /\ c.rev <= t[c.id].rev
                         /\ c.rev = t[c.id].rev => Knows(c.seen, t[c.id])
  /\ c.kind = "publish" =>
       /\ c.rev \in Nat /\ c.id \in DOMAIN t /\ c.rev <= t[c.id].rev
       /\ c.rev = t[c.id].rev => t[c.id].val["subject"] = c.shown
  /\ c.kind = "retire" => c.to \in BOOLEAN

\* What a lane waits for.
PacketOK(n, t) ==
  n # None =>
    /\ n = [cmd |-> n.cmd, answer |-> n.answer] /\ RequestOK(n.cmd, t)
    /\ n.answer # None => n.answer = [ok |-> n.answer.ok, data |-> n.answer.data]
                          /\ n.answer.ok \in BOOLEAN
    /\ n.answer # None /\ n.answer.ok /\ n.cmd.kind = "list" => PastList(n.answer.data, t)

\* The draft, and what has been put before the administrator.
SelOK(s, t) ==
  /\ s = [gen |-> s.gen, edit |-> s.edit, baseline |-> s.baseline, review |-> s.review,
          seen |-> s.seen]
  /\ s.gen \in Nat
  /\ s.edit # None =>
       /\ s.edit \in Draft /\ Knows(s.seen, s.edit)
       /\ s.edit.id # None => /\ s.edit.id \in DOMAIN t /\ s.edit.rev <= t[s.edit.id].rev
                              /\ s.edit.rev = t[s.edit.id].rev => Knows(s.seen, t[s.edit.id])
  /\ s.baseline # None => /\ s.baseline \in Draft
                          /\ same(s.edit, s.baseline) => Knows(s.seen, s.baseline)
\* A review knows the baseline, and what it shows is the present or a past.
ReviewOK(s, t) ==
  s.review # None =>
    /\ s.review = [id |-> s.review.id, rev |-> s.review.rev, baseline |-> s.review.baseline,
                   acknowledged |-> s.review.acknowledged, fresh |-> s.review.fresh,
                   error |-> s.review.error]
    /\ s.review.baseline \in Draft /\ Knows(s.seen, s.review.baseline)
    /\ s.review.fresh # None =>
         /\ s.review.fresh \in Draft /\ Past(s.review.fresh, t) /\ Knows(s.seen, s.review.fresh)
         /\ s.edit # None => s.edit.rev <= s.review.fresh.rev

\* A draft that was stored: what is typed since differs from it only there.
StoredOK(d, s, t) ==
  /\ d \in Draft /\ Past(d, t) /\ Knows(s.seen, d)
  /\ s.edit # None => same(s.edit, d)
AgreeAll(d, x, n) ==
  /\ x.data # None => Agree(x.data, d)
  /\ \A k \in Lanes : (n[k] # None /\ n[k].cmd.kind = "list" /\ n[k].answer # None /\ n[k].answer.ok)
                      => Agree(n[k].answer.data, d)

\* A save under way: the draft is its snapshot but for what was typed since.
SaveOK(r, s, n, t, x, m) ==
  /\ r = [publish |-> r.publish, snapshot |-> r.snapshot, started |-> r.started]
  /\ r.publish \in BOOLEAN /\ r.snapshot \in Draft /\ r.started \in Nat /\ r.started <= m
  /\ Knows(s.seen, r.snapshot)
  /\ s.edit # None =>
       /\ same(s.edit, r.snapshot)
       /\ s.edit.val["name"] \in {r.snapshot.val["name"], "mine "}
       /\ m = r.started => s.edit.val = r.snapshot.val
  /\ n["editor"] # None /\ n["editor"].cmd.kind = "save"
  /\ n["editor"].cmd.id = r.snapshot.id /\ n["editor"].cmd.rev = r.snapshot.rev
  /\ n["editor"].cmd.val = r.snapshot.val
  /\ (n["editor"].answer # None /\ n["editor"].answer.ok) =>
       LET d == n["editor"].answer.data IN
       /\ d \in Draft /\ Past(d, t) /\ r.snapshot.rev < d.rev /\ d.val = Trim(r.snapshot.val)
       /\ AgreeAll(d, x, n)

\* The draft was stored, and is not published yet.
StoredRun(r, s, t, x, n, m) ==
  /\ r = [publish |-> r.publish, started |-> r.started, saved |-> r.saved]
  /\ r.publish \in BOOLEAN /\ r.started \in Nat /\ r.started <= m
  /\ StoredOK(r.saved, s, t) /\ AgreeAll(r.saved, x, n)
  /\ m = r.started => s.edit # None /\ s.edit.val = r.saved.val

PublicationOK(p, s, t, x, n, m) ==
  /\ p = [saved |-> p.saved, edits |-> p.edits] /\ p.edits \in Nat /\ p.edits <= m
  /\ StoredOK(p.saved, s, t) /\ AgreeAll(p.saved, x, n)
  /\ m = p.edits /\ s.edit # None => s.edit.val = p.saved.val

EditorOK(e, s, t, x, n, m) ==
  /\ e.op \in {"idle", "save", "saved", "publish", "finish"}
  /\ e = IF e.op = "idle" THEN [op |-> e.op, publication |-> e.publication]
         ELSE [op |-> e.op, publication |-> e.publication, run |-> e.run]
  /\ e.op \in {"save", "saved", "publish"} => e.publication = None
  /\ e.op = "finish" => e.publication # None
  /\ e # Closed => s.review = None
  /\ e.op = "save" => SaveOK(e.run, s, n, t, x, m)
  /\ e.op \in {"saved", "publish"} => StoredRun(e.run, s, t, x, n, m)
  /\ e.op \in {"saved", "finish"} => n["editor"] # None /\ n["editor"].cmd.kind = "list"
  /\ e.op = "publish" => n["editor"] # None /\ n["editor"].cmd.kind = "publish"
  /\ e.publication # None => PublicationOK(e.publication, s, t, x, n, m)

\* A draft that is stored while the page retires a template is a later one than
\* the page remembers.
PageOK(g, s, e, n, m) ==
  /\ g.op \in {"idle", "retire", "reread", "retry", "revoke", "review"}
  /\ g.op \in {"idle", "retry"} => g = [op |-> g.op]
  /\ g.op \in {"revoke", "review"} => g = [op |-> g.op, gen |-> g.gen]
  /\ g.op \in {"retire", "reread"} =>
       /\ g = [op |-> g.op, id |-> g.id, gen |-> g.gen, edit |-> g.edit, edits |-> g.edits]
       /\ g.gen \in Nat /\ g.gen <= s.gen /\ g.edits \in Nat /\ g.edits <= m
       /\ g.edit # None => g.edit \in Draft
       /\ (g.gen = s.gen /\ g.edit # None /\ s.edit # None) =>
            /\ g.edit.rev <= s.edit.rev
            /\ (e.op \in {"saved", "publish"} \/ e.publication # None) => g.edit.rev < s.edit.rev
       /\ e.op = "save" => g.edits <= e.run.started
  /\ g.op \in {"reread", "retry", "review"} => n["page"] # None /\ n["page"].cmd.kind = "list"
  /\ n["page"] # None => n["page"].cmd.kind \in {"list", "retire", "revoke"}

TInv ==
  /\ ServerOK(tmpls, versions) /\ LibOK
  /\ tab \in {"library", "editor", "versions"} /\ (editor # Closed => tab = "editor")
  /\ edits \in Nat /\ net = [k \in Lanes |-> net[k]]
  /\ \A k \in Lanes : PacketOK(net[k], tmpls)
  /\ \A c \in stray : RequestOK(c, tmpls)
  /\ SelOK(sel, tmpls) /\ ReviewOK(sel, tmpls)
  /\ EditorOK(editor, sel, tmpls, lib, net, edits)
  /\ PageOK(page, sel, editor, net, edits)

-----------------------------------------------------------------------------
(* The server.                                                             *)

\* Nothing that is compared with None is None.
LEMMA Apart ==
  ASSUME NoneApart
  PROVE  /\ \A a, b : [cmd |-> a, answer |-> b] # None
         /\ \A a, b : [ok |-> a, data |-> b] # None
         /\ \A a, b : [saved |-> a, edits |-> b] # None
         /\ \A a, b, c, d : [id |-> a, rev |-> b, val |-> c, retired |-> d] # None
         /\ \A a, b, c, d, e, f : [id |-> a, rev |-> b, baseline |-> c, acknowledged |-> d,
                                   fresh |-> e, error |-> f] # None
<1>1. ASSUME NEW r, NEW K, r = [k \in K |-> r[k]] PROVE r # None
  <2>1. r \in [K -> {r[k] : k \in K}]
    BY <1>1
  <2>. QED BY <2>1 DEF NoneApart
<1>2. ASSUME NEW a, NEW b PROVE [cmd |-> a, answer |-> b] # None
  <2>. DEFINE r == [cmd |-> a, answer |-> b]
  <2>1. r = [k \in {"cmd", "answer"} |-> r[k]]
    OBVIOUS
  <2>. QED BY <1>1, <2>1
<1>3. ASSUME NEW a, NEW b PROVE [ok |-> a, data |-> b] # None
  <2>. DEFINE r == [ok |-> a, data |-> b]
  <2>1. r = [k \in {"ok", "data"} |-> r[k]]
    OBVIOUS
  <2>. QED BY <1>1, <2>1
<1>4. ASSUME NEW a, NEW b PROVE [saved |-> a, edits |-> b] # None
  <2>. DEFINE r == [saved |-> a, edits |-> b]
  <2>1. r = [k \in {"saved", "edits"} |-> r[k]]
    OBVIOUS
  <2>. QED BY <1>1, <2>1
<1>5. ASSUME NEW a, NEW b, NEW c, NEW d PROVE [id |-> a, rev |-> b, val |-> c, retired |-> d] # None
  <2>. DEFINE r == [id |-> a, rev |-> b, val |-> c, retired |-> d]
  <2>1. r = [k \in {"id", "rev", "val", "retired"} |-> r[k]]
    OBVIOUS
  <2>. QED BY <1>1, <2>1
<1>6. ASSUME NEW a, NEW b, NEW c, NEW d, NEW e, NEW f
      PROVE  [id |-> a, rev |-> b, baseline |-> c, acknowledged |-> d, fresh |-> e, error |-> f] # None
  <2>. DEFINE r == [id |-> a, rev |-> b, baseline |-> c, acknowledged |-> d, fresh |-> e, error |-> f]
  <2>1. r = [k \in {"id", "rev", "baseline", "acknowledged", "fresh", "error"} |-> r[k]]
    OBVIOUS
  <2>. QED BY <1>1, <2>1
<1>. QED BY <1>2, <1>3, <1>4, <1>5, <1>6

\* The templates u come after t: a template that changed has a later revision.
Grows(t, u) ==
  /\ t \in Seq(Row) /\ u \in Seq(Row) /\ Len(t) <= Len(u)
  /\ \A id \in DOMAIN t : u[id] = t[id] \/ t[id].rev < u[id].rev

\* A template of a larger library is the same, or has a later revision.
LEMMA GrowFacts ==
  ASSUME NEW t, NEW u, Grows(t, u)
  PROVE  /\ DOMAIN t \subseteq DOMAIN u /\ DOMAIN t \subseteq Nat
         /\ \A id \in DOMAIN t : t[id].rev \in Nat /\ u[id].rev \in Nat /\ t[id].rev <= u[id].rev
         /\ \A id \in DOMAIN t : t[id].rev = u[id].rev => t[id] = u[id]
<1>1. DOMAIN t = 1..Len(t) /\ DOMAIN u = 1..Len(u) /\ Len(t) \in Nat /\ Len(u) \in Nat
  BY DEF Grows
<1>2. \A id \in DOMAIN t : t[id] \in Row
  BY DEF Grows
<1>3. \A id \in DOMAIN t : u[id] \in Row
  BY <1>1 DEF Grows
<1>4. \A id \in DOMAIN t : t[id].rev \in Nat /\ u[id].rev \in Nat
  BY <1>2, <1>3 DEF Row
<1>. QED BY <1>1, <1>4 DEF Grows

\* What was read from the templates is a past of later ones.
LEMMA GrowPast ==
  ASSUME NEW t, NEW u, Grows(t, u)
  PROVE  /\ \A d : Past(d, t) => Past(d, u)
         /\ \A x : PastList(x, t) => PastList(x, u)
         /\ \A c : RequestOK(c, t) => RequestOK(c, u)
         /\ \A n : PacketOK(n, t) => PacketOK(n, u)
<1>1. ASSUME NEW d, Past(d, t) PROVE Past(d, u)
  BY <1>1, GrowFacts DEF Past
<1>2. ASSUME NEW x, PastList(x, t) PROVE PastList(x, u)
  BY <1>1, <1>2 DEF PastList
<1>3. ASSUME NEW c, RequestOK(c, t) PROVE RequestOK(c, u)
  <2>1. ASSUME c.id \in DOMAIN t, c.rev \in Nat, c.rev <= t[c.id].rev
        PROVE  /\ c.id \in DOMAIN u /\ c.rev <= u[c.id].rev
               /\ c.rev = u[c.id].rev => u[c.id] = t[c.id] /\ c.rev = t[c.id].rev
    BY <2>1, GrowFacts
  <2>2. ASSUME c.kind = "save", c.id # None
        PROVE  /\ c.id \in DOMAIN u /\ c.rev <= u[c.id].rev
               /\ c.rev = u[c.id].rev => Knows(c.seen, u[c.id])
    BY <1>3, <2>1, <2>2 DEF RequestOK
  <2>3. ASSUME c.kind = "publish"
        PROVE  /\ c.id \in DOMAIN u /\ c.rev <= u[c.id].rev
               /\ c.rev = u[c.id].rev => u[c.id].val["subject"] = c.shown
    BY <1>3, <2>1, <2>3 DEF RequestOK
  <2>. QED BY <1>3, <2>2, <2>3 DEF RequestOK
<1>4. ASSUME NEW n, PacketOK(n, t) PROVE PacketOK(n, u)
  BY <1>2, <1>3, <1>4 DEF PacketOK
<1>. QED BY <1>1, <1>2, <1>3, <1>4

\* What the draft and the review rest on survives what the server writes.
LEMMA GrowDraft ==
  ASSUME NEW t, NEW u, Grows(t, u), None \notin Int
  PROVE  /\ \A s : SelOK(s, t) => SelOK(s, u)
         /\ \A s : ReviewOK(s, t) => ReviewOK(s, u)
         /\ \A d, s : StoredOK(d, s, t) => StoredOK(d, s, u)
<1>1. ASSUME NEW s, SelOK(s, t) PROVE SelOK(s, u)
  <2>1. ASSUME s.edit # None, s.edit.id # None
        PROVE  /\ s.edit.id \in DOMAIN u /\ s.edit.rev <= u[s.edit.id].rev
               /\ s.edit.rev = u[s.edit.id].rev => Knows(s.seen, u[s.edit.id])
    <3>1. s.edit.rev \in Nat
      BY <1>1, <2>1 DEF SelOK, Draft
    <3>2. /\ s.edit.id \in DOMAIN t /\ s.edit.rev <= t[s.edit.id].rev
          /\ s.edit.rev = t[s.edit.id].rev => Knows(s.seen, t[s.edit.id])
      BY <1>1, <2>1 DEF SelOK
    <3>. QED BY <3>1, <3>2, GrowFacts
  <2>. QED BY <1>1, <2>1 DEF SelOK
<1>2. ASSUME NEW s, ReviewOK(s, t) PROVE ReviewOK(s, u)
  BY <1>2, GrowPast DEF ReviewOK
<1>3. ASSUME NEW d, NEW s, StoredOK(d, s, t) PROVE StoredOK(d, s, u)
  BY <1>3, GrowPast DEF StoredOK
<1>. QED BY <1>1, <1>2, <1>3

\* So does what the editor has stored.
LEMMA GrowEditor ==
  ASSUME NEW t, NEW u, Grows(t, u), None \notin Int
  PROVE  \A e, s, x, n, m : EditorOK(e, s, t, x, n, m) => EditorOK(e, s, u, x, n, m)
<1>. SUFFICES ASSUME NEW e, NEW s, NEW x, NEW n, NEW m, EditorOK(e, s, t, x, n, m)
              PROVE  EditorOK(e, s, u, x, n, m)
  OBVIOUS
<1>1. ASSUME SaveOK(e.run, s, n, t, x, m) PROVE SaveOK(e.run, s, n, u, x, m)
  BY <1>1, GrowPast DEF SaveOK
<1>2. ASSUME StoredRun(e.run, s, t, x, n, m) PROVE StoredRun(e.run, s, u, x, n, m)
  BY <1>2, GrowDraft DEF StoredRun
<1>3. ASSUME PublicationOK(e.publication, s, t, x, n, m) PROVE PublicationOK(e.publication, s, u, x, n, m)
  BY <1>3, GrowDraft DEF PublicationOK
<1>. QED BY <1>1, <1>2, <1>3 DEF EditorOK

-----------------------------------------------------------------------------
(* The server.                                                            *)

\* A sequence with one element replaced.
LEMMA SeqPut ==
  ASSUME NEW S, NEW x \in Seq(S), NEW i, NEW w, i \in DOMAIN x => w \in S
  PROVE  /\ [x EXCEPT ![i] = w] \in Seq(S) /\ Len([x EXCEPT ![i] = w]) = Len(x)
         /\ i \in DOMAIN x => x[i] \in S
<1>1. DOMAIN x = 1..Len(x) /\ Len(x) \in Nat /\ \A k \in 1..Len(x) : x[k] \in S
  OBVIOUS
<1>. DEFINE y == [x EXCEPT ![i] = w]
<1>2. y = [k \in 1..Len(x) |-> IF k = i THEN w ELSE x[k]]
  BY <1>1
<1>3. y \in Seq(S) /\ Len(y) = Len(x)
  <2>. HIDE DEF y
  <2>1. \A k \in 1..Len(x) : y[k] \in S
    BY <1>1, <1>2
  <2>. QED BY <1>1, <1>2, <2>1
<1>. QED BY <1>1, <1>3

\* A template whose row is replaced by a later one.
LEMMA BumpGrows ==
  ASSUME tmpls \in Seq(Row), NEW id \in DOMAIN tmpls, NEW r \in Row, r.rev = tmpls[id].rev, Bump(id, r)
  PROVE  /\ Grows(tmpls, tmpls') /\ tmpls'[id] = [rev |-> r.rev + 1, val |-> r.val, retired |-> r.retired]
         /\ \A k \in DOMAIN tmpls : k # id => tmpls'[k] = tmpls[k]
<1>. DEFINE q == [rev |-> r.rev + 1, val |-> r.val, retired |-> r.retired]
<1>1. r = [rev |-> r.rev, val |-> r.val, retired |-> r.retired] /\ q \in Row
  BY DEF Row
<1>2. [r EXCEPT !.rev = @ + 1] = q
  BY <1>1
<1>3. tmpls' = [tmpls EXCEPT ![id] = q]
  BY <1>2 DEF Bump
<1>4. DOMAIN tmpls = 1..Len(tmpls) /\ Len(tmpls) \in Nat
  OBVIOUS
<1>5. tmpls' \in Seq(Row) /\ Len(tmpls') = Len(tmpls)
  BY <1>1, <1>3
<1>6. tmpls[id].rev \in Nat
  BY DEF Row
<1>7. tmpls'[id] = q /\ \A k \in DOMAIN tmpls : k # id => tmpls'[k] = tmpls[k]
  BY <1>3
<1>8. q.rev = tmpls[id].rev + 1
  OBVIOUS
<1>. QED BY <1>4, <1>5, <1>6, <1>7, <1>8 DEF Grows

\* Trimming a value gives a value.
LEMMA TrimKeeps ==
  ASSUME NEW v \in Vals
  PROVE  Trim(v) \in Vals /\ Trim(v)["subject"] = v["subject"]
         /\ Trim(v)["name"] = IF v["name"] = "mine " THEN "mine" ELSE v["name"]
  BY DEF Trim, Vals, Fields, Values

\* A template that is created changes no other.
LEMMA AppendGrows ==
  ASSUME tmpls \in Seq(Row), NEW r \in Row, tmpls' = Append(tmpls, r)
  PROVE  Grows(tmpls, tmpls') /\ Len(tmpls) + 1 \in DOMAIN tmpls' /\ tmpls'[Len(tmpls) + 1] = r
         /\ \A k \in DOMAIN tmpls : tmpls'[k] = tmpls[k]
<1>1. DOMAIN tmpls = 1..Len(tmpls) /\ Len(tmpls) \in Nat
  OBVIOUS
<1>2. tmpls' \in Seq(Row) /\ Len(tmpls') = Len(tmpls) + 1
  OBVIOUS
<1>3. DOMAIN tmpls' = 1..(Len(tmpls) + 1)
  BY <1>2
<1>4. \A k \in DOMAIN tmpls : tmpls'[k] = tmpls[k]
  BY <1>1
<1>5. tmpls'[Len(tmpls) + 1] = r
  BY <1>1
<1>. QED BY <1>1, <1>2, <1>3, <1>4, <1>5 DEF Grows

\* What a saved template looks like.
LEMMA SaveServer ==
  ASSUME ServerOK(tmpls, versions), NEW c, RequestOK(c, tmpls), SaveMailTemplate(c), None \notin Int
  PROVE  /\ Grows(tmpls, tmpls') /\ ServerOK(tmpls', versions')
         /\ LET id == IF c.id = None THEN Len(tmpls) + 1 ELSE c.id IN
            /\ id \in DOMAIN tmpls' /\ c.rev < tmpls'[id].rev /\ tmpls'[id].val = Trim(c.val)
            /\ \A x : PastList(x, tmpls) => Agree(x, Template(id, tmpls'[id]))
            /\ \A k \in DOMAIN tmpls : k # id => tmpls'[k] = tmpls[k]
<1>1. /\ c.kind = "save" /\ c.rev \in Nat /\ c.val \in Vals /\ Trim(c.val) \in Vals
      /\ tmpls \in Seq(Row) /\ versions' = versions
  BY TrimKeeps DEF SaveMailTemplate, CanSave, RequestOK, ServerOK
<1>2. CASE c.id = None
  <2>. DEFINE r == [rev |-> 1, val |-> Trim(c.val), retired |-> FALSE]
  <2>1. c.rev = 0 /\ tmpls' = Append(tmpls, r)
    BY <1>2 DEF SaveMailTemplate, CanSave
  <2>2. r \in Row
    BY <1>1 DEF Row
  <2>3. Grows(tmpls, tmpls') /\ Len(tmpls) + 1 \in DOMAIN tmpls' /\ tmpls'[Len(tmpls) + 1] = r
        /\ \A k \in DOMAIN tmpls : tmpls'[k] = tmpls[k]
    BY <1>1, <2>1, <2>2, AppendGrows
  <2>4. ServerOK(tmpls', versions')
    BY <1>1, <2>3 DEF ServerOK, Grows
  <2>5. ASSUME NEW x, PastList(x, tmpls) PROVE Len(tmpls) + 1 \notin DOMAIN x
    <3>1. DOMAIN x \subseteq DOMAIN tmpls
      BY <2>5 DEF PastList, Past, Template
    <3>2. DOMAIN tmpls = 1..Len(tmpls) /\ Len(tmpls) \in Nat
      BY <1>1
    <3>. QED BY <3>1, <3>2
  <2>6. \A x : PastList(x, tmpls) => Agree(x, Template(Len(tmpls) + 1, tmpls'[Len(tmpls) + 1]))
    BY <2>5 DEF Agree, Has, Template
  <2>7. \A k \in DOMAIN tmpls : tmpls'[k] = tmpls[k]
    BY <2>3
  <2>8. LET row == tmpls'[Len(tmpls) + 1] IN c.rev < row.rev /\ row.val = Trim(c.val)
    BY <2>1, <2>3
  <2>. HIDE DEF r
  <2>. QED BY <1>2, <2>3, <2>4, <2>6, <2>7, <2>8
<1>3. CASE c.id # None
  <2>1. Current(c) /\ Bump(c.id, [tmpls[c.id] EXCEPT !.val = Trim(c.val)])
    BY <1>3 DEF SaveMailTemplate, CanSave
  <2>2. c.id \in DOMAIN tmpls /\ tmpls[c.id].rev = c.rev /\ tmpls[c.id] \in Row
    BY <1>1, <2>1 DEF Current
  <2>. DEFINE r == [tmpls[c.id] EXCEPT !.val = Trim(c.val)]
  <2>3. r \in Row /\ r.rev = tmpls[c.id].rev /\ r.val = Trim(c.val)
    BY <1>1, <2>2 DEF Row
  <2>4. Grows(tmpls, tmpls') /\ tmpls'[c.id].rev = c.rev + 1 /\ tmpls'[c.id].val = Trim(c.val)
        /\ \A k \in DOMAIN tmpls : k # c.id => tmpls'[k] = tmpls[k]
    <3>. HIDE DEF r
    <3>1. Bump(c.id, r)
      BY <2>1 DEF r
    <3>2. /\ Grows(tmpls, tmpls')
          /\ tmpls'[c.id] = [rev |-> r.rev + 1, val |-> r.val, retired |-> r.retired]
          /\ \A k \in DOMAIN tmpls : k # c.id => tmpls'[k] = tmpls[k]
      BY <1>1, <2>2, <2>3, <3>1, BumpGrows
    <3>. QED BY <2>2, <2>3, <3>2
  <2>5. ServerOK(tmpls', versions') /\ c.id \in DOMAIN tmpls'
    BY <1>1, <2>2, <2>4, GrowFacts DEF ServerOK, Grows
  <2>6. \A x : PastList(x, tmpls) => Agree(x, Template(c.id, tmpls'[c.id]))
    <3>1. ASSUME NEW x, PastList(x, tmpls), c.id \in DOMAIN x PROVE x[c.id].rev \in Nat /\ x[c.id].rev <= c.rev
      BY <2>2, <3>1 DEF PastList, Past, Template
    <3>. QED BY <1>1, <2>4, <3>1 DEF Agree, Has, Template
  <2>. QED BY <1>1, <1>3, <2>4, <2>5, <2>6
<1>. QED BY <1>2, <1>3

\* Every write makes later templates, and only a publication makes a version.
LEMMA EffectServer ==
  ASSUME ServerOK(tmpls, versions), NEW c, RequestOK(c, tmpls), Effect(c), None \notin Int
  PROVE  /\ Grows(tmpls, tmpls') /\ ServerOK(tmpls', versions')
         /\ Len(versions') > Len(versions) => /\ c.kind = "publish"
                                              /\ c.shown = versions'[Len(versions')].subject
<1>1. tmpls \in Seq(Row) /\ versions \in Seq([id : Nat, subject : Values, revoked : BOOLEAN])
      /\ DOMAIN tmpls = 1..Len(tmpls) /\ Len(versions) \in Nat
  BY DEF ServerOK
<1>2. CASE SaveMailTemplate(c)
  BY <1>1, <1>2, SaveServer DEF SaveMailTemplate
<1>3. CASE PublishMailTemplate(c)
  <2>1. /\ c.kind = "publish" /\ c.id \in DOMAIN tmpls /\ tmpls[c.id].rev = c.rev
        /\ Bump(c.id, tmpls[c.id]) /\ tmpls[c.id] \in Row
    BY <1>1, <1>3 DEF PublishMailTemplate, CanPublish, Current
  <2>. DEFINE v == [id |-> c.id, subject |-> tmpls[c.id].val["subject"], revoked |-> FALSE]
  <2>2. versions' = Append(versions, v)
    BY <1>3 DEF PublishMailTemplate
  <2>3. v \in [id : Nat, subject : Values, revoked : BOOLEAN]
    BY <1>1, <2>1 DEF Row, Vals, Fields
  <2>4. Grows(tmpls, tmpls')
    BY <1>1, <2>1, BumpGrows
  <2>5. /\ versions' \in Seq([id : Nat, subject : Values, revoked : BOOLEAN])
        /\ Len(versions') = Len(versions) + 1 /\ versions'[Len(versions) + 1] = v
    BY <1>1, <2>2, <2>3
  <2>6. c.shown = tmpls[c.id].val["subject"]
    BY <2>1 DEF RequestOK
  <2>. QED BY <1>1, <2>1, <2>4, <2>5, <2>6 DEF ServerOK, Grows
<1>4. CASE SetMailTemplateRetired(c)
  <2>1. /\ c.kind = "retire" /\ c.id \in DOMAIN tmpls /\ tmpls[c.id].rev = c.rev
        /\ Bump(c.id, [tmpls[c.id] EXCEPT !.retired = c.to]) /\ versions' = versions
        /\ tmpls[c.id] \in Row /\ c.to \in BOOLEAN
    BY <1>1, <1>4 DEF SetMailTemplateRetired, CanRetire, Current, RequestOK
  <2>. DEFINE r == [tmpls[c.id] EXCEPT !.retired = c.to]
  <2>2. r \in Row /\ r.rev = tmpls[c.id].rev
    BY <2>1 DEF Row
  <2>3. Grows(tmpls, tmpls')
    <3>. HIDE DEF r
    <3>1. Bump(c.id, r)
      BY <2>1 DEF r
    <3>. QED BY <1>1, <2>1, <2>2, <3>1, BumpGrows
  <2>. QED BY <1>1, <2>1, <2>3 DEF ServerOK, Grows
<1>5. CASE RevokeMailTemplateVersion(c)
  <2>1. CASE versions[c.version].revoked
    BY <1>1, <1>5, <2>1 DEF RevokeMailTemplateVersion, server, ServerOK, Grows
  <2>2. CASE ~versions[c.version].revoked
    <3>1. /\ c.id \in DOMAIN tmpls /\ Bump(c.id, tmpls[c.id]) /\ tmpls[c.id] \in Row
          /\ versions' = [versions EXCEPT ![c.version].revoked = TRUE]
      BY <1>1, <1>5, <2>2 DEF RevokeMailTemplateVersion, CanRevoke, Current
    <3>2. Grows(tmpls, tmpls')
      BY <1>1, <3>1, BumpGrows
    <3>3. versions' \in Seq([id : Nat, subject : Values, revoked : BOOLEAN]) /\ Len(versions') = Len(versions)
      <4>. DEFINE V == [id : Nat, subject : Values, revoked : BOOLEAN]
                  w == [versions[c.version] EXCEPT !.revoked = TRUE]
      <4>1. versions' = [versions EXCEPT ![c.version] = w]
        BY <3>1
      <4>2. versions \in Seq(V)
        BY <1>1
      <4>3. ASSUME c.version \in DOMAIN versions PROVE w \in V
        <5>1. versions[c.version] \in V
          <6>. HIDE DEF V
          <6>. QED BY <4>2, <4>3, SeqPut
        <5>2. PICK q \in V : q = versions[c.version]
          BY <5>1
        <5>3. [q EXCEPT !.revoked = TRUE] \in V
          BY <5>2
        <5>. QED BY <5>2, <5>3
      <4>. HIDE DEF V, w
      <4>4. versions' \in Seq(V) /\ Len(versions') = Len(versions)
        BY <4>1, <4>2, <4>3, SeqPut
      <4>. QED BY <4>4 DEF V
    <3>. QED BY <1>1, <3>2, <3>3 DEF ServerOK, Grows
  <2>. QED BY <2>1, <2>2
<1>. QED BY <1>2, <1>3, <1>4, <1>5 DEF Effect

-----------------------------------------------------------------------------
(* Answers.                                                               *)

\* The lane l of n gets the answer a.
Answers(n, l, a, u) ==
  /\ n = [k \in Lanes |-> n[k]] /\ l \in Lanes /\ n[l] # None
  /\ n[l] = [cmd |-> n[l].cmd, answer |-> n[l].answer] /\ n[l].answer = None
  /\ u = [n EXCEPT ![l].answer = a]

\* An answer changes no request, and no other lane.
LEMMA AnswerLanes ==
  ASSUME NEW n, NEW l, NEW a, NEW u, Answers(n, l, a, u)
  PROVE  /\ u = [k \in Lanes |-> u[k]] /\ u[l] = [cmd |-> n[l].cmd, answer |-> a]
         /\ \A k \in Lanes : k # l => u[k] = n[k]
<1>1. PICK p : p = n[l]
  OBVIOUS
<1>2. [p EXCEPT !.answer = a] = [cmd |-> p.cmd, answer |-> a]
  BY <1>1 DEF Answers
<1>3. u = [n EXCEPT ![l] = [cmd |-> p.cmd, answer |-> a]]
  BY <1>1, <1>2 DEF Answers
<1>. QED BY <1>1, <1>3 DEF Answers

\* An answer that agrees with a stored draft leaves every list in agreement with it.
LEMMA AnswerAgrees ==
  ASSUME NoneApart, NEW n, NEW l, NEW a, NEW u, Answers(n, l, a, u), NEW t, NEW x, NEW d, Past(d, t),
         n[l].cmd.kind = "list" /\ a.ok => a.data = t, AgreeAll(d, x, n)
  PROVE  AgreeAll(d, x, u)
<1>1. Agree(t, d)
  BY DEF Past, Agree, Has
<1>2. u[l] = [cmd |-> n[l].cmd, answer |-> a] /\ \A k \in Lanes : k # l => u[k] = n[k]
  BY AnswerLanes
<1>3. ASSUME NEW k \in Lanes, u[k] # None, u[k].cmd.kind = "list", u[k].answer # None, u[k].answer.ok
      PROVE  Agree(u[k].answer.data, d)
  <2>1. CASE k = l
    BY <1>1, <1>2, <1>3, <2>1
  <2>2. CASE k # l
    BY <1>2, <1>3, <2>2 DEF AgreeAll
  <2>. QED BY <2>1, <2>2
<1>. QED BY <1>3 DEF AgreeAll

\* What the server says of a save it carried out.
SavedData(d, c, t, x, n) ==
  /\ d \in Draft /\ Past(d, t) /\ c.rev < d.rev /\ d.val = Trim(c.val) /\ AgreeAll(d, x, n)

\* The editor's action gets its answer.
LEMMA EditorAnswered ==
  ASSUME NoneApart, NEW n, NEW l, NEW a, NEW u, Answers(n, l, a, u), NEW t, NEW x, NEW e, NEW s, NEW m,
         n[l].cmd.kind = "list" /\ a.ok => a.data = t,
         n[l].cmd.kind = "save" /\ a.ok => SavedData(a.data, n[l].cmd, t, x, n),
         EditorOK(e, s, t, x, n, m)
  PROVE  EditorOK(e, s, t, x, u, m)
<1>1. u[l] = [cmd |-> n[l].cmd, answer |-> a] /\ u[l] # None /\ \A k \in Lanes : k # l => u[k] = n[k]
  BY AnswerLanes, Apart
<1>2. \A k \in Lanes : n[k] # None => u[k] # None /\ u[k].cmd = n[k].cmd
  BY <1>1
<1>3. \A d : Past(d, t) /\ AgreeAll(d, x, n) => AgreeAll(d, x, u)
  BY AnswerAgrees
<1>4. "editor" \in Lanes /\ l \in Lanes
  BY DEF Lanes, Answers
<1>5. ASSUME SaveOK(e.run, s, n, t, x, m) PROVE SaveOK(e.run, s, u, t, x, m)
  <2>1. /\ u["editor"] # None /\ u["editor"].cmd.kind = "save"
        /\ u["editor"].cmd.id = e.run.snapshot.id /\ u["editor"].cmd.rev = e.run.snapshot.rev
        /\ u["editor"].cmd.val = e.run.snapshot.val
    BY <1>2, <1>4, <1>5 DEF SaveOK
  <2>2. ASSUME u["editor"].answer # None, u["editor"].answer.ok
        PROVE  LET d == u["editor"].answer.data IN
               /\ d \in Draft /\ Past(d, t) /\ e.run.snapshot.rev < d.rev
               /\ d.val = Trim(e.run.snapshot.val) /\ AgreeAll(d, x, u)
    <3>1. CASE l = "editor"
      <4>1. a.ok /\ a.data = u["editor"].answer.data /\ n[l].cmd.kind = "save"
            /\ n[l].cmd.rev = e.run.snapshot.rev /\ n[l].cmd.val = e.run.snapshot.val
        <5>1. u["editor"].answer = a
          BY <1>1, <3>1
        <5>2. n["editor"].cmd.kind = "save" /\ n["editor"].cmd.rev = e.run.snapshot.rev
              /\ n["editor"].cmd.val = e.run.snapshot.val
          BY <1>5 DEF SaveOK
        <5>. QED BY <2>2, <3>1, <5>1, <5>2
      <4>. QED BY <1>3, <4>1 DEF SavedData
    <3>2. CASE l # "editor"
      <4>1. u["editor"] = n["editor"]
        BY <1>1, <1>4, <3>2
      <4>. QED BY <1>3, <1>5, <2>2, <4>1 DEF SaveOK
    <3>. QED BY <3>1, <3>2
  <2>. QED BY <1>5, <2>1, <2>2 DEF SaveOK
<1>6. ASSUME StoredRun(e.run, s, t, x, n, m) PROVE StoredRun(e.run, s, t, x, u, m)
  BY <1>3, <1>6 DEF StoredRun, StoredOK
<1>7. ASSUME PublicationOK(e.publication, s, t, x, n, m) PROVE PublicationOK(e.publication, s, t, x, u, m)
  BY <1>3, <1>7 DEF PublicationOK, StoredOK
<1>8. e.op \in {"saved", "finish"} => u["editor"] # None /\ u["editor"].cmd.kind = "list"
  BY <1>2, <1>4 DEF EditorOK
<1>9. e.op = "publish" => u["editor"] # None /\ u["editor"].cmd.kind = "publish"
  BY <1>2, <1>4 DEF EditorOK
<1>. QED BY <1>5, <1>6, <1>7, <1>8, <1>9 DEF EditorOK

\* The page's action gets its answer.
LEMMA PageAnswered ==
  ASSUME NoneApart, NEW n, NEW l, NEW a, NEW u, Answers(n, l, a, u), NEW g, NEW s, NEW e, NEW m,
         PageOK(g, s, e, n, m)
  PROVE  PageOK(g, s, e, u, m)
<1>1. u[l] = [cmd |-> n[l].cmd, answer |-> a] /\ u[l] # None /\ \A k \in Lanes : k # l => u[k] = n[k]
  BY AnswerLanes, Apart
<1>2. "page" \in Lanes /\ l \in Lanes /\ n[l] # None
  BY DEF Lanes, Answers
<1>3. /\ n["page"] # None => u["page"] # None /\ u["page"].cmd = n["page"].cmd
      /\ u["page"] # None => n["page"] # None /\ u["page"].cmd = n["page"].cmd
  <2>1. CASE l = "page"
    BY <1>1, <1>2, <2>1
  <2>2. CASE l # "page"
    BY <1>1, <1>2, <2>2
  <2>. QED BY <2>1, <2>2
<1>. QED BY <1>3 DEF PageOK

\* A step of the server: its templates grow, a request may be answered, and the
\* page and the editor do nothing.
LEMMA ServerKeeps ==
  ASSUME TInv, NoneApart, Grows(tmpls, tmpls'), ServerOK(tmpls', versions'), UNCHANGED client,
         \A c \in stray' : RequestOK(c, tmpls),
         \/ net' = net
         \/ \E l \in Lanes : \E a :
                                /\ Unanswered(l) /\ Answer(l, a)
                                /\ a = [ok |-> a.ok, data |-> a.data] /\ a.ok \in BOOLEAN
                                /\ net[l].cmd.kind = "list" /\ a.ok => a.data = tmpls'
                                /\ net[l].cmd.kind = "save" /\ a.ok =>
                                     SavedData(a.data, net[l].cmd, tmpls', lib, net)
  PROVE  TInv'
<1>1. None \notin Int /\ lib' = lib /\ tab' = tab /\ sel' = sel /\ page' = page /\ editor' = editor
      /\ edits' = edits
  BY TemplateBounds DEF client
<1>2. /\ \A k \in Lanes : PacketOK(net[k], tmpls')
      /\ \A c \in stray' : RequestOK(c, tmpls')
      /\ SelOK(sel, tmpls') /\ ReviewOK(sel, tmpls') /\ EditorOK(editor, sel, tmpls', lib, net, edits)
      /\ lib \in [data : Seq(Row) \cup {None}, error : BOOLEAN, recovery : BOOLEAN]
      /\ lib.data # None => PastList(lib.data, tmpls')
  BY <1>1, GrowPast, GrowDraft, GrowEditor DEF TInv, LibOK
<1>3. LibOK'
  BY <1>1, <1>2 DEF LibOK
<1>4. CASE net' = net
  BY <1>1, <1>2, <1>3, <1>4 DEF TInv
<1>5. ASSUME NEW l \in Lanes, NEW a, Unanswered(l), Answer(l, a),
             a = [ok |-> a.ok, data |-> a.data], a.ok \in BOOLEAN,
             net[l].cmd.kind = "list" /\ a.ok => a.data = tmpls',
             net[l].cmd.kind = "save" /\ a.ok => SavedData(a.data, net[l].cmd, tmpls', lib, net)
      PROVE  TInv'
  <2>1. Answers(net, l, a, net')
    BY <1>2, <1>5 DEF Answers, Unanswered, Answer, TInv, PacketOK
  <2>0. net'[l] = [cmd |-> net[l].cmd, answer |-> a] /\ \A k \in Lanes : k # l => net'[k] = net[k]
    BY <2>1, AnswerLanes
  <2>2. EditorOK(editor, sel, tmpls', lib, net', edits)
    BY <1>2, <1>5, <2>1, EditorAnswered
  <2>3. PageOK(page, sel, editor, net', edits)
    BY <2>1, PageAnswered DEF TInv
  <2>4. ASSUME NEW k \in Lanes PROVE PacketOK(net'[k], tmpls')
    <3>1. CASE k # l
      <4>1. net'[k] = net[k]
        BY <2>0, <3>1
      <4>. QED BY <1>2, <4>1
    <3>2. CASE k = l
      <4>1. net'[l] = [cmd |-> net[l].cmd, answer |-> a] /\ RequestOK(net[l].cmd, tmpls')
        <5>1. net'[l] = [cmd |-> net[l].cmd, answer |-> a]
          BY <2>0
        <5>2. PacketOK(net[l], tmpls') /\ net[l] # None
          BY <1>2, <1>5 DEF Unanswered
        <5>. QED BY <5>1, <5>2 DEF PacketOK
      <4>2. PastList(tmpls', tmpls')
        <5>1. tmpls' \in Seq(Row) /\ DOMAIN tmpls' = 1..Len(tmpls')
          BY DEF Grows
        <5>2. \A id \in DOMAIN tmpls' : tmpls'[id] \in Row
          BY <5>1
        <5>. QED BY <5>1, <5>2 DEF PastList, Past, Template, Row
      <4>. QED BY <1>5, <3>2, <4>1, <4>2 DEF PacketOK
    <3>. QED BY <3>1, <3>2
  <2>5. net' = [k \in Lanes |-> net'[k]]
    BY <2>1, AnswerLanes
  <2>. QED BY <1>1, <1>2, <1>3, <2>2, <2>3, <2>4, <2>5 DEF TInv
<1>. QED BY <1>4, <1>5

\* The server answers.
LEMMA ServeStep == ASSUME TInv, NoneApart, NEW l \in Lanes, Serve(l) PROVE TInv'
<1>. DEFINE c == net[l].cmd
<1>1. None \notin Int /\ RequestOK(c, tmpls) /\ ServerOK(tmpls, versions) /\ UNCHANGED client /\ stray' = stray
      /\ Unanswered(l) /\ Grows(tmpls, tmpls)
  <2>1. Unanswered(l) /\ net[l] # None
    BY DEF Serve, Unanswered
  <2>2. PacketOK(net[l], tmpls) /\ ServerOK(tmpls, versions)
    BY DEF TInv
  <2>3. RequestOK(c, tmpls)
    BY <2>1, <2>2 DEF PacketOK
  <2>4. Grows(tmpls, tmpls)
    BY <2>2 DEF ServerOK, Grows
  <2>. QED BY <2>1, <2>2, <2>3, <2>4, TemplateBounds DEF Serve
<1>2. \A k \in stray : RequestOK(k, tmpls)
  BY DEF TInv
<1>3. CASE c.kind = "list" /\ Answer(l, Yes(tmpls)) /\ UNCHANGED server
  <2>1. Yes(tmpls).ok = TRUE /\ Yes(tmpls).data = tmpls /\ Yes(tmpls) = [ok |-> Yes(tmpls).ok, data |-> Yes(tmpls).data]
    BY DEF Yes
  <2>. QED BY <1>1, <1>2, <1>3, <2>1, ServerKeeps DEF server
<1>4. CASE c.kind \in Writes /\ ~Accepts(c) /\ Answer(l, No) /\ UNCHANGED server
  <2>1. No.ok = FALSE /\ No = [ok |-> No.ok, data |-> No.data]
    BY DEF No
  <2>. QED BY <1>1, <1>2, <1>4, <2>1, ServerKeeps DEF server
<1>5. CASE c.kind \in Writes /\ Effect(c) /\ Answer(l, Reply(c))
  <2>1. Grows(tmpls, tmpls') /\ ServerOK(tmpls', versions')
    BY <1>1, <1>5, EffectServer
  <2>2. ASSUME c.kind = "save" PROVE SavedData(Reply(c).data, c, tmpls', lib, net) /\ Reply(c) = [ok |-> TRUE, data |-> Reply(c).data]
    <3>1. SaveMailTemplate(c)
      BY <1>5, <2>2 DEF Effect, PublishMailTemplate, CanPublish, SetMailTemplateRetired, CanRetire,
                        RevokeMailTemplateVersion, CanRevoke
    <3>. DEFINE id == IF c.id = None THEN Len(tmpls) + 1 ELSE c.id
                d == Template(id, tmpls'[id])
    <3>2. /\ id \in DOMAIN tmpls' /\ c.rev < tmpls'[id].rev /\ tmpls'[id].val = Trim(c.val)
          /\ \A x : PastList(x, tmpls) => Agree(x, d)
      BY <1>1, <3>1, SaveServer
    <3>3. Reply(c) = [ok |-> TRUE, data |-> d]
      BY <2>2 DEF Reply, Yes
    <3>4. tmpls' \in Seq(Row) /\ DOMAIN tmpls' = 1..Len(tmpls') /\ Len(tmpls') \in Nat
      BY <2>1 DEF Grows
    <3>5. tmpls'[id] \in Row /\ id \in Nat
      <4>. HIDE DEF id
      <4>. QED BY <3>2, <3>4
    <3>. HIDE DEF id
    <3>6. d \in Draft /\ Past(d, tmpls') /\ c.rev < d.rev /\ d.val = Trim(c.val)
      BY <3>2, <3>5 DEF Draft, Row, Past, Template
    <3>7. AgreeAll(d, lib, net)
      <4>1. lib.data # None => PastList(lib.data, tmpls)
        BY DEF TInv, LibOK
      <4>2. ASSUME NEW k \in Lanes, net[k] # None, net[k].cmd.kind = "list", net[k].answer # None, net[k].answer.ok
            PROVE  PastList(net[k].answer.data, tmpls)
        BY <4>2 DEF TInv, PacketOK
      <4>. QED BY <3>2, <4>1, <4>2 DEF AgreeAll
    <3>. QED BY <3>3, <3>6, <3>7 DEF SavedData
  <2>3. c.kind # "save" => Reply(c) = [ok |-> TRUE, data |-> None]
    BY DEF Reply, Yes
  <2>4. Reply(c) = [ok |-> Reply(c).ok, data |-> Reply(c).data] /\ Reply(c).ok = TRUE
    BY <2>2, <2>3
  <2>. QED BY <1>1, <1>2, <1>5, <2>1, <2>2, <2>4, ServerKeeps DEF Writes
<1>. QED BY <1>3, <1>4, <1>5 DEF Serve

\* The answer is lost, with the request carried out or not.
LEMMA LoseStep == ASSUME TInv, NoneApart, NEW l \in Lanes, Lose(l) PROVE TInv'
<1>. DEFINE c == net[l].cmd
<1>1. None \notin Int /\ RequestOK(c, tmpls) /\ ServerOK(tmpls, versions) /\ UNCHANGED client
      /\ Unanswered(l) /\ Answer(l, No) /\ Grows(tmpls, tmpls)
  <2>1. Unanswered(l) /\ net[l] # None
    BY DEF Lose, Unanswered
  <2>2. PacketOK(net[l], tmpls) /\ ServerOK(tmpls, versions)
    BY DEF TInv
  <2>3. RequestOK(c, tmpls)
    BY <2>1, <2>2 DEF PacketOK
  <2>4. Grows(tmpls, tmpls)
    BY <2>2 DEF ServerOK, Grows
  <2>. QED BY <2>1, <2>2, <2>3, <2>4, TemplateBounds DEF Lose
<1>2. \A k \in stray : RequestOK(k, tmpls)
  BY DEF TInv
<1>3. No.ok = FALSE /\ No = [ok |-> No.ok, data |-> No.data]
  BY DEF No
<1>4. Grows(tmpls, tmpls') /\ ServerOK(tmpls', versions')
  <2>1. CASE UNCHANGED server
    BY <1>1, <2>1 DEF server
  <2>2. CASE Effect(c)
    BY <1>1, <2>2, EffectServer
  <2>. QED BY <2>1, <2>2 DEF Lose, server
<1>5. \A k \in stray' : RequestOK(k, tmpls)
  BY <1>1, <1>2 DEF Lose
<1>. QED BY <1>1, <1>3, <1>4, <1>5, ServerKeeps

\* A request is carried out whose caller is gone.
LEMMA StrayStep == ASSUME TInv, NoneApart, ServeStray PROVE TInv'
<1>1. PICK c \in stray : stray' = stray \ {c} /\ IF Accepts(c) THEN Effect(c) ELSE UNCHANGED server
  BY DEF ServeStray
<1>2. None \notin Int /\ ServerOK(tmpls, versions) /\ UNCHANGED client /\ net' = net /\ Grows(tmpls, tmpls)
      /\ \A k \in stray : RequestOK(k, tmpls)
  BY TemplateBounds DEF TInv, ServeStray, ServerOK, Grows
<1>3. Grows(tmpls, tmpls') /\ ServerOK(tmpls', versions')
  <2>1. CASE Effect(c)
    BY <1>2, <2>1, EffectServer
  <2>2. CASE UNCHANGED server
    BY <1>2, <2>2 DEF server
  <2>. QED BY <1>1, <2>1, <2>2
<1>. QED BY <1>1, <1>2, <1>3, ServerKeeps

\* Another administrator changes a template.
LEMMA RivalStep == ASSUME TInv, NoneApart, Rival PROVE TInv'
<1>1. None \notin Int /\ ServerOK(tmpls, versions) /\ UNCHANGED client /\ net' = net /\ stray' = stray
      /\ (\A k \in stray : RequestOK(k, tmpls)) /\ tmpls \in Seq(Row) /\ DOMAIN tmpls = 1..Len(tmpls)
  BY TemplateBounds DEF TInv, Rival, ServerOK
<1>2. PICK id \in DOMAIN tmpls : LET t == tmpls[id] IN
     \/ \E f \in Fields : /\ t.val[f] # "theirs" /\ UNCHANGED versions
                          /\ Bump(id, [t EXCEPT !.val[f] = "theirs"])
     \/ PublishMailTemplate([kind |-> "publish", id |-> id, rev |-> t.rev])
     \/ Bump(id, [t EXCEPT !.retired = ~@]) /\ UNCHANGED versions
     \/ \E v \in DOMAIN versions :
          /\ versions[v].id = id /\ ~versions[v].revoked
          /\ RevokeMailTemplateVersion([kind |-> "revoke", id |-> id, rev |-> t.rev,
                                        version |-> v])
  BY DEF Rival
<1>3. PICK t \in Row : t = tmpls[id]
  BY <1>1
<1>4. ASSUME NEW r \in Row, r.rev = t.rev, Bump(id, r), UNCHANGED versions
      PROVE  Grows(tmpls, tmpls') /\ ServerOK(tmpls', versions')
  <2>1. Grows(tmpls, tmpls')
    BY <1>1, <1>3, <1>4, BumpGrows
  <2>. QED BY <1>1, <1>4, <2>1 DEF ServerOK, Grows
<1>5. ASSUME NEW f \in Fields, UNCHANGED versions, Bump(id, [t EXCEPT !.val[f] = "theirs"])
      PROVE  Grows(tmpls, tmpls') /\ ServerOK(tmpls', versions')
  <2>1. PICK v \in Vals : v = t.val
    BY DEF Row
  <2>2. [v EXCEPT ![f] = "theirs"] \in Vals
    BY DEF Vals, Values
  <2>3. [t EXCEPT !.val[f] = "theirs"] = [rev |-> t.rev, val |-> [v EXCEPT ![f] = "theirs"], retired |-> t.retired]
    BY <2>1 DEF Row
  <2>4. [t EXCEPT !.val[f] = "theirs"] \in Row /\ [t EXCEPT !.val[f] = "theirs"].rev = t.rev
    BY <2>2, <2>3 DEF Row
  <2>. QED BY <1>4, <1>5, <2>4
<1>6. ASSUME Bump(id, [t EXCEPT !.retired = ~@]), UNCHANGED versions
      PROVE  Grows(tmpls, tmpls') /\ ServerOK(tmpls', versions')
  <2>1. [t EXCEPT !.retired = ~@] \in Row /\ [t EXCEPT !.retired = ~@].rev = t.rev
    BY DEF Row
  <2>. QED BY <1>4, <1>6, <2>1
<1>7. ASSUME PublishMailTemplate([kind |-> "publish", id |-> id, rev |-> t.rev])
      PROVE  Grows(tmpls, tmpls') /\ ServerOK(tmpls', versions')
  <2>. DEFINE c == [kind |-> "publish", id |-> id, rev |-> t.rev, shown |-> t.val["subject"]]
  <2>1. RequestOK(c, tmpls)
    BY <1>3 DEF RequestOK, Writes, Row
  <2>2. PublishMailTemplate(c)
    BY <1>7 DEF PublishMailTemplate, CanPublish, Current
  <2>. QED BY <1>1, <2>1, <2>2, EffectServer DEF Effect
<1>8. ASSUME NEW v, RevokeMailTemplateVersion([kind |-> "revoke", id |-> id, rev |-> t.rev, version |-> v])
      PROVE  Grows(tmpls, tmpls') /\ ServerOK(tmpls', versions')
  <2>. DEFINE c == [kind |-> "revoke", id |-> id, rev |-> t.rev, version |-> v]
  <2>1. RequestOK(c, tmpls)
    BY DEF RequestOK, Writes
  <2>. QED BY <1>1, <1>8, <2>1, EffectServer DEF Effect
<1>9. Grows(tmpls, tmpls') /\ ServerOK(tmpls', versions')
  BY <1>2, <1>3, <1>5, <1>6, <1>7, <1>8
<1>. QED BY <1>1, <1>9, ServerKeeps

-----------------------------------------------------------------------------
(* The selection.                                                         *)

\* Knowing more is no loss.
LEMMA KnowsMore ==
  ASSUME NEW a, NEW b, a \subseteq b PROVE \A d : Knows(a, d) => Knows(b, d)
  BY DEF Knows

SelRecord(s) ==
  s = [gen |-> s.gen, edit |-> s.edit, baseline |-> s.baseline, review |-> s.review, seen |-> s.seen]

\* What a selection puts before the administrator is remembered.
LEMMA CommitSel ==
  ASSUME NEW s, SelRecord(s), Commit(s)
  PROVE  /\ SelRecord(sel') /\ sel'.gen = s.gen /\ sel'.edit = s.edit /\ sel'.baseline = s.baseline
         /\ sel'.review = s.review /\ s.seen \subseteq sel'.seen
         /\ s.edit # None => Knows(sel'.seen, s.edit)
         /\ s.review # None /\ s.review.fresh # None => Knows(sel'.seen, s.review.fresh)
<1>. DEFINE more == s.seen \cup Pairs(s.edit) \cup
                    Pairs(IF s.review = None THEN None ELSE s.review.fresh)
<1>1. sel' = [s EXCEPT !.seen = more]
  BY DEF Commit
<1>2. sel' = [gen |-> s.gen, edit |-> s.edit, baseline |-> s.baseline, review |-> s.review, seen |-> more]
  <2>. HIDE DEF more
  <2>. QED BY <1>1 DEF SelRecord
<1>3. s.seen \subseteq more
  OBVIOUS
<1>4. s.edit # None => Knows(more, s.edit)
  BY DEF Pairs, Knows
<1>5. s.review # None /\ s.review.fresh # None => Knows(more, s.review.fresh)
  BY DEF Pairs, Knows
<1>. HIDE DEF more
<1>. QED BY <1>2, <1>3, <1>4, <1>5 DEF SelRecord

\* The same draft and review, with more seen.
SeesMore(s, r) ==
  /\ SelRecord(r) /\ r.gen = s.gen /\ r.edit = s.edit /\ r.baseline = s.baseline /\ s.seen \subseteq r.seen

\* Whatever is selected, what was seen stays seen.
LEMMA SelSeesMore ==
  ASSUME NEW s, NEW r, SeesMore(s, r), NEW t
  PROVE  /\ SelOK(s, t) => SelOK(r, t)
         /\ ReviewOK(s, t) /\ r.review = s.review => ReviewOK(r, t)
<1>1. \A d : Knows(s.seen, d) => Knows(r.seen, d)
  BY KnowsMore DEF SeesMore
<1>2. SelOK(s, t) => SelOK(r, t)
  BY <1>1 DEF SelOK, SeesMore, SelRecord
<1>3. ReviewOK(s, t) /\ r.review = s.review => ReviewOK(r, t)
  BY <1>1 DEF ReviewOK, SeesMore
<1>. QED BY <1>2, <1>3

\* A lane that is reset tells nothing.
Reset(n, L, u) ==
  /\ u = [k \in Lanes |-> u[k]]
  /\ \A k \in Lanes : IF k \in L THEN u[k] = None \/ u[k].answer = None ELSE u[k] = n[k]

\* A lane that is reset brings no list.
LEMMA ResetAgrees ==
  ASSUME NEW n, NEW L, NEW u, Reset(n, L, u)
  PROVE  \A d, x : AgreeAll(d, x, n) => AgreeAll(d, x, u)
  BY DEF Reset, AgreeAll

\* A request that sets out, and a lane that hangs up, reset the lane.
LEMMA SendResets ==
  ASSUME NoneApart, net = [k \in Lanes |-> net[k]], NEW l \in Lanes
  PROVE  /\ \A c : Send(l, c) => /\ Reset(net, {l}, net') /\ net'[l] = [cmd |-> c, answer |-> None]
                                 /\ net'[l] # None
         /\ Hang(l) => Reset(net, {l}, net') /\ net'[l] = None
         /\ \A L : Unmount(L) => Reset(net, L, net') /\ \A k \in Lanes \cap L : net'[k] = None
<1>1. ASSUME NEW c, Send(l, c)
      PROVE  Reset(net, {l}, net') /\ net'[l] = [cmd |-> c, answer |-> None] /\ net'[l] # None
  <2>1. net' = [net EXCEPT ![l] = [cmd |-> c, answer |-> None]] /\ [cmd |-> c, answer |-> None] # None
    BY <1>1, Apart DEF Send
  <2>. QED BY <2>1 DEF Reset
<1>2. Hang(l) => Reset(net, {l}, net') /\ net'[l] = None
  BY DEF Hang, Reset
<1>3. ASSUME NEW L, Unmount(L) PROVE Reset(net, L, net') /\ \A k \in Lanes \cap L : net'[k] = None
  BY <1>3 DEF Unmount, Reset
<1>. QED BY <1>1, <1>2, <1>3

\* The editor does not notice what the page does, nor what else is shown.
LEMMA EditorKeeps ==
  ASSUME NEW e, NEW s, NEW t, NEW x, NEW n, NEW m, EditorOK(e, s, t, x, n, m),
         NEW r, s.edit = r.edit, s.seen \subseteq r.seen, s.review = None => r.review = None,
         NEW y, NEW u, \A d : Past(d, t) /\ AgreeAll(d, x, n) => AgreeAll(d, y, u),
         u["editor"] = n["editor"]
  PROVE  EditorOK(e, r, t, y, u, m)
<1>1. \A d : Knows(s.seen, d) => Knows(r.seen, d)
  BY KnowsMore
<1>2. ASSUME SaveOK(e.run, s, n, t, x, m) PROVE SaveOK(e.run, r, u, t, y, m)
  <2>1. Knows(r.seen, e.run.snapshot)
    BY <1>1, <1>2 DEF SaveOK
  <2>2. (u["editor"].answer # None /\ u["editor"].answer.ok) =>
            LET d == u["editor"].answer.data IN
            /\ d \in Draft /\ Past(d, t) /\ e.run.snapshot.rev < d.rev /\ d.val = Trim(e.run.snapshot.val)
            /\ AgreeAll(d, y, u)
    BY <1>2 DEF SaveOK
  <2>. QED BY <1>2, <2>1, <2>2 DEF SaveOK
<1>3. \A d : StoredOK(d, s, t) => StoredOK(d, r, t)
  BY <1>1 DEF StoredOK
<1>4. ASSUME StoredRun(e.run, s, t, x, n, m) PROVE StoredRun(e.run, r, t, y, u, m)
  BY <1>3, <1>4 DEF StoredRun, StoredOK
<1>5. ASSUME PublicationOK(e.publication, s, t, x, n, m) PROVE PublicationOK(e.publication, r, t, y, u, m)
  BY <1>3, <1>5 DEF PublicationOK, StoredOK
<1>. QED BY <1>2, <1>4, <1>5 DEF EditorOK

\* An editor that is not mounted has nothing to keep.
LEMMA EditorClosed ==
  \A s, t, x, n, m : EditorOK(Closed, s, t, x, n, m)
  BY DEF EditorOK, Closed

\* The page does not notice a draft that only grows later.
LEMMA PageKeeps ==
  ASSUME NEW g, NEW s, NEW e, NEW n, NEW m, PageOK(g, s, e, n, m), NEW r, s.edit = r.edit, s.gen = r.gen,
         NEW u, u["page"] = n["page"], NEW f, f = e \/ f = Closed
  PROVE  PageOK(g, r, f, u, m)
<1>1. Closed.op = "idle" /\ Closed.publication = None
  BY DEF Closed
<1>. QED BY <1>1 DEF PageOK

\* A selection begins: what the page runs is of an earlier one.
LEMMA PageEarlier ==
  ASSUME NEW g, NEW s, NEW e, NEW n, NEW m, PageOK(g, s, e, n, m), NEW r, s.gen \in Nat, r.gen = s.gen + 1,
         NEW u, u["page"] = n["page"]
  PROVE  PageOK(g, r, Closed, u, m)
<1>1. Closed.op = "idle" /\ Closed.publication = None
  BY DEF Closed
<1>2. g.op \in {"retire", "reread"} => g.gen \in Nat /\ g.gen <= s.gen /\ g.gen # r.gen /\ g.gen <= r.gen
  BY DEF PageOK
<1>. QED BY <1>1, <1>2 DEF PageOK

\* A page without an action has nothing to keep.
LEMMA PageQuiet ==
  ASSUME NEW s, NEW e, NEW n, NEW m, n["page"] = None PROVE PageOK([op |-> "idle"], s, e, n, m)
  BY DEF PageOK

\* The library takes a list that was read.
LEMMA ListTaken ==
  ASSUME TInv, NEW a, a.ok => PastList(a.data, tmpls), Relist(a) \/ Reconfirm(a)
  PROVE  /\ lib' \in [data : Seq(Row) \cup {None}, error : BOOLEAN, recovery : BOOLEAN]
         /\ lib'.data # None => PastList(lib'.data, tmpls)
         /\ lib'.data = lib.data \/ (a.ok /\ lib'.data = a.data)
<1>1. lib \in [data : Seq(Row) \cup {None}, error : BOOLEAN, recovery : BOOLEAN]
      /\ (lib.data # None => PastList(lib.data, tmpls))
  BY DEF TInv, LibOK
<1>2. lib = [data |-> lib.data, error |-> lib.error, recovery |-> lib.recovery]
  BY <1>1
<1>3. a.ok => a.data \in Seq(Row)
  BY DEF PastList
<1>4. \/ lib' = [data |-> lib.data, error |-> TRUE, recovery |-> lib.recovery]
      \/ lib' = lib
      \/ a.ok /\ lib' = [data |-> a.data, error |-> FALSE, recovery |-> FALSE]
      \/ a.ok /\ lib' = [data |-> a.data, error |-> FALSE, recovery |-> lib.recovery]
  BY <1>1, <1>2 DEF Relist, Reconfirm
<1>5. CASE lib' = [data |-> lib.data, error |-> TRUE, recovery |-> lib.recovery]
  BY <1>1, <1>5
<1>6. CASE lib' = lib
  BY <1>1, <1>6
<1>7. CASE a.ok /\ \E b \in BOOLEAN : lib' = [data |-> a.data, error |-> FALSE, recovery |-> b]
  BY <1>3, <1>7
<1>. QED BY <1>1, <1>4, <1>5, <1>6, <1>7

\* What is still under way when a view goes.
LEMMA OrphansOK ==
  ASSUME TInv, NEW L \in SUBSET Lanes, Unmount(L) PROVE \A c \in stray' : RequestOK(c, tmpls)
<1>1. ASSUME NEW k \in Lanes, Unanswered(k) PROVE RequestOK(net[k].cmd, tmpls)
  BY <1>1 DEF TInv, PacketOK, Unanswered
<1>2. \A c \in Orphans(L) : RequestOK(c, tmpls)
  BY <1>1 DEF Orphans
<1>. QED BY <1>2 DEF Unmount, TInv

-----------------------------------------------------------------------------
(* Actions of the administrator.                                          *)

\* The templates of the moment are a list, and agree with every past.
LEMMA PresentList ==
  ASSUME ServerOK(tmpls, versions)
  PROVE  PastList(tmpls, tmpls) /\ \A d : Past(d, tmpls) => Agree(tmpls, d)
<1>1. tmpls \in Seq(Row) /\ DOMAIN tmpls = 1..Len(tmpls)
  BY DEF ServerOK
<1>2. \A id \in DOMAIN tmpls : tmpls[id] \in Row
  BY <1>1
<1>. QED BY <1>1, <1>2 DEF PastList, Past, Template, Row, Agree, Has

\* A template of a list that was read.
LEMMA ListedDraft ==
  ASSUME NEW x, NEW t, PastList(x, t), NEW id \in DOMAIN x
  PROVE  Template(id, x[id]) \in Draft /\ Past(Template(id, x[id]), t)
<1>1. x \in Seq(Row)
  BY DEF PastList
<1>2. id \in Nat /\ x[id] \in Row
  BY <1>1
<1>. QED BY <1>2 DEF PastList, Template, Draft, Row

\* The lanes after some were reset.
LEMMA ResetPackets ==
  ASSUME TInv, NoneApart, NEW L \in SUBSET Lanes, Reset(net, L, net'),
         \A k \in L : \/ net'[k] = None
                      \/ \E c : net'[k] = [cmd |-> c, answer |-> None] /\ RequestOK(c, tmpls)
  PROVE  net' = [k \in Lanes |-> net'[k]] /\ \A k \in Lanes : PacketOK(net'[k], tmpls)
<1>1. net' = [k \in Lanes |-> net'[k]]
  BY DEF Reset
<1>2. ASSUME NEW k \in Lanes, k \notin L PROVE PacketOK(net'[k], tmpls)
  <2>1. net'[k] = net[k] /\ PacketOK(net[k], tmpls)
    BY <1>2 DEF Reset, TInv
  <2>. QED BY <2>1
<1>3. ASSUME NEW k \in L PROVE PacketOK(net'[k], tmpls)
  <2>1. CASE net'[k] = None
    BY <2>1 DEF PacketOK
  <2>2. ASSUME NEW c, net'[k] = [cmd |-> c, answer |-> None], RequestOK(c, tmpls) PROVE PacketOK(net'[k], tmpls)
    <3>1. net'[k].cmd = c /\ net'[k].answer = None
      BY <2>2
    <3>. QED BY <2>2, <3>1 DEF PacketOK
  <2>. QED BY <1>3, <2>1, <2>2
<1>. QED BY <1>1, <1>2, <1>3

\* The parts of the invariant, before and after a step of the page or the editor.
LEMMA Parts ==
  ASSUME TInv
  PROVE  /\ None \notin Int /\ ServerOK(tmpls, versions) /\ edits \in Nat /\ SelRecord(sel) /\ sel.gen \in Nat
         /\ SelOK(sel, tmpls) /\ ReviewOK(sel, tmpls) /\ EditorOK(editor, sel, tmpls, lib, net, edits)
         /\ PageOK(page, sel, editor, net, edits) /\ net = [k \in Lanes |-> net[k]]
         /\ (\A k \in Lanes : PacketOK(net[k], tmpls)) /\ (\A c \in stray : RequestOK(c, tmpls))
         /\ LibOK /\ tab \in {"library", "editor", "versions"} /\ (editor # Closed => tab = "editor")
         /\ "page" \in Lanes /\ "editor" \in Lanes
  BY TemplateBounds DEF TInv, SelOK, SelRecord, Lanes

\* The invariant from its parts, when the server is left alone.
LEMMA Whole ==
  ASSUME TInv, Rest, edits' \in Nat, tab' \in {"library", "editor", "versions"},
         editor' # Closed => tab' = "editor", LibOK',
         net' = [k \in Lanes |-> net'[k]], \A k \in Lanes : PacketOK(net'[k], tmpls),
         \A c \in stray' : RequestOK(c, tmpls),
         SelOK(sel', tmpls), ReviewOK(sel', tmpls),
         EditorOK(editor', sel', tmpls, lib', net', edits'), PageOK(page', sel', editor', net', edits')
  PROVE  TInv'
<1>1. tmpls' = tmpls /\ versions' = versions
  BY DEF Rest, server
<1>. QED BY <1>1 DEF TInv

\* The library is read in the background.
LEMMA RevalidateStep == ASSUME TInv, NoneApart, Revalidate PROVE TInv'
<1>1. /\ Rest /\ tab = "library" /\ Relist(Yes(tmpls))
      /\ UNCHANGED <<tab, sel, page, editor, net, stray, edits>> /\ tmpls' = tmpls
  BY DEF Revalidate, Rest, server
<1>2. Yes(tmpls).ok /\ Yes(tmpls).data = tmpls
  BY DEF Yes
<1>3. LibOK'
  BY <1>1, <1>2, Parts, PresentList, ListTaken DEF LibOK
<1>4. editor = Closed
  BY <1>1, Parts
<1>. QED BY <1>1, <1>3, <1>4, Parts, EditorClosed, Whole

\* A tab is opened.
LEMMA SetTabStep == ASSUME TInv, NoneApart, NEW t \in {"library", "editor", "versions"}, setTab(t) PROVE TInv'
<1>1. /\ Rest /\ tab' = t /\ UNCHANGED <<lib, sel, page, edits>> /\ tmpls' = tmpls
  BY DEF setTab, Rest, server
<1>2. editor' = Closed
  BY Parts DEF setTab
<1>3. LibOK'
  BY <1>1, Parts DEF LibOK
<1>4. /\ net' = [k \in Lanes |-> net'[k]] /\ (\A k \in Lanes : PacketOK(net'[k], tmpls))
      /\ (\A c \in stray' : RequestOK(c, tmpls)) /\ net'["page"] = net["page"]
  <2>1. CASE UNCHANGED <<net, stray>>
    BY <2>1, Parts
  <2>2. CASE Unmount({"editor"})
    <3>1. Reset(net, {"editor"}, net') /\ net'["editor"] = None /\ net'["page"] = net["page"]
      BY <2>2, Parts, SendResets DEF Reset
    <3>2. \A c \in stray' : RequestOK(c, tmpls)
      BY <2>2, Parts, OrphansOK
    <3>. QED BY <3>1, <3>2, Parts, ResetPackets
  <2>. QED BY <2>1, <2>2 DEF setTab
<1>5. PageOK(page', sel', editor', net', edits')
  BY <1>1, <1>2, <1>4, Parts, PageKeeps
<1>. QED BY <1>1, <1>2, <1>3, <1>4, <1>5, Parts, EditorClosed, Whole

\* A selection of a draft that the library shows, or of a blank one.
LEMMA ReplaceStep ==
  ASSUME TInv, NoneApart, NEW t \in Draft, t.id # None => Past(t, tmpls), replaceEdit(t)
  PROVE  TInv'
<1>. DEFINE s == [gen |-> sel.gen + 1, edit |-> t, baseline |-> t, review |-> None, seen |-> {}]
<1>1. /\ Rest /\ tab' = "editor" /\ editor' = Closed /\ Unmount({"editor"}) /\ UNCHANGED <<lib, page, edits>>
      /\ tmpls' = tmpls
  BY DEF replaceEdit, Rest, server
<1>2. Commit(s)
  <2>1. PICK z : z = [NoSelection EXCEPT !.gen = sel.gen + 1, !.edit = t, !.baseline = t]
    OBVIOUS
  <2>2. z = s
    BY <2>1 DEF NoSelection
  <2>. QED BY <2>1, <2>2 DEF replaceEdit
<1>3. /\ sel'.gen = sel.gen + 1 /\ sel'.edit = t /\ sel'.baseline = t /\ sel'.review = None /\ SelRecord(sel')
      /\ t # None => Knows(sel'.seen, t)
  <2>1. SelRecord(s)
    BY DEF SelRecord
  <2>. QED BY <1>2, <2>1, CommitSel
<1>4. t.id # None => Knows(sel'.seen, tmpls[t.id]) \/ t.rev # tmpls[t.id].rev
  <2>1. t # None
    BY Apart DEF Draft
  <2>. QED BY <1>3, <2>1 DEF Past, Knows
<1>5. t # None
  BY Apart DEF Draft
<1>6. SelOK(sel', tmpls) /\ ReviewOK(sel', tmpls)
  BY <1>3, <1>4, <1>5, Parts DEF SelOK, ReviewOK, SelRecord, Past
<1>7. /\ net' = [k \in Lanes |-> net'[k]] /\ (\A k \in Lanes : PacketOK(net'[k], tmpls))
      /\ (\A c \in stray' : RequestOK(c, tmpls)) /\ net'["page"] = net["page"]
  <2>1. Reset(net, {"editor"}, net') /\ net'["editor"] = None /\ net'["page"] = net["page"]
    BY <1>1, Parts, SendResets DEF Reset
  <2>2. \A c \in stray' : RequestOK(c, tmpls)
    BY <1>1, Parts, OrphansOK
  <2>. QED BY <2>1, <2>2, Parts, ResetPackets
<1>8. PageOK(page', sel', editor', net', edits')
  BY <1>1, <1>3, <1>7, Parts, PageEarlier
<1>9. LibOK'
  BY <1>1, Parts DEF LibOK
<1>. QED BY <1>1, <1>6, <1>7, <1>8, <1>9, Parts, EditorClosed, Whole

\* A template is opened.
LEMMA SelectStep == ASSUME TInv, NoneApart, selectTemplate PROVE TInv'
<1>1. PICK id \in DOMAIN lib.data : replaceEdit(Template(id, lib.data[id]))
  BY DEF selectTemplate
<1>2. PastList(lib.data, tmpls)
  BY Parts DEF selectTemplate, libraryReady, LibOK
<1>3. Template(id, lib.data[id]) \in Draft /\ Past(Template(id, lib.data[id]), tmpls)
  BY <1>2, ListedDraft
<1>. QED BY <1>1, <1>3, ReplaceStep

\* A new template is begun.
LEMMA NewStep == ASSUME TInv, NoneApart, newTemplate PROVE TInv'
<1>1. Blank \in Draft /\ Blank.id = None
  <2>1. [name |-> "", subject |-> "base"] \in Vals
    <3>. DEFINE r == [name |-> "", subject |-> "base"]
    <3>1. r["name"] = "" /\ r["subject"] = "base" /\ r = [f \in {"name", "subject"} |-> r[f]]
      OBVIOUS
    <3>. HIDE DEF r
    <3>2. r \in Vals
      BY <3>1 DEF Vals, Fields, Values
    <3>. QED BY <3>2 DEF r
  <2>. QED BY <2>1 DEF Blank, Draft
<1>. QED BY <1>1, ReplaceStep DEF newTemplate

\* The page is left, and opened again.
LEMMA RemountStep == ASSUME TInv, NoneApart, Remount PROVE TInv'
<1>1. /\ Rest /\ tab' = "library" /\ editor' = Closed /\ Unmount(Lanes) /\ edits' = edits /\ page' = [op |-> "idle"]
      /\ lib' = [data |-> None, error |-> FALSE, recovery |-> FALSE]
      /\ sel' = [NoSelection EXCEPT !.gen = sel.gen + 1]
  BY DEF Remount
<1>2. sel' = [gen |-> sel.gen + 1, edit |-> None, baseline |-> None, review |-> None, seen |-> {}]
  BY <1>1 DEF NoSelection
<1>3. SelOK(sel', tmpls) /\ ReviewOK(sel', tmpls)
  BY <1>2, Parts DEF SelOK, ReviewOK
<1>4. /\ net' = [k \in Lanes |-> net'[k]] /\ (\A k \in Lanes : PacketOK(net'[k], tmpls))
      /\ (\A c \in stray' : RequestOK(c, tmpls)) /\ net'["page"] = None
  <2>1. Reset(net, Lanes, net') /\ \A k \in Lanes : net'[k] = None
    BY <1>1, Parts, SendResets
  <2>2. \A c \in stray' : RequestOK(c, tmpls)
    BY <1>1, OrphansOK
  <2>. QED BY <2>1, <2>2, Parts, ResetPackets
<1>5. PageOK(page', sel', editor', net', edits')
  BY <1>1, <1>4, PageQuiet
<1>6. LibOK'
  BY <1>1 DEF LibOK
<1>. QED BY <1>1, <1>3, <1>4, <1>5, <1>6, Parts, EditorClosed, Whole

\* The version history is read.
LEMMA ReadVersionsStep == ASSUME TInv, NoneApart, readVersions PROVE TInv'
<1>1. Rest /\ UNCHANGED <<lib, tab, sel, page, editor, net, stray, edits>> /\ tmpls' = tmpls
  BY DEF readVersions, Rest, server
<1>2. LibOK'
  BY <1>1, Parts DEF LibOK
<1>. QED BY <1>1, <1>2, Parts, Whole

\* What is typed is remembered as typed.
LEMMA UpdateStep == ASSUME TInv, NoneApart, NEW f \in Fields, update(f) PROVE TInv'
<1>1. /\ Rest /\ Showing /\ edits' = edits + 1 /\ UNCHANGED <<lib, tab, page, editor, net, stray>> /\ tmpls' = tmpls
  BY DEF update, Rest, server
<1>2. PICK v \in Typed[f] : Commit([sel EXCEPT !.edit.val[f] = v])
  BY DEF update
<1>3. v \in Values /\ (f = "name" => v = "mine ")
  <2>1. CASE f = "name"
    BY <1>2, <2>1 DEF Typed, Values
  <2>2. CASE f = "subject"
    BY <1>2, <2>2 DEF Typed, Values
  <2>. QED BY <2>1, <2>2 DEF Fields
<1>4. PICK d \in Draft : d = sel.edit
  BY <1>1, Parts DEF Showing, SelOK
<1>. DEFINE w == [id |-> d.id, rev |-> d.rev, val |-> [d.val EXCEPT ![f] = v], retired |-> d.retired]
            s == [gen |-> sel.gen, edit |-> w, baseline |-> sel.baseline, review |-> sel.review, seen |-> sel.seen]
<1>5. w \in Draft /\ w # None /\ w.id = d.id /\ w.rev = d.rev /\ (f # "name" => w.val["name"] = d.val["name"])
      /\ (f = "name" => w.val["name"] = "mine ") /\ d # None
  <2>1. d.val \in Vals
    BY DEF Draft
  <2>2. [d.val EXCEPT ![f] = v] \in Vals
    BY <1>3, <2>1 DEF Vals
  <2>. QED BY <1>1, <1>3, <1>4, <2>1, <2>2, Apart DEF Draft, Showing, Vals, Fields
<1>6. [sel EXCEPT !.edit.val[f] = v] = s
  BY <1>4, Parts DEF SelRecord, Draft
<1>. HIDE DEF w
<1>7. /\ SelRecord(sel') /\ sel'.gen = sel.gen /\ sel'.edit = w /\ sel'.baseline = sel.baseline
      /\ sel'.review = sel.review /\ sel.seen \subseteq sel'.seen /\ Knows(sel'.seen, w)
  <2>1. SelRecord(s) /\ Commit(s)
    BY <1>2, <1>6 DEF SelRecord
  <2>2. s.gen = sel.gen /\ s.edit = w /\ s.baseline = sel.baseline /\ s.review = sel.review /\ s.seen = sel.seen
    OBVIOUS
  <2>. HIDE DEF s
  <2>. QED BY <1>5, <2>1, <2>2, CommitSel
<1>8. \A c : Knows(sel.seen, c) => Knows(sel'.seen, c)
  BY <1>7, KnowsMore
<1>9. SelOK(sel', tmpls)
  <2>1. same(w, sel.baseline) => same(sel.edit, sel.baseline)
    BY <1>4, <1>5 DEF same
  <2>. QED BY <1>4, <1>5, <1>7, <1>8, <2>1, Parts DEF SelOK, SelRecord
<1>10. ReviewOK(sel', tmpls)
  BY <1>4, <1>5, <1>7, <1>8, Parts DEF ReviewOK
<1>11. EditorOK(editor, sel', tmpls, lib, net, edits + 1)
  <2>. DEFINE r == editor.run
  <2>1. \A c : same(sel.edit, c) => same(w, c)
    BY <1>4, <1>5 DEF same
  <2>2. ASSUME SaveOK(r, sel, net, tmpls, lib, edits) PROVE SaveOK(r, sel', net, tmpls, lib, edits + 1)
    <3>1. r.started \in Nat /\ r.started <= edits /\ edits \in Nat
      BY <2>2, Parts DEF SaveOK
    <3>2. w.val["name"] \in {r.snapshot.val["name"], "mine "}
      BY <1>4, <1>5, <2>2 DEF SaveOK
    <3>3. r.started \in Nat /\ r.started <= edits + 1 /\ edits + 1 # r.started
      BY <3>1
    <3>4. same(w, r.snapshot) /\ Knows(sel'.seen, r.snapshot)
      BY <1>4, <1>5, <1>8, <2>1, <2>2 DEF SaveOK
    <3>. QED BY <1>7, <2>2, <3>2, <3>3, <3>4 DEF SaveOK
  <2>3. \A c : StoredOK(c, sel, tmpls) => StoredOK(c, sel', tmpls)
    BY <1>4, <1>5, <1>7, <1>8, <2>1 DEF StoredOK
  <2>4. ASSUME StoredRun(r, sel, tmpls, lib, net, edits) PROVE StoredRun(r, sel', tmpls, lib, net, edits + 1)
    BY <2>3, <2>4, Parts DEF StoredRun
  <2>5. ASSUME PublicationOK(editor.publication, sel, tmpls, lib, net, edits)
        PROVE  PublicationOK(editor.publication, sel', tmpls, lib, net, edits + 1)
    BY <2>3, <2>5, Parts DEF PublicationOK
  <2>. QED BY <1>7, <2>2, <2>4, <2>5, Parts DEF EditorOK
<1>12. PageOK(page, sel', editor, net, edits + 1)
  <2>1. edits \in Nat /\ \A k \in Nat : k <= edits => k <= edits + 1
    BY Parts
  <2>. QED BY <1>4, <1>5, <1>7, <2>1, Parts DEF PageOK
<1>13. LibOK'
  BY <1>1, Parts DEF LibOK
<1>. QED BY <1>1, <1>9, <1>10, <1>11, <1>12, <1>13, Parts, Whole

-----------------------------------------------------------------------------
(* Requests that set out.                                                 *)

\* A request that sets out on a lane, and a lane that ends.
LEMMA SendOK ==
  ASSUME TInv, NoneApart, NEW l \in Lanes, NEW c, Send(l, c), RequestOK(c, tmpls)
  PROVE  /\ net' = [k \in Lanes |-> net'[k]] /\ (\A k \in Lanes : PacketOK(net'[k], tmpls))
         /\ net'[l] # None /\ net'[l].cmd = c /\ net'[l].answer = None
         /\ \A k \in Lanes : k # l => net'[k] = net[k]
         /\ \A d, x : AgreeAll(d, x, net) => AgreeAll(d, x, net')
<1>1. Reset(net, {l}, net') /\ net'[l] = [cmd |-> c, answer |-> None] /\ net'[l] # None
  BY Parts, SendResets
<1>2. net' = [k \in Lanes |-> net'[k]] /\ (\A k \in Lanes : PacketOK(net'[k], tmpls))
  BY <1>1, ResetPackets
<1>3. \A d, x : AgreeAll(d, x, net) => AgreeAll(d, x, net')
  BY <1>1, ResetAgrees
<1>. QED BY <1>1, <1>2, <1>3 DEF Reset

\* A lane that hangs up, or turns to another request.
LEMMA HangOK ==
  ASSUME TInv, NoneApart, NEW l \in Lanes, Hang(l)
  PROVE  /\ net' = [k \in Lanes |-> net'[k]] /\ (\A k \in Lanes : PacketOK(net'[k], tmpls))
         /\ net'[l] = None /\ \A k \in Lanes : k # l => net'[k] = net[k]
         /\ \A d, x : AgreeAll(d, x, net) => AgreeAll(d, x, net')
<1>1. Reset(net, {l}, net') /\ net'[l] = None
  BY Parts, SendResets
<1>2. net' = [k \in Lanes |-> net'[k]] /\ (\A k \in Lanes : PacketOK(net'[k], tmpls))
  BY <1>1, ResetPackets
<1>3. \A d, x : AgreeAll(d, x, net) => AgreeAll(d, x, net')
  BY <1>1, ResetAgrees
<1>. QED BY <1>1, <1>2, <1>3 DEF Reset

\* Reading the list asks for nothing.
LEMMA ListRequest == \A t : RequestOK([kind |-> "list"], t)
  BY DEF RequestOK

\* A save sets out.
LEMMA SaveStep == ASSUME TInv, NoneApart, NEW q \in BOOLEAN, save(q) PROVE TInv'
<1>. DEFINE r == [publish |-> q, snapshot |-> sel.edit, started |-> edits]
            c == [kind |-> "save", id |-> sel.edit.id, rev |-> sel.edit.rev, val |-> sel.edit.val, seen |-> sel.seen]
<1>1. /\ Rest /\ Showing /\ editor.op = "idle" /\ editor.publication = None /\ sel.review = None
      /\ Send("editor", c) /\ UNCHANGED <<lib, tab, sel, page, stray, edits>> /\ tmpls' = tmpls
  BY DEF save, canSave, Rest, server
<1>2. editor' = [op |-> "save", publication |-> None, run |-> r]
  BY <1>1 DEF save, Op
<1>3. sel.edit \in Draft /\ Knows(sel.seen, sel.edit) /\ sel.edit # None
  BY <1>1, Parts DEF Showing, SelOK
<1>4. RequestOK(c, tmpls)
  BY <1>3, Parts DEF RequestOK, SelOK, Writes, Draft
<1>5. /\ net' = [k \in Lanes |-> net'[k]] /\ (\A k \in Lanes : PacketOK(net'[k], tmpls))
      /\ net'["editor"] # None /\ net'["editor"].cmd = c /\ net'["editor"].answer = None
      /\ net'["page"] = net["page"]
  <2>. HIDE DEF c
  <2>. QED BY <1>1, <1>4, Parts, SendOK
<1>6. SaveOK(r, sel, net', tmpls, lib, edits)
  BY <1>3, <1>5, Parts DEF SaveOK, same
<1>7. EditorOK(editor', sel, tmpls, lib, net', edits)
  <2>. HIDE DEF r
  <2>. QED BY <1>1, <1>2, <1>6, Parts DEF EditorOK
<1>8. PageOK(page, sel, editor', net', edits)
  <2>1. editor'.op = "save" /\ editor'.publication = None /\ editor'.run.started = edits
    BY <1>2
  <2>. QED BY <1>5, <2>1, Parts DEF PageOK
<1>9. LibOK'
  BY <1>1, Parts DEF LibOK
<1>. QED BY <1>1, <1>5, <1>7, <1>8, <1>9, Parts, Whole DEF Showing

\* A publication is confirmed by another look at the list.
LEMMA RefreshPublicationStep == ASSUME TInv, NoneApart, refreshPublication PROVE TInv'
<1>1. /\ Rest /\ Showing /\ editor.op = "idle" /\ editor.publication # None
      /\ ReadList("editor") /\ UNCHANGED <<lib, tab, sel, page, stray, edits>> /\ tmpls' = tmpls
  BY DEF refreshPublication, Rest, server
<1>2. editor' = [op |-> "finish", publication |-> editor.publication, run |-> [saved |-> editor.publication.saved]]
  BY <1>1 DEF refreshPublication, Op
<1>3. /\ net' = [k \in Lanes |-> net'[k]] /\ (\A k \in Lanes : PacketOK(net'[k], tmpls))
      /\ net'["editor"] # None /\ net'["editor"].cmd = [kind |-> "list"] /\ net'["page"] = net["page"]
      /\ \A d, x : AgreeAll(d, x, net) => AgreeAll(d, x, net')
  BY <1>1, Parts, SendOK, ListRequest DEF ReadList
<1>4. PublicationOK(editor.publication, sel, tmpls, lib, net', edits)
  BY <1>1, <1>3, Parts DEF EditorOK, PublicationOK
<1>5. EditorOK(editor', sel, tmpls, lib, net', edits)
  <2>1. sel.review = None
    BY <1>1, Parts DEF EditorOK, Closed
  <2>. QED BY <1>1, <1>2, <1>3, <1>4, <2>1 DEF EditorOK
<1>6. PageOK(page, sel, editor', net', edits)
  BY <1>1, <1>2, <1>3, Parts DEF PageOK
<1>7. LibOK'
  BY <1>1, Parts DEF LibOK
<1>. QED BY <1>1, <1>3, <1>5, <1>6, <1>7, Parts, Whole DEF Showing

\* A retirement sets out.
LEMMA RetireStep == ASSUME TInv, NoneApart, retireTemplate PROVE TInv'
<1>1. /\ Rest /\ tab = "library" /\ libraryReady
      /\ UNCHANGED <<lib, tab, sel, editor, stray, edits>> /\ tmpls' = tmpls
  BY DEF retireTemplate, Rest, server
<1>2. PICK id \in DOMAIN lib.data :
        /\ page' = [op |-> "retire", id |-> id, gen |-> sel.gen, edit |-> sel.edit, edits |-> edits]
        /\ Send("page", [kind |-> "retire", id |-> id, rev |-> lib.data[id].rev, to |-> ~lib.data[id].retired])
  BY DEF retireTemplate
<1>3. editor = Closed
  BY <1>1, Parts
<1>4. RequestOK([kind |-> "retire", id |-> id, rev |-> lib.data[id].rev, to |-> ~lib.data[id].retired], tmpls)
  BY DEF RequestOK, Writes
<1>5. /\ net' = [k \in Lanes |-> net'[k]] /\ (\A k \in Lanes : PacketOK(net'[k], tmpls))
      /\ net'["page"] # None /\ net'["page"].cmd.kind = "retire"
  BY <1>2, <1>4, Parts, SendOK
<1>6. PageOK(page', sel, Closed, net', edits)
  <2>1. sel.edit # None => sel.edit \in Draft /\ sel.edit.rev \in Nat
    BY Parts DEF SelOK, Draft
  <2>2. Closed.op = "idle" /\ Closed.publication = None
    BY DEF Closed
  <2>. QED BY <1>2, <1>5, <2>1, <2>2, Parts DEF PageOK
<1>7. LibOK'
  BY <1>1, Parts DEF LibOK
<1>. QED BY <1>1, <1>3, <1>5, <1>6, <1>7, Parts, EditorClosed, Whole

\* The list is asked for again.
LEMMA RetryStep == ASSUME TInv, NoneApart, retryLibrary \/ refreshReview PROVE TInv'
<1>1. /\ Rest /\ ReadList("page") /\ UNCHANGED <<lib, tab, sel, editor, stray, edits>> /\ tmpls' = tmpls
      /\ page' \in {[op |-> "retry"], [op |-> "review", gen |-> sel.gen]}
  BY DEF retryLibrary, refreshReview, Rest, server
<1>2. /\ net' = [k \in Lanes |-> net'[k]] /\ (\A k \in Lanes : PacketOK(net'[k], tmpls))
      /\ net'["page"] # None /\ net'["page"].cmd = [kind |-> "list"] /\ net'["editor"] = net["editor"]
      /\ \A d, x : AgreeAll(d, x, net) => AgreeAll(d, x, net')
  BY <1>1, Parts, SendOK, ListRequest DEF ReadList
<1>3. EditorOK(editor, sel, tmpls, lib, net', edits)
  BY <1>2, Parts, EditorKeeps
<1>4. PageOK(page', sel, editor, net', edits)
  BY <1>1, <1>2 DEF PageOK
<1>5. LibOK'
  BY <1>1, Parts DEF LibOK
<1>. QED BY <1>1, <1>2, <1>3, <1>4, <1>5, Parts, Whole

\* A review begins with the baseline, which has been seen.
LEMMA RevokeStep == ASSUME TInv, NoneApart, revokeVersion PROVE TInv'
<1>. DEFINE w == [id |-> sel.edit.id, rev |-> sel.edit.rev, baseline |-> sel.baseline,
                  acknowledged |-> FALSE, fresh |-> None, error |-> FALSE]
            s == [gen |-> sel.gen, edit |-> sel.edit, baseline |-> sel.baseline, review |-> w, seen |-> sel.seen]
<1>1. /\ Rest /\ tab = "versions" /\ same(sel.edit, sel.baseline) /\ UNCHANGED <<lib, tab, editor, stray, edits>>
      /\ tmpls' = tmpls /\ page' = [op |-> "revoke", gen |-> sel.gen]
  BY DEF revokeVersion, canRevoke, Rest, server
<1>2. PICK v : Send("page", [kind |-> "revoke", id |-> sel.edit.id, rev |-> sel.edit.rev, version |-> v])
  BY DEF revokeVersion
<1>3. Commit(s)
  <2>1. PICK z : z = [sel EXCEPT !.review = w]
    OBVIOUS
  <2>2. z = s
    <3>. HIDE DEF w
    <3>. QED BY <2>1, Parts DEF SelRecord
  <2>3. Commit(z)
    BY <2>1 DEF revokeVersion
  <2>. QED BY <2>2, <2>3
<1>4. SelRecord(s) /\ s.gen = sel.gen /\ s.edit = sel.edit /\ s.baseline = sel.baseline /\ s.review = w
      /\ s.seen = sel.seen
  BY DEF SelRecord
<1>5. SelRecord(sel') /\ SeesMore(sel, sel') /\ sel'.review = w
  <2>. HIDE DEF s
  <2>. QED BY <1>3, <1>4, CommitSel DEF SeesMore
<1>6. SelOK(sel', tmpls)
  BY <1>5, Parts, SelSeesMore
<1>7. sel.baseline \in Draft /\ Knows(sel.seen, sel.baseline)
  BY <1>1, Parts DEF SelOK, same
<1>8. ReviewOK(sel', tmpls)
  BY <1>5, <1>7, KnowsMore DEF ReviewOK, SeesMore
<1>9. editor = Closed
  BY <1>1, Parts
<1>10. /\ net' = [k \in Lanes |-> net'[k]] /\ (\A k \in Lanes : PacketOK(net'[k], tmpls))
       /\ net'["page"] # None /\ net'["page"].cmd.kind = "revoke"
  <2>1. RequestOK([kind |-> "revoke", id |-> sel.edit.id, rev |-> sel.edit.rev, version |-> v], tmpls)
    BY DEF RequestOK, Writes
  <2>. QED BY <1>2, <2>1, Parts, SendOK
<1>11. PageOK(page', sel', editor, net', edits)
  BY <1>1, <1>10 DEF PageOK
<1>12. LibOK'
  BY <1>1, Parts DEF LibOK
<1>. QED BY <1>1, <1>6, <1>8, <1>9, <1>10, <1>11, <1>12, Parts, EditorClosed, Whole

\* A list that a lane got.
LEMMA GotList ==
  ASSUME TInv, NEW l \in Lanes, net[l] # None, net[l].cmd.kind = "list", Answered(l)
  PROVE  /\ Got(l).ok \in BOOLEAN /\ (Got(l).ok => PastList(Got(l).data, tmpls))
         /\ \A d, x : AgreeAll(d, x, net) /\ Got(l).ok => Agree(Got(l).data, d)
<1>1. PacketOK(net[l], tmpls) /\ net[l].answer # None
  BY Parts DEF Answered
<1>2. Got(l).ok \in BOOLEAN /\ (Got(l).ok => PastList(Got(l).data, tmpls))
  BY <1>1 DEF PacketOK, Got
<1>3. \A d, x : AgreeAll(d, x, net) /\ Got(l).ok => Agree(Got(l).data, d)
  BY <1>1 DEF AgreeAll, Got
<1>. QED BY <1>2, <1>3

\* The page takes the list that it read.
LEMMA PageTakes ==
  ASSUME TInv, net["page"] # None, net["page"].cmd.kind = "list", Answered("page"),
         Relist(Got("page")) \/ Reconfirm(Got("page")) \/ lib' = lib \/ lib' = [lib EXCEPT !.recovery = TRUE]
  PROVE  /\ lib' \in [data : Seq(Row) \cup {None}, error : BOOLEAN, recovery : BOOLEAN]
         /\ lib'.data # None => PastList(lib'.data, tmpls)
         /\ \A d, x : x.data = lib.data /\ AgreeAll(d, x, net) => AgreeAll(d, lib', net)
<1>. DEFINE a == Got("page")
<1>1. "page" \in Lanes
  BY Parts
<1>2. a.ok => PastList(a.data, tmpls)
  BY <1>1, GotList
<1>3. \A d, x : AgreeAll(d, x, net) /\ a.ok => Agree(a.data, d)
  BY <1>1, GotList
<1>4. /\ lib' \in [data : Seq(Row) \cup {None}, error : BOOLEAN, recovery : BOOLEAN]
      /\ lib'.data # None => PastList(lib'.data, tmpls)
      /\ lib'.data = lib.data \/ (a.ok /\ lib'.data = a.data)
  <2>1. CASE Relist(a) \/ Reconfirm(a)
    <3>. HIDE DEF a
    <3>. QED BY <1>2, <2>1, ListTaken
  <2>2. CASE lib' = lib \/ lib' = [lib EXCEPT !.recovery = TRUE]
    <3>1. lib' = [data |-> lib.data, error |-> lib.error, recovery |-> lib'.recovery] /\ lib'.recovery \in BOOLEAN
      BY <2>2, Parts DEF LibOK
    <3>2. lib.data \in Seq(Row) \cup {None} /\ lib.error \in BOOLEAN /\ (lib.data # None => PastList(lib.data, tmpls))
      BY Parts DEF LibOK
    <3>. QED BY <3>1, <3>2
  <2>. QED BY <2>1, <2>2
<1>. HIDE DEF a
<1>5. \A d, x : x.data = lib.data /\ AgreeAll(d, x, net) => AgreeAll(d, lib', net)
  BY <1>3, <1>4 DEF AgreeAll
<1>. QED BY <1>4, <1>5

-----------------------------------------------------------------------------
(* Answers to the page.                                                   *)

\* The page's lane, when the page reads the list or ends.
LEMMA PageLane ==
  ASSUME TInv, NoneApart, Hang("page") \/ ReadList("page")
  PROVE  /\ net' = [k \in Lanes |-> net'[k]] /\ (\A k \in Lanes : PacketOK(net'[k], tmpls))
         /\ net'["editor"] = net["editor"] /\ \A d, x : AgreeAll(d, x, net) => AgreeAll(d, x, net')
         /\ ReadList("page") => net'["page"] # None /\ net'["page"].cmd = [kind |-> "list"]
         /\ Hang("page") => net'["page"] = None
<1>1. "page" \in Lanes /\ "editor" \in Lanes /\ "editor" # "page"
  BY DEF Lanes
<1>2. ASSUME Hang("page")
      PROVE  /\ net' = [k \in Lanes |-> net'[k]] /\ (\A k \in Lanes : PacketOK(net'[k], tmpls))
             /\ net'["editor"] = net["editor"] /\ \A d, x : AgreeAll(d, x, net) => AgreeAll(d, x, net')
             /\ net'["page"] = None
  BY <1>1, <1>2, HangOK
<1>3. ASSUME ReadList("page")
      PROVE  /\ net' = [k \in Lanes |-> net'[k]] /\ (\A k \in Lanes : PacketOK(net'[k], tmpls))
             /\ net'["editor"] = net["editor"] /\ \A d, x : AgreeAll(d, x, net) => AgreeAll(d, x, net')
             /\ net'["page"] # None /\ net'["page"].cmd = [kind |-> "list"]
  <2>1. Send("page", [kind |-> "list"]) /\ RequestOK([kind |-> "list"], tmpls)
    BY <1>3, ListRequest DEF ReadList
  <2>. QED BY <1>1, <2>1, SendOK
<1>. QED BY <1>2, <1>3

\* The library flags that it has to be confirmed.
LEMMA Flagged ==
  ASSUME TInv, lib' = lib \/ lib' = [lib EXCEPT !.recovery = TRUE]
  PROVE  /\ lib' \in [data : Seq(Row) \cup {None}, error : BOOLEAN, recovery : BOOLEAN]
         /\ lib'.data # None => PastList(lib'.data, tmpls)
         /\ lib'.data = lib.data
<1>1. /\ lib \in [data : Seq(Row) \cup {None}, error : BOOLEAN, recovery : BOOLEAN]
      /\ lib.data # None => PastList(lib.data, tmpls)
  BY Parts DEF LibOK
<1>2. /\ lib' \in [data : Seq(Row) \cup {None}, error : BOOLEAN, recovery : BOOLEAN]
      /\ lib'.data = lib.data
  BY <1>1
<1>. QED BY <1>1, <1>2

\* A step of the page, whatever it leaves of the draft and of the review.
LEMMA PageWhole ==
  ASSUME TInv, NoneApart, KeepPage, Hang("page") \/ ReadList("page"),
         lib' \in [data : Seq(Row) \cup {None}, error : BOOLEAN, recovery : BOOLEAN],
         lib'.data # None => PastList(lib'.data, tmpls),
         SelOK(sel', tmpls), ReviewOK(sel', tmpls),
         EditorOK(editor, sel', tmpls, lib', net', edits), PageOK(page', sel', editor, net', edits)
  PROVE  TInv'
<1>1. /\ Rest /\ UNCHANGED <<tab, editor, stray, edits>> /\ tmpls' = tmpls
  BY DEF KeepPage, Rest, server
<1>2. LibOK'
  BY <1>1 DEF LibOK
<1>. QED BY <1>1, <1>2, Parts, PageLane, Whole

\* The answer to a retirement.
LEMMA RetiredStep == ASSUME TInv, NoneApart, Retired PROVE TInv'
<1>1. /\ page.op = "retire" /\ KeepPage /\ sel' = sel /\ tmpls' = tmpls
      /\ Hang("page") \/ ReadList("page")
      /\ lib' = lib \/ lib' = [lib EXCEPT !.recovery = TRUE]
  BY DEF Retired, PageEnds, KeepPage, Rest, server
<1>2. /\ lib' \in [data : Seq(Row) \cup {None}, error : BOOLEAN, recovery : BOOLEAN]
      /\ lib'.data # None => PastList(lib'.data, tmpls)
      /\ lib'.data = lib.data
  BY <1>1, Flagged
<1>3. \A d : AgreeAll(d, lib, net) => AgreeAll(d, lib', net')
  <2>1. \A d : AgreeAll(d, lib, net) => AgreeAll(d, lib', net)
    BY <1>2 DEF AgreeAll
  <2>. QED BY <1>1, <2>1, PageLane
<1>4. EditorOK(editor, sel, tmpls, lib', net', edits)
  BY <1>1, <1>3, Parts, PageLane, EditorKeeps
<1>5. PageOK(page', sel, editor, net', edits)
  <2>1. CASE Got("page").ok
    <3>1. page = [op |-> page.op, id |-> page.id, gen |-> page.gen, edit |-> page.edit, edits |-> page.edits]
      BY <1>1, Parts DEF PageOK
    <3>2. page' = [page EXCEPT !.op = "reread"] /\ ReadList("page")
      BY <2>1 DEF Retired
    <3>3. page' = [op |-> "reread", id |-> page.id, gen |-> page.gen, edit |-> page.edit, edits |-> page.edits]
      BY <3>1, <3>2
    <3>4. net'["page"] # None /\ net'["page"].cmd.kind = "list"
      BY <3>2, PageLane
    <3>. QED BY <1>1, <3>3, <3>4, Parts DEF PageOK
  <2>2. CASE ~Got("page").ok
    <3>1. page' = [op |-> "idle"] /\ net'["page"] = None
      BY <2>2, PageLane DEF Retired, PageEnds
    <3>. QED BY <3>1, PageQuiet
  <2>. QED BY <2>1, <2>2
<1>. QED BY <1>1, <1>2, <1>4, <1>5, Parts, PageWhole

\* The list the page waits for, taken or not.
LEMMA PageReads ==
  ASSUME TInv, NoneApart, page.op \in {"reread", "retry", "review"}, Answered("page"), PageEnds,
         Relist(Got("page")) \/ Reconfirm(Got("page")) \/ lib' = lib \/ lib' = [lib EXCEPT !.recovery = TRUE]
  PROVE  /\ lib' \in [data : Seq(Row) \cup {None}, error : BOOLEAN, recovery : BOOLEAN]
         /\ lib'.data # None => PastList(lib'.data, tmpls)
         /\ \A d : AgreeAll(d, lib, net) => AgreeAll(d, lib', net')
         /\ \A s, e, m : PageOK(page', s, e, net', m)
         /\ net'["editor"] = net["editor"]
<1>1. net["page"] # None /\ net["page"].cmd.kind = "list"
  BY Parts DEF PageOK
<1>2. /\ lib' \in [data : Seq(Row) \cup {None}, error : BOOLEAN, recovery : BOOLEAN]
      /\ lib'.data # None => PastList(lib'.data, tmpls)
      /\ \A d : AgreeAll(d, lib, net) => AgreeAll(d, lib', net)
  BY <1>1, PageTakes
<1>3. page' = [op |-> "idle"] /\ net'["page"] = None /\ net'["editor"] = net["editor"]
      /\ \A d, x : AgreeAll(d, x, net) => AgreeAll(d, x, net')
  BY PageLane DEF PageEnds
<1>. QED BY <1>2, <1>3, PageQuiet

\* The list is read and the draft stays.
LEMMA ReadsOnly ==
  ASSUME TInv, NoneApart, page.op \in {"reread", "retry", "review"}, Answered("page"), PageEnds, KeepPage,
         Relist(Got("page")) \/ Reconfirm(Got("page")) \/ lib' = lib \/ lib' = [lib EXCEPT !.recovery = TRUE],
         SeesMore(sel, sel') \/ sel' = sel, sel'.review = sel.review
  PROVE  TInv'
<1>1. /\ sel'.edit = sel.edit /\ sel.seen \subseteq sel'.seen
  BY DEF SeesMore
<1>2. SelOK(sel', tmpls) /\ ReviewOK(sel', tmpls)
  BY Parts, SelSeesMore
<1>3. EditorOK(editor, sel', tmpls, lib', net', edits)
  BY <1>1, Parts, PageReads, EditorKeeps
<1>4. Hang("page")
  BY DEF PageEnds
<1>. QED BY <1>2, <1>3, <1>4, PageReads, PageWhole

\* The list that was asked for again.
LEMMA RetriedStep == ASSUME TInv, NoneApart, Retried PROVE TInv'
  BY ReadsOnly DEF Retried

\* The editor closes over a draft that was not stored meanwhile: one that was
\* stored is a later one than the page remembers.
LEMMA RereadStep == ASSUME TInv, NoneApart, Reread PROVE TInv'
<1>. DEFINE closes == /\ Got("page").ok /\ sel.gen = page.gen /\ sel.edit # None
                      /\ sel.edit = page.edit /\ edits = page.edits /\ sel.edit.id = page.id
<1>1. /\ page.op = "reread" /\ Answered("page") /\ PageEnds /\ KeepPage
      /\ Reconfirm(Got("page")) \/ lib' = [lib EXCEPT !.recovery = TRUE]
      /\ Commit(IF closes THEN [sel EXCEPT !.edit = None] ELSE sel)
  BY DEF Reread
<1>2. CASE ~closes
  <2>1. Commit(sel)
    BY <1>1, <1>2
  <2>2. SeesMore(sel, sel') /\ sel'.review = sel.review
    BY <2>1, Parts, CommitSel DEF SeesMore
  <2>. QED BY <1>1, <2>2, ReadsOnly
<1>3. CASE closes
  <2>. DEFINE s == [gen |-> sel.gen, edit |-> None, baseline |-> sel.baseline, review |-> sel.review, seen |-> sel.seen]
  <2>1. Commit(s)
    <3>1. [sel EXCEPT !.edit = None] = s
      BY Parts DEF SelRecord
    <3>. QED BY <1>1, <1>3, <3>1
  <2>2. /\ SelRecord(sel') /\ sel'.gen = sel.gen /\ sel'.edit = None /\ sel'.baseline = sel.baseline
        /\ sel'.review = sel.review /\ sel.seen \subseteq sel'.seen
    <3>1. SelRecord(s)
      BY DEF SelRecord
    <3>. QED BY <2>1, <3>1, CommitSel
  <2>3. SelOK(sel', tmpls)
    BY <2>2, Parts DEF SelOK, SelRecord, same
  <2>4. \A d : Knows(sel.seen, d) => Knows(sel'.seen, d)
    BY <2>2, KnowsMore
  <2>5. ReviewOK(sel', tmpls)
    BY <2>2, <2>4, Parts DEF ReviewOK
  <2>6. editor.op \in {"idle", "save"} /\ editor.publication = None
    <3>1. sel.edit \in Draft /\ sel.edit.rev \in Nat /\ ~(sel.edit.rev < sel.edit.rev)
      BY <1>3, Parts DEF SelOK, Draft
    <3>2. editor.op \notin {"saved", "publish"} /\ editor.publication = None
      BY <1>1, <1>3, <3>1, Parts DEF PageOK
    <3>. QED BY <3>2, Parts DEF EditorOK
  <2>7. EditorOK(editor, sel', tmpls, lib', net', edits)
    <3>1. ASSUME editor.op = "save" PROVE SaveOK(editor.run, sel', net', tmpls, lib', edits)
      <4>1. SaveOK(editor.run, sel, net, tmpls, lib, edits)
        BY <3>1, Parts DEF EditorOK
      <4>2. net'["editor"] = net["editor"] /\ \A d : AgreeAll(d, lib, net) => AgreeAll(d, lib', net')
        BY <1>1, PageReads
      <4>. QED BY <2>2, <2>4, <4>1, <4>2 DEF SaveOK
    <3>. QED BY <2>2, <2>6, <3>1, Parts DEF EditorOK
  <2>. QED BY <1>1, <2>3, <2>5, <2>7, PageReads, PageWhole DEF PageEnds
<1>. QED BY <1>2, <1>3

-----------------------------------------------------------------------------
(* The review of a version.                                               *)

\* While a template is reviewed nothing runs in its editor.
LEMMA ReviewCloses == ASSUME TInv, sel.review # None PROVE editor = Closed
  BY Parts DEF EditorOK

ReviewRecord(w) ==
  w = [id |-> w.id, rev |-> w.rev, baseline |-> w.baseline, acknowledged |-> w.acknowledged,
       fresh |-> w.fresh, error |-> w.error]

\* What a note in a review changes.
LEMMA Notes ==
  ASSUME NEW w, ReviewRecord(w), NEW x
  PROVE  /\ [w EXCEPT !.acknowledged = TRUE] =
              [id |-> w.id, rev |-> w.rev, baseline |-> w.baseline, acknowledged |-> TRUE,
               fresh |-> w.fresh, error |-> w.error]
         /\ [w EXCEPT !.error = TRUE] =
              [id |-> w.id, rev |-> w.rev, baseline |-> w.baseline, acknowledged |-> w.acknowledged,
               fresh |-> w.fresh, error |-> TRUE]
         /\ [w EXCEPT !.fresh = x, !.error = TRUE] =
              [id |-> w.id, rev |-> w.rev, baseline |-> w.baseline, acknowledged |-> w.acknowledged,
               fresh |-> x, error |-> TRUE]
<1>1. PICK z : z = [w EXCEPT !.acknowledged = TRUE]
  OBVIOUS
<1>2. z = [id |-> w.id, rev |-> w.rev, baseline |-> w.baseline, acknowledged |-> TRUE,
           fresh |-> w.fresh, error |-> w.error]
  BY <1>1 DEF ReviewRecord
<1>3. PICK y : y = [w EXCEPT !.error = TRUE]
  OBVIOUS
<1>4. y = [id |-> w.id, rev |-> w.rev, baseline |-> w.baseline, acknowledged |-> w.acknowledged,
           fresh |-> w.fresh, error |-> TRUE]
  BY <1>3 DEF ReviewRecord
<1>5. PICK v : v = [w EXCEPT !.fresh = x, !.error = TRUE]
  OBVIOUS
<1>6. v = [id |-> w.id, rev |-> w.rev, baseline |-> w.baseline, acknowledged |-> w.acknowledged,
           fresh |-> x, error |-> TRUE]
  BY <1>5 DEF ReviewRecord
<1>. QED BY <1>1, <1>2, <1>3, <1>4, <1>5, <1>6

\* The selection s with the review w.
Noting(s, w) ==
  SelRecord(s) /\ s.gen = sel.gen /\ s.edit = sel.edit /\ s.baseline = sel.baseline /\ s.review = w
  /\ s.seen = sel.seen

\* A note on the review is a note.
LEMMA NoteIs == ASSUME TInv, NEW w PROVE Noting([sel EXCEPT !.review = w], w)
<1>1. PICK s : s = [sel EXCEPT !.review = w]
  OBVIOUS
<1>2. s = [gen |-> sel.gen, edit |-> sel.edit, baseline |-> sel.baseline, review |-> w, seen |-> sel.seen]
  BY <1>1, Parts DEF SelRecord
<1>. QED BY <1>1, <1>2 DEF Noting, SelRecord

\* Another note in the review leaves the draft alone.
LEMMA NotesReview ==
  ASSUME NEW s, NEW w, Noting(s, w), Commit(s)
  PROVE  /\ SeesMore(sel, sel') /\ sel'.review = w
         /\ w # None /\ w.fresh # None => Knows(sel'.seen, w.fresh)
  BY CommitSel DEF SeesMore, Noting

\* A review whose notes changed, and that shows no other template than it did.
LEMMA NotedOK ==
  ASSUME TInv, sel.review # None, NEW w, SeesMore(sel, sel'), sel'.review = w,
         ReviewRecord(w), w.baseline = sel.review.baseline, w.fresh = None \/ w.fresh = sel.review.fresh
  PROVE  SelOK(sel', tmpls) /\ ReviewOK(sel', tmpls)
<1>1. \A d : Knows(sel.seen, d) => Knows(sel'.seen, d)
  BY KnowsMore DEF SeesMore
<1>2. sel'.edit = sel.edit
  BY DEF SeesMore
<1>3. ReviewOK(sel', tmpls)
  BY <1>1, <1>2, Parts DEF ReviewOK, ReviewRecord
<1>. QED BY <1>3, Parts, SelSeesMore

\* The answer to a revocation.
LEMMA RevokedStep == ASSUME TInv, NoneApart, Revoked PROVE TInv'
<1>1. /\ page.op = "revoke" /\ KeepPage /\ lib' = lib
      /\ Hang("page") \/ ReadList("page")
  BY DEF Revoked, PageEnds
<1>2. /\ lib' \in [data : Seq(Row) \cup {None}, error : BOOLEAN, recovery : BOOLEAN]
      /\ lib'.data # None => PastList(lib'.data, tmpls)
  BY <1>1, Flagged
<1>3. SelOK(sel', tmpls) /\ ReviewOK(sel', tmpls) /\ EditorOK(editor, sel', tmpls, lib', net', edits)
  <2>1. CASE ~ownsVersionReview
    <3>1. sel' = sel
      BY <2>1 DEF Revoked
    <3>2. EditorOK(editor, sel', tmpls, lib', net', edits)
      BY <1>1, <3>1, Parts, PageLane, EditorKeeps
    <3>. QED BY <3>1, <3>2, Parts
  <2>2. CASE ownsVersionReview
    <3>. DEFINE w == sel.review
                a == [w EXCEPT !.acknowledged = TRUE]
                b == [w EXCEPT !.error = TRUE]
    <3>1. w # None /\ ReviewRecord(w)
      BY <2>2, Parts DEF ownsVersionReview, ReviewOK, ReviewRecord
    <3>2. /\ ReviewRecord(a) /\ a.baseline = w.baseline /\ a.fresh = w.fresh
          /\ ReviewRecord(b) /\ b.baseline = w.baseline /\ b.fresh = w.fresh
      BY <3>1, Notes DEF ReviewRecord
    <3>3. Commit([sel EXCEPT !.review = a]) \/ Commit([sel EXCEPT !.review = b])
      BY <2>2 DEF Revoked
    <3>. HIDE DEF a, b
    <3>4. SelOK(sel', tmpls) /\ ReviewOK(sel', tmpls)
      <4>1. CASE Commit([sel EXCEPT !.review = a])
        <5>. DEFINE s == [sel EXCEPT !.review = a]
        <5>0. Noting(s, a) /\ Commit(s)
          BY <4>1, NoteIs
        <5>. HIDE DEF s
        <5>1. SeesMore(sel, sel') /\ sel'.review = a
          BY <5>0, NotesReview
        <5>. QED BY <3>1, <3>2, <5>1, NotedOK
      <4>2. CASE Commit([sel EXCEPT !.review = b])
        <5>. DEFINE s == [sel EXCEPT !.review = b]
        <5>0. Noting(s, b) /\ Commit(s)
          BY <4>2, NoteIs
        <5>. HIDE DEF s
        <5>1. SeesMore(sel, sel') /\ sel'.review = b
          BY <5>0, NotesReview
        <5>. QED BY <3>1, <3>2, <5>1, NotedOK
      <4>. QED BY <3>3, <4>1, <4>2
    <3>5. editor = Closed
      BY <3>1, ReviewCloses
    <3>. QED BY <3>4, <3>5, EditorClosed
  <2>. QED BY <2>1, <2>2
<1>4. PageOK(page', sel', editor, net', edits)
  <2>1. CASE PageEnds
    BY <2>1, PageLane, PageQuiet DEF PageEnds
  <2>2. CASE page' = [page EXCEPT !.op = "review"] /\ ReadList("page")
    <3>1. page = [op |-> "revoke", gen |-> page.gen]
      BY <1>1, Parts DEF PageOK
    <3>2. page' = [op |-> "review", gen |-> page.gen]
      BY <2>2, <3>1
    <3>3. net'["page"] # None /\ net'["page"].cmd.kind = "list"
      BY <2>2, PageLane
    <3>. QED BY <3>2, <3>3 DEF PageOK
  <2>. QED BY <2>1, <2>2 DEF Revoked
<1>. QED BY <1>1, <1>2, <1>3, <1>4, PageWhole

\* Three drafts merged: the result has the revision of the last, and what differs
\* from it is the administrator's.
LEMMA MergedDraft ==
  ASSUME NEW a \in Draft, NEW b \in Draft, NEW c \in Draft
  PROVE  LET d == merged(a, b, c) IN
         /\ d \in Draft /\ d.id = c.id /\ d.rev = c.rev
         /\ \A f \in Fields : d.val[f] = IF a.val[f] = b.val[f] THEN c.val[f] ELSE a.val[f]
<1>. DEFINE v == [f \in Fields |-> mergeField(a.val[f], b.val[f], c.val[f])]
<1>1. v \in Vals /\ \A f \in Fields : v[f] = IF a.val[f] = b.val[f] THEN c.val[f] ELSE a.val[f]
  BY DEF mergeField, Vals, Draft
<1>2. merged(a, b, c) = [c EXCEPT !.val = v]
  BY DEF merged
<1>. HIDE DEF v
<1>3. merged(a, b, c) = [id |-> c.id, rev |-> c.rev, val |-> v, retired |-> c.retired]
  BY <1>2 DEF Draft
<1>. QED BY <1>1, <1>3 DEF Draft

\* The draft is rebased on a template that was shown, or that it does not conflict with.
LEMMA RebasedOK ==
  ASSUME TInv, NoneApart, sel.edit # None, sel.review # None, NEW c \in Draft, Past(c, tmpls),
         Commit([sel EXCEPT !.edit = merged(@, sel.review.baseline, c), !.baseline = c, !.review = None]),
         \/ Knows(sel.seen, c)
         \/ ~conflict(sel.edit, sel.review.baseline, c)
  PROVE  SelOK(sel', tmpls) /\ ReviewOK(sel', tmpls) /\ sel'.gen = sel.gen
<1>. DEFINE b == sel.review.baseline
            d == merged(sel.edit, b, c)
            s == [gen |-> sel.gen, edit |-> d, baseline |-> c, review |-> None, seen |-> sel.seen]
<1>1. sel.edit \in Draft /\ b \in Draft /\ Knows(sel.seen, sel.edit) /\ Knows(sel.seen, b)
  BY Parts DEF SelOK, ReviewOK
<1>2. /\ d \in Draft /\ d.id = c.id /\ d.rev = c.rev
      /\ \A f \in Fields : d.val[f] = IF sel.edit.val[f] = b.val[f] THEN c.val[f] ELSE sel.edit.val[f]
  BY <1>1, MergedDraft
<1>3. d # None
  BY <1>2, Apart DEF Draft
<1>4. Commit(s) /\ SelRecord(s)
  <2>. HIDE DEF d
  <2>1. [sel EXCEPT !.edit = d, !.baseline = c, !.review = None] = s
    <3>1. PICK z : z = [sel EXCEPT !.edit = d, !.baseline = c, !.review = None]
      OBVIOUS
    <3>2. z = s
      BY <3>1, Parts DEF SelRecord
    <3>. QED BY <3>1, <3>2
  <2>2. Commit([sel EXCEPT !.edit = d, !.baseline = c, !.review = None])
    BY DEF d
  <2>. QED BY <2>1, <2>2 DEF SelRecord
<1>. HIDE DEF d
<1>5. /\ SelRecord(sel') /\ sel'.gen = sel.gen /\ sel'.edit = d /\ sel'.baseline = c /\ sel'.review = None
      /\ sel.seen \subseteq sel'.seen /\ Knows(sel'.seen, d)
  <2>1. s.gen = sel.gen /\ s.edit = d /\ s.baseline = c /\ s.review = None /\ s.seen = sel.seen
    OBVIOUS
  <2>. HIDE DEF s
  <2>. QED BY <1>3, <1>4, <2>1, CommitSel
<1>6. Knows(sel'.seen, c)
  <2>1. CASE Knows(sel.seen, c)
    BY <1>5, <2>1, KnowsMore
  <2>2. CASE ~conflict(sel.edit, b, c)
    <3>1. ASSUME NEW f \in Fields PROVE <<f, c.val[f]>> \in sel'.seen
      <4>1. CASE sel.edit.val[f] = b.val[f]
        BY <1>2, <1>5, <4>1 DEF Knows
      <4>2. CASE sel.edit.val[f] # b.val[f]
        <5>1. c.val[f] = b.val[f] \/ c.val[f] = sel.edit.val[f]
          BY <2>2, <4>2 DEF conflict
        <5>. QED BY <1>1, <1>5, <5>1 DEF Knows
      <4>. QED BY <4>1, <4>2
    <3>. QED BY <3>1 DEF Knows
  <2>. QED BY <2>1, <2>2
<1>7. /\ c.id \in DOMAIN tmpls /\ c.rev <= tmpls[c.id].rev
      /\ c.rev = tmpls[c.id].rev => Knows(sel'.seen, tmpls[c.id])
  BY <1>6 DEF Past, Knows
<1>8. sel'.gen \in Nat
  BY <1>5, Parts
<1>. QED BY <1>2, <1>5, <1>6, <1>7, <1>8 DEF SelOK, ReviewOK, SelRecord

\* The edits are kept over what was reviewed.
LEMMA KeepReviewedStep == ASSUME TInv, NoneApart, keepReviewedEdits PROVE TInv'
<1>1. /\ Rest /\ page.op = "idle" /\ sel.review # None /\ sel.review.fresh # None /\ sel.edit # None
      /\ UNCHANGED <<lib, tab, page, editor, net, stray, edits>> /\ tmpls' = tmpls
      /\ Commit([sel EXCEPT !.edit = merged(@, sel.review.baseline, sel.review.fresh),
                            !.baseline = sel.review.fresh, !.review = None])
  BY DEF keepReviewedEdits, Rest, server
<1>2. sel.review.fresh \in Draft /\ Past(sel.review.fresh, tmpls) /\ Knows(sel.seen, sel.review.fresh)
  BY <1>1, Parts DEF ReviewOK
<1>3. SelOK(sel', tmpls) /\ ReviewOK(sel', tmpls)
  BY <1>1, <1>2, RebasedOK
<1>4. editor = Closed
  BY <1>1, ReviewCloses
<1>5. PageOK(page, sel', editor, net, edits)
  BY <1>1, Parts DEF PageOK
<1>6. LibOK'
  BY <1>1, Parts DEF LibOK
<1>. QED BY <1>1, <1>3, <1>4, <1>5, <1>6, Parts, EditorClosed, Whole

\* The template that was read again is merged, shown, or found too old.
LEMMA ReviewedStep == ASSUME TInv, NoneApart, Reviewed PROVE TInv'
<1>. DEFINE w == sel.review
            a == Got("page")
            fresh == IF a.ok /\ ownsVersionReview /\ Has(a.data, w.id)
                     THEN Template(w.id, a.data[w.id]) ELSE None
<1>1. page.op = "review" /\ Answered("page") /\ PageEnds /\ KeepPage /\ Hang("page")
  BY DEF Reviewed, PageEnds
<1>2. CASE ~ownsVersionReview
  <2>1. lib' = lib /\ sel' = sel
    BY <1>2 DEF Reviewed
  <2>. QED BY <1>1, <2>1, ReadsOnly
<1>3. CASE ownsVersionReview
  <2>1. w # None /\ editor = Closed /\ ReviewRecord(w)
    BY <1>3, Parts, ReviewCloses DEF ownsVersionReview, ReviewOK, ReviewRecord
  <2>. DEFINE b == [w EXCEPT !.fresh = None, !.error = TRUE]
              e == [w EXCEPT !.error = TRUE]
              g == [w EXCEPT !.fresh = fresh, !.error = TRUE]
  <2>2. \/ lib' = lib /\ Commit([sel EXCEPT !.review.fresh = None, !.review.error = TRUE])
        \/ /\ Relist(a) /\ fresh # None
           /\ \/ Commit(sel)
              \/ Commit([sel EXCEPT !.review.error = TRUE])
              \/ /\ ~(fresh.rev < sel.edit.rev)
                 /\ Commit([sel EXCEPT !.review.fresh = fresh, !.review.error = TRUE])
              \/ /\ sel.edit # None /\ ~conflict(sel.edit, w.baseline, fresh)
                 /\ Commit([sel EXCEPT !.edit = merged(@, w.baseline, fresh), !.baseline = fresh, !.review = None])
    BY <1>3 DEF Reviewed, unconfirmed
  <2>3. Relist(a) \/ lib' = lib
    BY <2>2
  <2>4. SelOK(sel', tmpls) /\ ReviewOK(sel', tmpls)
    <3>1. CASE Commit(sel)
      BY <3>1, Parts, CommitSel, SelSeesMore DEF SeesMore
    <3>2. CASE Commit([sel EXCEPT !.review.error = TRUE])
      <4>1. ReviewRecord(e) /\ e.baseline = w.baseline /\ e.fresh = w.fresh
        BY <2>1, Notes DEF ReviewRecord
      <4>. DEFINE s == [sel EXCEPT !.review = e]
      <4>2. Noting(s, e) /\ Commit(s)
        BY <3>2, NoteIs
      <4>. HIDE DEF s
      <4>. HIDE DEF e
      <4>3. SeesMore(sel, sel') /\ sel'.review = e
        BY <4>2, NotesReview
      <4>. QED BY <2>1, <4>1, <4>3, NotedOK
    <3>3. CASE Commit([sel EXCEPT !.review.fresh = None, !.review.error = TRUE])
      <4>1. ReviewRecord(b) /\ b.baseline = w.baseline /\ b.fresh = None
        BY <2>1, Notes DEF ReviewRecord
      <4>. DEFINE s == [sel EXCEPT !.review = b]
      <4>2. Noting(s, b) /\ Commit(s)
        BY <3>3, NoteIs
      <4>. HIDE DEF s
      <4>. HIDE DEF b
      <4>3. SeesMore(sel, sel') /\ sel'.review = b
        BY <4>2, NotesReview
      <4>. QED BY <2>1, <4>1, <4>3, NotedOK
    <3>4. ASSUME fresh # None PROVE fresh \in Draft /\ Past(fresh, tmpls) /\ fresh.rev \in Nat
      <4>1. a.ok /\ fresh = Template(w.id, a.data[w.id]) /\ w.id \in DOMAIN a.data
        BY <3>4 DEF Has
      <4>2. PastList(a.data, tmpls)
        <5>1. net["page"] # None /\ net["page"].cmd.kind = "list" /\ "page" \in Lanes
          BY <1>1, Parts DEF PageOK
        <5>. QED BY <1>1, <4>1, <5>1, GotList
      <4>. HIDE DEF a, w, fresh
      <4>. QED BY <4>1, <4>2, ListedDraft DEF Draft
    <3>. HIDE DEF fresh
    <3>5. CASE fresh # None /\ ~(fresh.rev < sel.edit.rev)
               /\ Commit([sel EXCEPT !.review.fresh = fresh, !.review.error = TRUE])
      <4>1. /\ g = [id |-> w.id, rev |-> w.rev, baseline |-> w.baseline, acknowledged |-> w.acknowledged,
                    fresh |-> fresh, error |-> TRUE]
        BY <2>1, Notes
      <4>. DEFINE s == [sel EXCEPT !.review = g]
      <4>2. Noting(s, g) /\ Commit(s)
        BY <3>5, NoteIs
      <4>. HIDE DEF s
      <4>3. SeesMore(sel, sel') /\ sel'.review = g /\ (g # None /\ g.fresh # None => Knows(sel'.seen, g.fresh))
        <5>. HIDE DEF g
        <5>. QED BY <4>2, NotesReview
      <4>4. g # None /\ g.fresh = fresh /\ g.baseline = w.baseline
        BY <4>1, Apart
      <4>5. Knows(sel'.seen, fresh)
        BY <3>5, <4>3, <4>4
      <4>6. w.baseline \in Draft /\ Knows(sel'.seen, w.baseline)
        <5>1. w.baseline \in Draft /\ Knows(sel.seen, w.baseline)
          BY <2>1, Parts DEF ReviewOK
        <5>. QED BY <4>3, <5>1, KnowsMore DEF SeesMore
      <4>7. sel'.edit = sel.edit /\ (sel.edit # None => sel.edit.rev \in Nat)
        BY <4>3, Parts DEF SeesMore, SelOK, Draft
      <4>8. sel'.edit # None => sel'.edit.rev <= fresh.rev
        BY <3>4, <3>5, <4>7
      <4>9. ReviewOK(sel', tmpls)
        <5>1. g = [id |-> g.id, rev |-> g.rev, baseline |-> g.baseline, acknowledged |-> g.acknowledged,
                   fresh |-> g.fresh, error |-> g.error]
          BY <4>1
        <5>. HIDE DEF g
        <5>. QED BY <3>4, <3>5, <4>3, <4>4, <4>5, <4>6, <4>8, <5>1 DEF ReviewOK
      <4>. QED BY <4>3, <4>9, Parts, SelSeesMore
    <3>6. CASE /\ fresh # None /\ sel.edit # None /\ ~conflict(sel.edit, w.baseline, fresh)
               /\ Commit([sel EXCEPT !.edit = merged(@, w.baseline, fresh), !.baseline = fresh, !.review = None])
      BY <2>1, <3>4, <3>6, RebasedOK
    <3>. QED BY <2>2, <3>1, <3>2, <3>3, <3>5, <3>6
  <2>. HIDE DEF a, w, fresh
  <2>5. /\ lib' \in [data : Seq(Row) \cup {None}, error : BOOLEAN, recovery : BOOLEAN]
        /\ lib'.data # None => PastList(lib'.data, tmpls)
        /\ PageOK(page', sel', editor, net', edits)
    BY <1>1, <2>3, PageReads DEF a
  <2>. QED BY <1>1, <2>1, <2>4, <2>5, EditorClosed, PageWhole
<1>. QED BY <1>2, <1>3

-----------------------------------------------------------------------------
(* Answers to the editor.                                                 *)

\* The editor's lane, when the editor reads the list or ends.
LEMMA EditorLane ==
  ASSUME TInv, NoneApart, Hang("editor") \/ ReadList("editor")
  PROVE  /\ net' = [k \in Lanes |-> net'[k]] /\ (\A k \in Lanes : PacketOK(net'[k], tmpls))
         /\ net'["page"] = net["page"] /\ \A d, x : AgreeAll(d, x, net) => AgreeAll(d, x, net')
         /\ ReadList("editor") => net'["editor"] # None /\ net'["editor"].cmd = [kind |-> "list"]
<1>1. "page" \in Lanes /\ "editor" \in Lanes /\ "editor" # "page"
  BY DEF Lanes
<1>2. ASSUME Hang("editor")
      PROVE  /\ net' = [k \in Lanes |-> net'[k]] /\ (\A k \in Lanes : PacketOK(net'[k], tmpls))
             /\ net'["page"] = net["page"] /\ \A d, x : AgreeAll(d, x, net) => AgreeAll(d, x, net')
             /\ net'["editor"] = None
  BY <1>1, <1>2, HangOK
<1>3. ASSUME ReadList("editor")
      PROVE  /\ net' = [k \in Lanes |-> net'[k]] /\ (\A k \in Lanes : PacketOK(net'[k], tmpls))
             /\ net'["page"] = net["page"] /\ \A d, x : AgreeAll(d, x, net) => AgreeAll(d, x, net')
             /\ net'["editor"] # None /\ net'["editor"].cmd = [kind |-> "list"]
  <2>1. Send("editor", [kind |-> "list"]) /\ RequestOK([kind |-> "list"], tmpls)
    BY <1>3, ListRequest DEF ReadList
  <2>. QED BY <1>1, <2>1, SendOK
<1>. QED BY <1>2, <1>3

\* A step of the editor, whatever it leaves of the draft.
LEMMA EditorWhole ==
  ASSUME TInv, NoneApart, Keep, editor # Closed,
         lib' \in [data : Seq(Row) \cup {None}, error : BOOLEAN, recovery : BOOLEAN],
         lib'.data # None => PastList(lib'.data, tmpls),
         net' = [k \in Lanes |-> net'[k]], \A k \in Lanes : PacketOK(net'[k], tmpls),
         SelOK(sel', tmpls), ReviewOK(sel', tmpls),
         EditorOK(editor', sel', tmpls, lib', net', edits), PageOK(page, sel', editor', net', edits)
  PROVE  TInv'
<1>1. /\ Rest /\ UNCHANGED <<tab, page, stray, edits>> /\ tmpls' = tmpls
  BY DEF Keep, Rest, server
<1>2. LibOK'
  BY <1>1 DEF LibOK
<1>. QED BY <1>1, <1>2, Parts, Whole

\* The editor's action is over, and its lane with it.
LEMMA EditorEnds ==
  ASSUME TInv, NoneApart, Keep, editor # Closed, Done(None), Hang("editor"), sel' = sel,
         lib' \in [data : Seq(Row) \cup {None}, error : BOOLEAN, recovery : BOOLEAN],
         lib'.data # None => PastList(lib'.data, tmpls)
  PROVE  TInv'
<1>1. editor' = Closed
  BY DEF Done, Closed
<1>2. PageOK(page, sel, Closed, net', edits)
  BY Parts, EditorLane, PageKeeps
<1>. QED BY <1>1, <1>2, Parts, EditorLane, EditorClosed, EditorWhole

\* The list the editor waits for, taken by the library.
LEMMA EditorReads ==
  ASSUME TInv, NoneApart, editor.op \in {"saved", "finish"}, Answered("editor"), Relist(Got("editor"))
  PROVE  /\ lib' \in [data : Seq(Row) \cup {None}, error : BOOLEAN, recovery : BOOLEAN]
         /\ lib'.data # None => PastList(lib'.data, tmpls)
         /\ \A d : AgreeAll(d, lib, net) => AgreeAll(d, lib', net)
         /\ Got("editor").ok => PastList(Got("editor").data, tmpls)
         /\ \A d : AgreeAll(d, lib, net) /\ Got("editor").ok => Agree(Got("editor").data, d)
<1>. DEFINE a == Got("editor")
<1>1. net["editor"] # None /\ net["editor"].cmd.kind = "list"
  BY Parts DEF EditorOK
<1>2. /\ a.ok => PastList(a.data, tmpls)
      /\ \A d, x : AgreeAll(d, x, net) /\ a.ok => Agree(a.data, d)
  BY <1>1, Parts, GotList
<1>3. /\ lib' \in [data : Seq(Row) \cup {None}, error : BOOLEAN, recovery : BOOLEAN]
      /\ lib'.data # None => PastList(lib'.data, tmpls)
      /\ lib'.data = lib.data \/ (a.ok /\ lib'.data = a.data)
  <2>. HIDE DEF a
  <2>1. Relist(a)
    BY DEF a
  <2>. QED BY <1>2, <2>1, ListTaken
<1>. HIDE DEF a
<1>4. \A d : AgreeAll(d, lib, net) => AgreeAll(d, lib', net)
  BY <1>2, <1>3 DEF AgreeAll
<1>. QED BY <1>2, <1>3, <1>4 DEF a

\* In w, what a changed since b is kept, and the rest is from c.
Mixes(w, a, b, c) ==
  \A f \in Fields : w.val[f] = IF a.val[f] = b.val[f] THEN c.val[f] ELSE a.val[f]

\* A draft reconciled with what was stored: it has the stored revision, and only
\* what was typed since differs.
LEMMA Reconciled ==
  ASSUME NEW a \in Draft, NEW b \in Draft, NEW c \in Draft, same(a, b)
  PROVE  LET d == reconcileSaved(a, b, c) IN
         /\ d \in Draft /\ d.id = c.id /\ d.rev = c.rev
         /\ Mixes(d, a, b, c)
<1>. DEFINE v == [f \in Fields |-> IF a.val[f] = b.val[f] THEN c.val[f] ELSE a.val[f]]
<1>1. v \in Vals /\ \A f \in Fields : v[f] = IF a.val[f] = b.val[f] THEN c.val[f] ELSE a.val[f]
  BY DEF Vals, Draft
<1>2. reconcileSaved(a, b, c) = [c EXCEPT !.val = v]
  BY DEF reconcileSaved
<1>. HIDE DEF v
<1>3. reconcileSaved(a, b, c) = [id |-> c.id, rev |-> c.rev, val |-> v, retired |-> c.retired]
  BY <1>2 DEF Draft
<1>. QED BY <1>1, <1>3 DEF Draft, Mixes

\* What was stored has been seen: of what was sent, only a name is trimmed, and
\* what is typed over a name is not what trimming changes.
LEMMA StoredSeen ==
  ASSUME NEW e \in Draft, NEW b \in Draft, NEW d \in Draft, NEW w \in Draft, NEW seen,
         Knows(seen, b), Knows(seen, w), d.val = Trim(b.val), e.val["name"] \in {b.val["name"], "mine "},
         Mixes(w, e, b, d)
  PROVE  Knows(seen, d)
<1>1. d.val["subject"] = b.val["subject"]
      /\ d.val["name"] = IF b.val["name"] = "mine " THEN "mine" ELSE b.val["name"]
  BY TrimKeeps DEF Draft
<1>2. "name" \in Fields /\ "subject" \in Fields /\ \A f \in Fields : f = "name" \/ f = "subject"
  BY DEF Fields
<1>3. <<"subject", d.val["subject"]>> \in seen
  BY <1>1, <1>2 DEF Knows
<1>4. <<"name", d.val["name"]>> \in seen
  <2>1. CASE e.val["name"] = b.val["name"]
    BY <1>2, <2>1 DEF Knows, Mixes
  <2>2. CASE e.val["name"] # b.val["name"]
    <3>1. d.val["name"] = b.val["name"]
      BY <1>1, <2>2
    <3>. QED BY <1>2, <3>1 DEF Knows
  <2>. QED BY <2>1, <2>2
<1>. QED BY <1>2, <1>3, <1>4 DEF Knows

\* The answer to a save.
LEMMA SavedStep == ASSUME TInv, NoneApart, Saved PROVE TInv'
<1>. DEFINE r == editor.run
            d == Got("editor").data
<1>1. /\ editor.op = "save" /\ editor # Closed /\ editor.publication = None /\ Answered("editor") /\ Keep /\ lib' = lib
      /\ SaveOK(r, sel, net, tmpls, lib, edits) /\ sel.review = None
  BY Parts DEF Saved, Closed, EditorOK
<1>2. /\ lib' \in [data : Seq(Row) \cup {None}, error : BOOLEAN, recovery : BOOLEAN]
      /\ lib'.data # None => PastList(lib'.data, tmpls)
  BY <1>1, Flagged
<1>3. CASE ~Got("editor").ok \/ ~same(sel.edit, r.snapshot)
  <2>1. Done(None) /\ Hang("editor") /\ sel' = sel
    BY <1>1, <1>3 DEF Saved
  <2>. QED BY <1>1, <1>2, <2>1, EditorEnds
<1>4. CASE Got("editor").ok /\ same(sel.edit, r.snapshot)
  <2>. DEFINE w == reconcileSaved(sel.edit, r.snapshot, d)
              s == [gen |-> sel.gen, edit |-> w, baseline |-> d, review |-> None, seen |-> sel.seen]
              q == [publish |-> r.publish, started |-> r.started, saved |-> d]
  <2>1. /\ d \in Draft /\ Past(d, tmpls) /\ r.snapshot.rev < d.rev /\ d.val = Trim(r.snapshot.val)
        /\ AgreeAll(d, lib, net)
    BY <1>1, <1>4 DEF SaveOK, Got, Answered
  <2>2. sel.edit # None /\ sel.edit \in Draft /\ r.snapshot \in Draft /\ Knows(sel.seen, r.snapshot)
        /\ sel.edit.val["name"] \in {r.snapshot.val["name"], "mine "}
        /\ (edits = r.started => sel.edit.val = r.snapshot.val) /\ sel.edit.rev = r.snapshot.rev
    BY <1>1, <1>4, Parts DEF same, SelOK, SaveOK
  <2>3. /\ w \in Draft /\ w.id = d.id /\ w.rev = d.rev
        /\ Mixes(w, sel.edit, r.snapshot, d)
    <3>. HIDE DEF d, r
    <3>. QED BY <1>4, <2>1, <2>2, Reconciled
  <2>4. w # None /\ d # None
    <3>. HIDE DEF w, d
    <3>. QED BY <2>1, <2>3, Apart DEF Draft
  <2>5. Commit(s) /\ SelRecord(s)
    <3>. HIDE DEF w, d, r
    <3>1. [sel EXCEPT !.edit = w, !.baseline = d] = s
      <4>1. PICK z : z = [sel EXCEPT !.edit = w, !.baseline = d]
        OBVIOUS
      <4>2. z = s
        BY <1>1, <4>1, Parts DEF SelRecord
      <4>. QED BY <4>1, <4>2
    <3>2. Commit([sel EXCEPT !.edit = w, !.baseline = d])
      BY <1>4 DEF Saved, w, d, r
    <3>. QED BY <3>1, <3>2 DEF SelRecord
  <2>. HIDE DEF w
  <2>6. /\ SelRecord(sel') /\ sel'.gen = sel.gen /\ sel'.edit = w /\ sel'.baseline = d /\ sel'.review = None
        /\ sel.seen \subseteq sel'.seen /\ Knows(sel'.seen, w)
    <3>1. s.gen = sel.gen /\ s.edit = w /\ s.baseline = d /\ s.review = None /\ s.seen = sel.seen
      OBVIOUS
    <3>. HIDE DEF s, d
    <3>. QED BY <2>4, <2>5, <3>1, CommitSel
  <2>7. ReadList("editor") /\ editor' = [op |-> "saved", publication |-> None, run |-> q]
    BY <1>1, <1>4 DEF Saved, Op
  <2>. HIDE DEF d, r
  <2>8. Knows(sel'.seen, d)
    <3>1. Knows(sel'.seen, r.snapshot)
      BY <2>2, <2>6, KnowsMore
    <3>. QED BY <2>1, <2>2, <2>3, <2>6, <3>1, StoredSeen
  <2>9. SelOK(sel', tmpls) /\ ReviewOK(sel', tmpls)
    <3>1. /\ d.id \in DOMAIN tmpls /\ d.rev <= tmpls[d.id].rev
          /\ d.rev = tmpls[d.id].rev => Knows(sel'.seen, tmpls[d.id])
      BY <2>1, <2>8 DEF Past, Knows
    <3>2. sel'.gen \in Nat
      BY <2>6, Parts
    <3>. QED BY <2>1, <2>3, <2>6, <2>8, <3>1, <3>2 DEF SelOK, ReviewOK, SelRecord
  <2>10. edits = r.started => w.val = d.val
    <3>1. ASSUME edits = r.started PROVE \A f \in Fields : w.val[f] = d.val[f]
      BY <2>2, <2>3, <3>1 DEF Mixes
    <3>2. w.val \in Vals /\ d.val \in Vals
      BY <2>1, <2>3 DEF Draft
    <3>. QED BY <3>1, <3>2 DEF Vals
  <2>11. StoredRun(q, sel', tmpls, lib', net', edits)
    <3>1. AgreeAll(d, lib', net')
      BY <1>1, <2>1, <2>7, EditorLane
    <3>2. StoredOK(d, sel', tmpls)
      BY <2>1, <2>3, <2>4, <2>6, <2>8 DEF StoredOK, same
    <3>3. r.publish \in BOOLEAN /\ r.started \in Nat /\ r.started <= edits
      BY <1>1 DEF SaveOK, r
    <3>. QED BY <2>4, <2>6, <2>10, <3>1, <3>2, <3>3 DEF StoredRun
  <2>12. EditorOK(editor', sel', tmpls, lib', net', edits)
    <3>1. net'["editor"] # None /\ net'["editor"].cmd.kind = "list"
      BY <2>7, EditorLane
    <3>. HIDE DEF q
    <3>. QED BY <2>6, <2>7, <2>11, <3>1 DEF EditorOK
  <2>13. PageOK(page, sel', editor', net', edits)
    <3>1. editor'.op = "saved" /\ editor'.publication = None /\ net'["page"] = net["page"]
      BY <2>7, EditorLane
    <3>2. ASSUME page.op \in {"retire", "reread"}, page.gen = sel.gen, page.edit # None PROVE page.edit.rev < w.rev
      <4>1. page.edit \in Draft /\ page.edit.rev <= sel.edit.rev
        BY <2>2, <3>2, Parts DEF PageOK
      <4>2. page.edit.rev \in Nat /\ sel.edit.rev \in Nat /\ w.rev \in Nat /\ sel.edit.rev < w.rev
        BY <2>1, <2>2, <2>3, <4>1 DEF Draft
      <4>. QED BY <4>1, <4>2
    <3>3. page.op \in {"retire", "reread"} /\ page.edit # None => page.edit.rev \in Nat /\ w.rev \in Nat
      BY <2>3, Parts DEF PageOK, Draft
    <3>. QED BY <2>6, <3>1, <3>2, <3>3, Parts DEF PageOK
  <2>. QED BY <1>1, <1>2, <2>7, <2>9, <2>12, <2>13, EditorLane, EditorWhole
<1>. QED BY <1>3, <1>4

\* What is sent for publication is what the editor shows: nothing was typed since
\* the draft was stored.
LEMMA ListedStep == ASSUME TInv, NoneApart, Listed PROVE TInv'
<1>. DEFINE r == editor.run
            c == [kind |-> "publish", id |-> r.saved.id, rev |-> r.saved.rev,
                  shown |-> IF sel.edit = None THEN None ELSE sel.edit.val["subject"]]
<1>1. /\ editor.op = "saved" /\ editor # Closed /\ editor.publication = None /\ Answered("editor") /\ Keep
      /\ sel' = sel /\ Relist(Got("editor")) /\ sel.review = None
      /\ StoredRun(r, sel, tmpls, lib, net, edits)
  BY Parts DEF Listed, Closed, EditorOK
<1>2. /\ lib' \in [data : Seq(Row) \cup {None}, error : BOOLEAN, recovery : BOOLEAN]
      /\ lib'.data # None => PastList(lib'.data, tmpls)
      /\ AgreeAll(r.saved, lib, net) => AgreeAll(r.saved, lib', net)
  BY <1>1, EditorReads
<1>3. CASE ~publishes(r)
  <2>1. Done(None) /\ Hang("editor")
    BY <1>1, <1>3 DEF Listed
  <2>. QED BY <1>1, <1>2, <2>1, EditorEnds
<1>4. CASE publishes(r)
  <2>1. editor' = [op |-> "publish", publication |-> None, run |-> r] /\ Send("editor", c)
    BY <1>1, <1>4 DEF Listed, Op
  <2>2. RequestOK(c, tmpls)
    <3>1. Past(r.saved, tmpls) /\ sel.edit # None /\ sel.edit.val = r.saved.val
      BY <1>1, <1>4 DEF publishes, StoredRun, StoredOK
    <3>2. /\ r.saved.rev \in Nat /\ r.saved.id \in DOMAIN tmpls /\ r.saved.rev <= tmpls[r.saved.id].rev
          /\ r.saved.rev = tmpls[r.saved.id].rev => tmpls[r.saved.id].val["subject"] = sel.edit.val["subject"]
      BY <3>1 DEF Past
    <3>. QED BY <3>1, <3>2 DEF RequestOK, Writes
  <2>3. c.kind = "publish"
    OBVIOUS
  <2>. HIDE DEF c
  <2>4. /\ net' = [k \in Lanes |-> net'[k]] /\ (\A k \in Lanes : PacketOK(net'[k], tmpls))
        /\ net'["editor"] # None /\ net'["editor"].cmd.kind = "publish" /\ net'["page"] = net["page"]
        /\ \A d, x : AgreeAll(d, x, net) => AgreeAll(d, x, net')
    BY <2>1, <2>2, <2>3, Parts, SendOK
  <2>. HIDE DEF r
  <2>5. StoredRun(r, sel, tmpls, lib', net', edits)
    BY <1>1, <1>2, <2>4 DEF StoredRun
  <2>6. EditorOK(editor', sel, tmpls, lib', net', edits)
    BY <1>1, <2>1, <2>4, <2>5 DEF EditorOK
  <2>7. PageOK(page, sel, editor', net', edits)
    BY <1>1, <2>1, <2>4, Parts DEF PageOK
  <2>. QED BY <1>1, <1>2, <2>4, <2>6, <2>7, Parts, EditorWhole
<1>. QED BY <1>3, <1>4

\* The answer to a publication.
LEMMA PublishedStep == ASSUME TInv, NoneApart, Published PROVE TInv'
<1>. DEFINE r == editor.run
            p == [saved |-> r.saved, edits |-> r.started]
<1>1. /\ editor.op = "publish" /\ editor # Closed /\ editor.publication = None /\ Keep
      /\ sel' = sel /\ lib' = lib /\ sel.review = None /\ StoredRun(r, sel, tmpls, lib, net, edits)
  BY Parts DEF Published, Closed, EditorOK
<1>2. /\ lib' \in [data : Seq(Row) \cup {None}, error : BOOLEAN, recovery : BOOLEAN]
      /\ lib'.data # None => PastList(lib'.data, tmpls)
  BY <1>1, Flagged
<1>3. CASE ~Got("editor").ok
  <2>1. Done(None) /\ Hang("editor")
    BY <1>1, <1>3 DEF Published
  <2>. QED BY <1>1, <1>2, <2>1, EditorEnds
<1>4. CASE Got("editor").ok
  <2>1. editor' = [op |-> "finish", run |-> r, publication |-> p] /\ ReadList("editor")
    BY <1>1, <1>4 DEF Published
  <2>2. /\ net' = [k \in Lanes |-> net'[k]] /\ (\A k \in Lanes : PacketOK(net'[k], tmpls))
        /\ net'["editor"] # None /\ net'["editor"].cmd.kind = "list" /\ net'["page"] = net["page"]
        /\ \A d, x : AgreeAll(d, x, net) => AgreeAll(d, x, net')
    BY <2>1, EditorLane
  <2>3. PublicationOK(p, sel, tmpls, lib', net', edits) /\ p # None
    BY <1>1, <2>2, Apart DEF StoredRun, PublicationOK
  <2>. HIDE DEF p, r
  <2>4. EditorOK(editor', sel, tmpls, lib', net', edits)
    <3>1. editor'.op = "finish" /\ editor'.publication = p
          /\ editor' = [op |-> editor'.op, publication |-> editor'.publication, run |-> editor'.run]
      BY <2>1
    <3>. QED BY <1>1, <2>2, <2>3, <3>1 DEF EditorOK
  <2>5. PageOK(page, sel, editor', net', edits)
    BY <1>1, <2>1, <2>2, Parts DEF PageOK
  <2>. QED BY <1>1, <1>2, <2>2, <2>4, <2>5, Parts, EditorWhole
<1>. QED BY <1>3, <1>4

\* What is released has the content that was published, or none.
LEMMA FinishedStep == ASSUME TInv, NoneApart, Finished PROVE TInv'
<1>. DEFINE p == editor.publication
            a == Got("editor")
            list == IF a.ok THEN a.data ELSE lib.data
            fresh == IF Has(list, p.saved.id) THEN Template(p.saved.id, list[p.saved.id]) ELSE None
            based == fresh # None /\ sel.edit # None /\ sel.edit.id = p.saved.id
            changed == edits # p.edits
            base == IF based THEN fresh ELSE sel.baseline
            keeps == fresh = None \/ fresh.rev <= p.saved.rev \/ (changed /\ fresh.val # p.saved.val)
            w == IF keeps THEN sel.edit
                 ELSE IF changed THEN reconcileSaved(sel.edit, p.saved, fresh)
                 ELSE IF same(sel.edit, p.saved) THEN None ELSE sel.edit
            s == [gen |-> sel.gen, edit |-> w, baseline |-> base, review |-> None, seen |-> sel.seen]
<1>1. /\ editor.op = "finish" /\ editor # Closed /\ p # None /\ Answered("editor") /\ Keep /\ Hang("editor")
      /\ Relist(a) /\ sel.review = None /\ PublicationOK(p, sel, tmpls, lib, net, edits)
  BY Parts DEF Finished, Closed, EditorOK
<1>2. /\ lib' \in [data : Seq(Row) \cup {None}, error : BOOLEAN, recovery : BOOLEAN]
      /\ lib'.data # None => PastList(lib'.data, tmpls)
      /\ \A d : AgreeAll(d, lib, net) => AgreeAll(d, lib', net)
      /\ a.ok => PastList(a.data, tmpls)
      /\ AgreeAll(p.saved, lib, net) /\ a.ok => Agree(a.data, p.saved)
  BY <1>1, EditorReads
<1>3. /\ StoredOK(p.saved, sel, tmpls) /\ AgreeAll(p.saved, lib, net)
      /\ p.saved \in Draft /\ Past(p.saved, tmpls) /\ Knows(sel.seen, p.saved)
      /\ (sel.edit # None => same(sel.edit, p.saved) /\ sel.edit \in Draft)
  BY <1>1, Parts DEF PublicationOK, StoredOK, SelOK
<1>4. ASSUME fresh # None
      PROVE  /\ fresh \in Draft /\ Past(fresh, tmpls) /\ fresh.id = p.saved.id
             /\ fresh.rev = p.saved.rev => fresh.val = p.saved.val
  <2>1. list # None /\ p.saved.id \in DOMAIN list /\ fresh = Template(p.saved.id, list[p.saved.id])
    BY <1>4 DEF Has
  <2>2. PastList(list, tmpls) /\ Agree(list, p.saved)
    <3>1. CASE a.ok
      BY <1>2, <1>3, <3>1
    <3>2. CASE ~a.ok
      <4>1. list = lib.data
        BY <3>2
      <4>. QED BY <1>3, <2>1, <4>1, Parts DEF LibOK, AgreeAll
    <3>. QED BY <3>1, <3>2
  <2>. HIDE DEF list, fresh, p
  <2>3. fresh \in Draft /\ Past(fresh, tmpls)
    BY <2>1, <2>2, ListedDraft
  <2>4. fresh.id = p.saved.id /\ fresh.rev = list[p.saved.id].rev /\ fresh.val = list[p.saved.id].val
    BY <2>1 DEF Template
  <2>. QED BY <2>1, <2>2, <2>3, <2>4 DEF Agree, Has
<1>5. /\ Commit(s) /\ SelRecord(s)
      /\ editor' = [op |-> "idle", publication |-> IF keeps THEN p ELSE None]
  <2>. DEFINE rebased == IF based THEN [sel EXCEPT !.baseline = fresh] ELSE sel
  <2>1. rebased = [gen |-> sel.gen, edit |-> sel.edit, baseline |-> base, review |-> None, seen |-> sel.seen]
    <3>. HIDE DEF based, fresh
    <3>1. sel = [gen |-> sel.gen, edit |-> sel.edit, baseline |-> sel.baseline, review |-> None, seen |-> sel.seen]
      BY <1>1, Parts DEF SelRecord
    <3>2. CASE based
      <4>1. PICK z : z = [sel EXCEPT !.baseline = fresh]
        OBVIOUS
      <4>2. z = [gen |-> sel.gen, edit |-> sel.edit, baseline |-> fresh, review |-> None, seen |-> sel.seen]
        BY <3>1, <4>1
      <4>. QED BY <3>2, <4>1, <4>2
    <3>3. CASE ~based
      BY <3>1, <3>3
    <3>. QED BY <3>2, <3>3
  <2>2. IF keeps THEN Commit(rebased) /\ Done(p)
        ELSE /\ Commit([rebased EXCEPT !.edit =
                  IF changed THEN reconcileSaved(@, p.saved, fresh)
                  ELSE IF same(@, p.saved) THEN None ELSE @])
             /\ Done(None)
    BY DEF Finished
  <2>. HIDE DEF rebased, base, fresh, keeps, changed, p
  <2>3. CASE keeps
    <3>1. rebased = s
      BY <2>1, <2>3
    <3>. QED BY <2>2, <2>3, <3>1 DEF Done, SelRecord
  <2>4. CASE ~keeps
    <3>1. rebased.edit = sel.edit
      BY <2>1
    <3>2. PICK z : z = [rebased EXCEPT !.edit =
                  IF changed THEN reconcileSaved(@, p.saved, fresh)
                  ELSE IF same(@, p.saved) THEN None ELSE @]
      OBVIOUS
    <3>3. z = [rebased EXCEPT !.edit = w]
      BY <2>4, <3>1, <3>2
    <3>4. z = s
      <4>. HIDE DEF w
      <4>. QED BY <2>1, <3>3
    <3>5. Commit(z) /\ Done(None)
      BY <2>2, <2>4, <3>2
    <3>. QED BY <2>4, <3>4, <3>5 DEF Done, SelRecord
  <2>. QED BY <2>3, <2>4
<1>6. /\ SelRecord(sel') /\ sel'.gen = sel.gen /\ sel'.edit = w /\ sel'.baseline = base /\ sel'.review = None
      /\ sel.seen \subseteq sel'.seen /\ (w # None => Knows(sel'.seen, w))
  <2>1. s.gen = sel.gen /\ s.edit = w /\ s.baseline = base /\ s.review = None /\ s.seen = sel.seen
    OBVIOUS
  <2>. HIDE DEF s, w, base
  <2>. QED BY <1>5, <2>1, CommitSel
<1>7. CASE keeps
  <2>1. w = sel.edit /\ editor' = [op |-> "idle", publication |-> p]
    BY <1>5, <1>7
  <2>. HIDE DEF w, keeps, p, a
  <2>2. Knows(sel'.seen, p.saved) /\ \A d : Knows(sel.seen, d) => Knows(sel'.seen, d)
    BY <1>3, <1>6, KnowsMore
  <2>3. base # None => base \in Draft /\ (same(sel.edit, base) => Knows(sel'.seen, base))
    <3>1. CASE based
      <4>1. base = fresh /\ sel.edit # None /\ fresh # None
        BY <3>1
      <4>2. same(sel.edit, fresh) => fresh.rev = p.saved.rev
        BY <1>3, <4>1 DEF same
      <4>3. same(sel.edit, fresh) => fresh.val = p.saved.val
        BY <1>4, <4>1, <4>2
      <4>. QED BY <1>4, <2>2, <4>1, <4>3 DEF Knows
    <3>2. CASE ~based
      <4>1. base = sel.baseline
        BY <3>2
      <4>. QED BY <2>2, <4>1, Parts DEF SelOK
    <3>. QED BY <3>1, <3>2
  <2>. HIDE DEF base
  <2>4. SelOK(sel', tmpls) /\ ReviewOK(sel', tmpls)
    BY <1>6, <2>1, <2>2, <2>3, Parts DEF SelOK, ReviewOK, SelRecord
  <2>5. AgreeAll(p.saved, lib', net') /\ net'["page"] = net["page"]
    BY <1>1, <1>2, <1>3, EditorLane
  <2>6. PublicationOK(p, sel', tmpls, lib', net', edits)
    BY <1>1, <1>3, <1>6, <2>1, <2>2, <2>5 DEF PublicationOK, StoredOK
  <2>7. EditorOK(editor', sel', tmpls, lib', net', edits)
    BY <1>6, <2>1, <2>6 DEF EditorOK
  <2>8. PageOK(page, sel', editor', net', edits)
    <3>1. editor.publication # None /\ editor'.op = "idle"
      BY <1>1, <2>1 DEF p
    <3>. QED BY <1>6, <2>1, <2>5, <3>1, Parts DEF PageOK
  <2>. QED BY <1>1, <1>2, <2>4, <2>7, <2>8, EditorLane, EditorWhole
<1>8. CASE ~keeps
  <2>1. fresh # None /\ ~(fresh.rev <= p.saved.rev) /\ (changed => fresh.val = p.saved.val)
        /\ editor' = Closed
    BY <1>5, <1>8 DEF Closed
  <2>2. fresh \in Draft /\ Past(fresh, tmpls) /\ fresh.id = p.saved.id /\ fresh.rev \in Nat
        /\ p.saved.rev \in Nat /\ p.saved.rev < fresh.rev
    BY <1>3, <1>4, <2>1 DEF Draft
  <2>3. w # None => /\ w \in Draft /\ w.id = fresh.id /\ w.rev = fresh.rev /\ changed
                    /\ sel.edit # None /\ sel.edit.rev = p.saved.rev
    <3>1. CASE sel.edit = None
      <4>1. reconcileSaved(sel.edit, p.saved, fresh) = sel.edit
        BY <3>1 DEF reconcileSaved, same
      <4>. HIDE DEF keeps, changed
      <4>. QED BY <1>8, <3>1, <4>1
    <3>2. CASE sel.edit # None
      <4>. HIDE DEF keeps, changed, fresh, p
      <4>1. same(sel.edit, p.saved) /\ sel.edit \in Draft /\ p.saved \in Draft /\ sel.edit.rev = p.saved.rev
        BY <1>3, <3>2 DEF same
      <4>2. LET d == reconcileSaved(sel.edit, p.saved, fresh) IN d \in Draft /\ d.id = fresh.id /\ d.rev = fresh.rev
        BY <2>2, <4>1, Reconciled
      <4>3. w = IF changed THEN reconcileSaved(sel.edit, p.saved, fresh) ELSE None
        BY <1>8, <4>1
      <4>. HIDE DEF w
      <4>. QED BY <3>2, <4>1, <4>2, <4>3
    <3>. QED BY <3>1, <3>2
  <2>4. base # None => base \in Draft
    <3>1. CASE based
      BY <2>2, <3>1
    <3>2. CASE ~based
      BY <3>2, Parts DEF SelOK
    <3>. QED BY <3>1, <3>2
  <2>5. w # None => base = fresh
    BY <1>3, <2>1, <2>3 DEF same
  <2>. HIDE DEF w, keeps, changed, fresh, base, p, a
  <2>6. w # None => Knows(sel'.seen, fresh)
    <3>1. Knows(sel'.seen, p.saved)
      BY <1>3, <1>6, KnowsMore
    <3>. QED BY <2>1, <2>3, <3>1 DEF Knows
  <2>7. w # None => /\ fresh.id \in DOMAIN tmpls /\ fresh.rev <= tmpls[fresh.id].rev
                    /\ fresh.rev = tmpls[fresh.id].rev => Knows(sel'.seen, tmpls[fresh.id])
    BY <2>2, <2>6 DEF Past, Knows
  <2>8. SelOK(sel', tmpls) /\ ReviewOK(sel', tmpls)
    <3>1. sel'.gen \in Nat
      BY <1>6, Parts
    <3>2. same(w, base) => w # None
      BY DEF same
    <3>. QED BY <1>6, <2>3, <2>4, <2>5, <2>6, <2>7, <3>1, <3>2 DEF SelOK, ReviewOK, SelRecord
  <2>9. PageOK(page, sel', Closed, net', edits)
    <3>1. Closed.op = "idle" /\ Closed.publication = None /\ net'["page"] = net["page"]
      BY <1>1, EditorLane DEF Closed
    <3>2. ASSUME page.op \in {"retire", "reread"}, page.gen = sel.gen, page.edit # None, w # None
          PROVE  page.edit.rev <= w.rev
      <4>1. page.edit \in Draft /\ page.edit.rev <= sel.edit.rev
        BY <2>3, <3>2, Parts DEF PageOK
      <4>2. page.edit.rev \in Nat
        BY <4>1 DEF Draft
      <4>. QED BY <2>2, <2>3, <3>2, <4>1, <4>2
    <3>. QED BY <1>6, <3>1, <3>2, Parts DEF PageOK
  <2>. QED BY <1>1, <1>2, <2>1, <2>8, <2>9, EditorClosed, EditorLane, EditorWhole
<1>. QED BY <1>7, <1>8

-----------------------------------------------------------------------------
(* The theorems.                                                          *)

\* The page starts with one template and nothing under way.
LEMMA InitialInvariant == ASSUME NoneApart PROVE Init => TInv
<1>. SUFFICES ASSUME Init PROVE TInv
  OBVIOUS
<1>. DEFINE r == [rev |-> 2, val |-> [f \in Fields |-> "base"], retired |-> FALSE]
            v == [id |-> 1, subject |-> "base", revoked |-> FALSE]
<1>1. ServerOK(tmpls, versions)
  <2>1. r \in Row /\ v \in [id : Nat, subject : Values, revoked : BOOLEAN]
    BY DEF Row, Vals, Values
  <2>2. tmpls = <<r>> /\ versions = <<v>>
    BY DEF Init
  <2>. HIDE DEF r, v
  <2>. QED BY <2>1, <2>2 DEF ServerOK
<1>2. LibOK /\ tab \in {"library", "editor", "versions"} /\ editor = Closed /\ edits \in Nat
      /\ net = [k \in Lanes |-> net[k]] /\ (\A k \in Lanes : net[k] = None) /\ stray = {} /\ page = [op |-> "idle"]
  BY DEF Init, LibOK
<1>3. SelOK(sel, tmpls) /\ ReviewOK(sel, tmpls)
  BY DEF Init, NoSelection, SelOK, ReviewOK
<1>4. EditorOK(editor, sel, tmpls, lib, net, edits)
  BY <1>2, EditorClosed
<1>5. PageOK(page, sel, editor, net, edits)
  BY <1>2, PageQuiet DEF Lanes
<1>. QED BY <1>1, <1>2, <1>3, <1>4, <1>5 DEF TInv, PacketOK

\* Each action of the administrator.
LEMMA UserStep == ASSUME TInv, NoneApart, User PROVE TInv'
  BY SetTabStep, SelectStep, NewStep, UpdateStep, SaveStep, RefreshPublicationStep, RetireStep, RetryStep,
     RevokeStep, KeepReviewedStep DEF User

\* No step leaves the invariant.
LEMMA InvariantStep == ASSUME TInv, NoneApart, [Next]_vars PROVE TInv'
<1>1. CASE UNCHANGED vars
  BY <1>1 DEF vars, TInv, LibOK
<1>2. CASE EditorStep
  BY <1>2, SavedStep, ListedStep, PublishedStep, FinishedStep DEF EditorStep
<1>3. CASE PageStep
  BY <1>3, RetiredStep, RereadStep, RetriedStep, RevokedStep, ReviewedStep DEF PageStep
<1>4. CASE Server
  BY <1>4, ServeStep, LoseStep, StrayStep DEF Server
<1>. QED BY <1>1, <1>2, <1>3, <1>4, UserStep, RevalidateStep, RemountStep, ReadVersionsStep, RivalStep DEF Next

\* The invariant of the template page: every request under way, every draft and
\* every review knows the revision it rests on.
THEOREM TemplateInvariant == ASSUME NoneApart PROVE Spec => []TInv
<1>1. TInv /\ [Next]_vars => TInv'
  BY InvariantStep
<1>. QED BY <1>1, InitialInvariant, PTL DEF Spec

\* A request whose answer is awaited or whose caller is gone.
LEMMA OutstandingOK == ASSUME TInv, NEW c \in Outstanding PROVE RequestOK(c, tmpls)
<1>1. ASSUME NEW k \in Lanes, Unanswered(k) PROVE RequestOK(net[k].cmd, tmpls)
  BY <1>1 DEF TInv, PacketOK, Unanswered
<1>. QED BY <1>1 DEF Outstanding, TInv

\* A save replaces only what its sender had been shown of that revision.
THEOREM OverwritesSeen == ASSUME NoneApart PROVE Spec => OverwritesOnlySeen
<1>1. ASSUME TInv, NEW c \in Outstanding, c.kind = "save", c.id # None, tmpls[c.id].rev = c.rev, NEW f \in Fields
      PROVE  <<f, tmpls[c.id].val[f]>> \in c.seen
  <2>1. RequestOK(c, tmpls)
    BY <1>1, OutstandingOK
  <2>. QED BY <1>1, <2>1 DEF RequestOK, Knows
<1>2. TInv /\ [Next]_vars =>
        \A c \in Outstanding :
          (/\ c.kind = "save" /\ c.id # None /\ c.id \in DOMAIN tmpls /\ rivals' = rivals
           /\ tmpls'[c.id] # tmpls[c.id] /\ tmpls[c.id].rev = c.rev
           /\ tmpls'[c.id].val = Trim(c.val))
          => \A f \in Fields : tmpls'[c.id].val[f] # tmpls[c.id].val[f]
                               => <<f, tmpls[c.id].val[f]>> \in c.seen
  BY <1>1
<1>. QED BY <1>2, TemplateInvariant, PTL DEF Spec, OverwritesOnlySeen

\* Who carries out a write: the server for a lane, for a caller that is gone, or
\* for another administrator.
LEMMA Writers ==
  ASSUME [Next]_vars, versions' # versions
  PROVE  Rival \/ \E c \in Outstanding : Effect(c)
<1>1. CASE Rival
  BY <1>1
<1>2. ASSUME NEW l \in Lanes, Serve(l) PROVE \E c \in Outstanding : Effect(c)
  BY <1>2 DEF Serve, server, Outstanding
<1>3. ASSUME NEW l \in Lanes, Lose(l) PROVE \E c \in Outstanding : Effect(c)
  BY <1>3 DEF Lose, server, Outstanding
<1>4. ASSUME ServeStray PROVE \E c \in Outstanding : Effect(c)
  BY <1>4 DEF ServeStray, server, Outstanding
<1>5. CASE Rest
  BY <1>5 DEF Rest, server
<1>6. CASE UNCHANGED vars
  BY <1>6 DEF vars
<1>7. EditorStep \/ PageStep => Rest
  BY DEF EditorStep, PageStep, Saved, Listed, Published, Finished, Retired, Reread, Retried, Revoked, Reviewed,
         Keep, KeepPage
<1>8. Revalidate \/ Remount \/ readVersions => Rest
  BY DEF Revalidate, Remount, readVersions
<1>9. User => Rest
  BY DEF User, setTab, selectTemplate, newTemplate, replaceEdit, update, save, refreshPublication, retireTemplate,
         retryLibrary, revokeVersion, refreshReview, keepReviewedEdits
<1>. QED BY <1>1, <1>2, <1>3, <1>4, <1>5, <1>6, <1>7, <1>8, <1>9 DEF Next, Server

\* A version that this page published holds what the editor showed.
THEOREM PublishesShown == ASSUME NoneApart PROVE Spec => PublishedAsShown
<1>. DEFINE Counted == rivals \in Nat
            Shown == rivals' = rivals /\ Len(versions') > Len(versions)
                     => \E c \in Outstanding : /\ c.kind = "publish"
                                               /\ c.shown = versions'[Len(versions')].subject
<1>1. Init => Counted
  BY DEF Init
<1>2. Counted /\ [Next]_vars => Counted'
  <2>1. [Next]_vars => rivals' = rivals \/ rivals' = rivals + 1
    BY DEF Next, User, setTab, selectTemplate, newTemplate, replaceEdit, update, save, refreshPublication,
           retireTemplate, retryLibrary, revokeVersion, refreshReview, keepReviewedEdits, EditorStep, PageStep,
           Saved, Listed, Published, Finished, Retired, Reread, Retried, Revoked, Reviewed, Keep, KeepPage, Rest,
           Revalidate, Remount, readVersions, Server, Serve, Lose, ServeStray, Rival, vars
  <2>. QED BY <2>1
<1>3. TInv /\ Counted /\ [Next]_vars => Shown
  <2>. SUFFICES ASSUME TInv, Counted, [Next]_vars, rivals' = rivals, Len(versions') > Len(versions)
                PROVE  \E c \in Outstanding : /\ c.kind = "publish"
                                              /\ c.shown = versions'[Len(versions')].subject
    OBVIOUS
  <2>1. Len(versions) \in Nat
    BY Parts DEF ServerOK
  <2>2. versions' # versions
    BY <2>1
  <2>3. ~Rival
    BY DEF Rival
  <2>4. PICK c \in Outstanding : Effect(c)
    BY <2>2, <2>3, Writers
  <2>5. RequestOK(c, tmpls)
    BY OutstandingOK
  <2>6. c.kind = "publish" /\ c.shown = versions'[Len(versions')].subject
    BY <2>4, <2>5, Parts, EffectServer
  <2>. QED BY <2>6
<1>4. Spec => []Counted
  <2>. HIDE DEF Counted
  <2>. QED BY <1>1, <1>2, PTL DEF Spec
<1>. HIDE DEF Counted
<1>. QED BY <1>3, <1>4, TemplateInvariant, PTL DEF Spec, PublishedAsShown

-----------------------------------------------------------------------------
(* What is typed outlives answers.                                        *)

\* What a selection made of these parts shows.
LEMMA CommitParts ==
  ASSUME NEW g, NEW w, NEW b, NEW v, NEW k, NEW s,
         s = [gen |-> g, edit |-> w, baseline |-> b, review |-> v, seen |-> k], Commit(s)
  PROVE  sel'.gen = g /\ sel'.edit = w
<1>1. SelRecord(s) /\ s.gen = g /\ s.edit = w
  BY DEF SelRecord
<1>. QED BY <1>1, CommitSel

\* The field f of the draft is what it was.
Outlives(f) == sel'.edit # None /\ sel'.edit.val[f] = sel.edit.val[f]

\* The draft is what it was, or belongs to another selection.
SameDraft == sel'.edit = sel.edit \/ sel'.gen # sel.gen

\* Nothing else than these replaces what the draft holds.
LEMMA OtherSteps ==
  ASSUME TInv, [Next]_vars, edits' = edits
  PROVE  SameDraft \/ Saved \/ Finished \/ Reread \/ Reviewed \/ keepReviewedEdits
<1>1. SelRecord(sel) /\ sel.gen \in Nat /\ edits \in Nat
  BY Parts
<1>2. ASSUME NEW t, replaceEdit(t) PROVE SameDraft
  <2>. DEFINE s == [gen |-> sel.gen + 1, edit |-> t, baseline |-> t, review |-> None, seen |-> {}]
  <2>1. PICK z : z = [NoSelection EXCEPT !.gen = sel.gen + 1, !.edit = t, !.baseline = t]
    OBVIOUS
  <2>2. z = s
    BY <2>1 DEF NoSelection
  <2>3. Commit(s)
    BY <1>2, <2>1, <2>2 DEF replaceEdit
  <2>4. s = [gen |-> sel.gen + 1, edit |-> t, baseline |-> t, review |-> None, seen |-> {}]
    OBVIOUS
  <2>. HIDE DEF s
  <2>5. sel'.gen = sel.gen + 1
    BY <2>3, <2>4, CommitParts
  <2>. QED BY <1>1, <2>5 DEF SameDraft
<1>3. Remount => SameDraft
  <2>1. ASSUME Remount PROVE sel'.gen = sel.gen + 1
    BY <2>1 DEF Remount, NoSelection
  <2>. QED BY <1>1, <2>1 DEF SameDraft
<1>4. ASSUME NEW w, NEW s, s = [sel EXCEPT !.review = w], Commit(s) PROVE SameDraft
  <2>1. Noting(s, w)
    BY <1>4, NoteIs
  <2>2. SeesMore(sel, sel')
    BY <1>4, <2>1, NotesReview
  <2>. QED BY <2>2 DEF SeesMore, SameDraft
<1>5. revokeVersion => SameDraft
  <2>1. ASSUME revokeVersion PROVE \E w : Commit([sel EXCEPT !.review = w])
    BY <2>1 DEF revokeVersion
  <2>2. ASSUME NEW w, Commit([sel EXCEPT !.review = w]) PROVE SameDraft
    <3>. DEFINE s == [sel EXCEPT !.review = w]
    <3>1. s = [sel EXCEPT !.review = w] /\ Commit(s)
      BY <2>2
    <3>. HIDE DEF s
    <3>. QED BY <1>4, <3>1
  <2>. QED BY <2>1, <2>2
<1>6. Revoked => SameDraft
  <2>1. ASSUME Revoked PROVE sel' = sel \/ \E w : Commit([sel EXCEPT !.review = w])
    BY <2>1 DEF Revoked
  <2>2. ASSUME NEW w, Commit([sel EXCEPT !.review = w]) PROVE SameDraft
    <3>. DEFINE s == [sel EXCEPT !.review = w]
    <3>1. s = [sel EXCEPT !.review = w] /\ Commit(s)
      BY <2>2
    <3>. HIDE DEF s
    <3>. QED BY <1>4, <3>1
  <2>. QED BY <2>1, <2>2 DEF SameDraft
<1>7. ASSUME sel' = sel PROVE SameDraft
  BY <1>7 DEF SameDraft
<1>8. ASSUME NEW f, update(f) PROVE FALSE
  BY <1>1, <1>8 DEF update
<1>9. User => SameDraft \/ keepReviewedEdits
  BY <1>2, <1>5, <1>7, <1>8 DEF User, setTab, selectTemplate, newTemplate, save, refreshPublication, retireTemplate,
     retryLibrary, refreshReview
<1>10. EditorStep => SameDraft \/ Saved \/ Finished
  BY <1>7 DEF EditorStep, Listed, Published
<1>11. PageStep => SameDraft \/ Reread \/ Reviewed
  BY <1>6, <1>7 DEF PageStep, Retired, Retried
<1>12. Server \/ Rival \/ Revalidate \/ readVersions \/ UNCHANGED vars => SameDraft
  BY <1>7 DEF Server, Serve, Lose, ServeStray, Rival, Revalidate, readVersions, client, vars
<1>. QED BY <1>3, <1>9, <1>10, <1>11, <1>12 DEF Next

\* The answer to a save changes what the save was about.
LEMMA SavedOutlived ==
  ASSUME TInv, NoneApart, Saved, sel.edit # None, NEW f \in Fields, Unsaved(f) PROVE Outlives(f)
<1>. DEFINE r == editor.run
            d == Got("editor").data
            w == reconcileSaved(sel.edit, r.snapshot, d)
<1>1. /\ editor.op = "save" /\ SaveOK(r, sel, net, tmpls, lib, edits) /\ sel.review = None /\ Answered("editor")
  BY Parts DEF Saved, Closed, EditorOK
<1>2. sel.edit.val[f] # r.snapshot.val[f]
  BY <1>1 DEF Unsaved
<1>3. CASE ~Got("editor").ok \/ ~same(sel.edit, r.snapshot)
  BY <1>3 DEF Saved, Outlives
<1>4. CASE Got("editor").ok /\ same(sel.edit, r.snapshot)
  <2>1. d \in Draft /\ sel.edit \in Draft /\ r.snapshot \in Draft
    BY <1>1, <1>4, Parts DEF SaveOK, Got, Answered, same, SelOK
  <2>2. w \in Draft /\ Mixes(w, sel.edit, r.snapshot, d)
    <3>. HIDE DEF d, r
    <3>. QED BY <1>4, <2>1, Reconciled
  <2>3. Commit([sel EXCEPT !.edit = w, !.baseline = d])
    BY <1>4 DEF Saved
  <2>. HIDE DEF w, d, r
  <2>4. w # None /\ w.val[f] = sel.edit.val[f]
    BY <1>2, <2>2, Apart DEF Draft, Mixes
  <2>5. sel'.edit = w
    <3>1. PICK z : z = [sel EXCEPT !.edit = w, !.baseline = d]
      OBVIOUS
    <3>2. z = [gen |-> sel.gen, edit |-> w, baseline |-> d, review |-> sel.review, seen |-> sel.seen]
      BY <3>1, Parts DEF SelRecord
    <3>3. Commit(z)
      BY <2>3, <3>1
    <3>. QED BY <3>2, <3>3, CommitParts
  <2>. QED BY <2>4, <2>5 DEF Outlives
<1>. QED BY <1>3, <1>4

\* A draft that nobody touched since the page remembers it has nothing typed.
LEMMA RereadOutlived ==
  ASSUME TInv, NoneApart, Reread, sel.edit # None, NEW f \in Fields, Unsaved(f) PROVE Outlives(f)
<1>. DEFINE closes == /\ Got("page").ok /\ sel.gen = page.gen /\ sel.edit # None
                      /\ sel.edit = page.edit /\ edits = page.edits /\ sel.edit.id = page.id
<1>1. page.op = "reread" /\ Commit(IF closes THEN [sel EXCEPT !.edit = None] ELSE sel)
  BY DEF Reread
<1>2. ~closes
  <2>. SUFFICES ASSUME closes PROVE FALSE
    OBVIOUS
  <2>1. ~(sel.edit.rev < sel.edit.rev)
    BY Parts DEF SelOK, Draft
  <2>2. editor.publication = None
    BY <1>1, <2>1, Parts DEF PageOK
  <2>3. editor.op = "save" /\ sel.edit.val[f] # editor.run.snapshot.val[f]
    BY <1>1, <2>2, Parts DEF Unsaved, EditorOK
  <2>4. SaveOK(editor.run, sel, net, tmpls, lib, edits)
    BY <2>3, Parts DEF EditorOK
  <2>5. edits \in Nat /\ editor.run.started \in Nat /\ editor.run.started <= edits /\ edits <= editor.run.started
    BY <1>1, <2>3, <2>4, Parts DEF PageOK, SaveOK
  <2>6. edits = editor.run.started
    BY <2>5
  <2>. QED BY <2>3, <2>4, <2>6 DEF SaveOK
<1>3. Commit(sel)
  BY <1>1, <1>2
<1>. QED BY <1>3, Parts, CommitSel DEF Outlives

\* A merge changes what was not typed over the baseline.
LEMMA MergeOutlived ==
  ASSUME TInv, NoneApart, sel.edit # None, sel.review # None, NEW c \in Draft, NEW f \in Fields,
         sel.edit.val[f] # sel.review.baseline.val[f],
         Commit([sel EXCEPT !.edit = merged(@, sel.review.baseline, c), !.baseline = c, !.review = None])
  PROVE  Outlives(f)
<1>. DEFINE w == merged(sel.edit, sel.review.baseline, c)
<1>1. sel.edit \in Draft /\ sel.review.baseline \in Draft
  BY Parts DEF SelOK, ReviewOK
<1>2. w \in Draft /\ w.val[f] = sel.edit.val[f]
  BY <1>1, MergedDraft
<1>3. Commit([sel EXCEPT !.edit = w, !.baseline = c, !.review = None])
  OBVIOUS
<1>. HIDE DEF w
<1>4. PICK z : z = [sel EXCEPT !.edit = w, !.baseline = c, !.review = None]
  OBVIOUS
<1>5. z = [gen |-> sel.gen, edit |-> w, baseline |-> c, review |-> None, seen |-> sel.seen]
  BY <1>4, Parts DEF SelRecord
<1>6. Commit(z)
  BY <1>3, <1>4
<1>7. sel'.edit = w
  BY <1>5, <1>6, CommitParts
<1>. QED BY <1>2, <1>7, Apart DEF Outlives, Draft

\* What was typed is kept when a review is answered, or merged into what it shows.
LEMMA ReviewedOutlived ==
  ASSUME TInv, NoneApart, Reviewed, sel.edit # None, NEW f \in Fields, Unsaved(f) PROVE Outlives(f)
<1>. DEFINE w == sel.review
            a == Got("page")
            fresh == IF a.ok /\ ownsVersionReview /\ Has(a.data, w.id)
                     THEN Template(w.id, a.data[w.id]) ELSE None
<1>1. page.op = "review" /\ Answered("page")
  BY DEF Reviewed
<1>2. ASSUME NEW v, Commit([sel EXCEPT !.review = v]) PROVE Outlives(f)
  <2>. DEFINE s == [sel EXCEPT !.review = v]
  <2>1. Noting(s, v) /\ Commit(s)
    BY <1>2, NoteIs
  <2>. HIDE DEF s
  <2>2. SeesMore(sel, sel')
    BY <2>1, NotesReview
  <2>. QED BY <2>2 DEF SeesMore, Outlives
<1>3. CASE ~ownsVersionReview
  BY <1>3 DEF Reviewed, Outlives
<1>4. CASE ownsVersionReview
  <2>1. w # None /\ editor = Closed
    BY <1>4, ReviewCloses DEF ownsVersionReview
  <2>2. sel.edit.val[f] # w.baseline.val[f]
    BY <2>1 DEF Unsaved, Closed
  <2>3. \/ Commit(sel) \/ \E v : Commit([sel EXCEPT !.review = v])
        \/ /\ fresh # None
           /\ Commit([sel EXCEPT !.edit = merged(@, w.baseline, fresh), !.baseline = fresh, !.review = None])
    BY <1>4 DEF Reviewed, unconfirmed
  <2>4. CASE Commit(sel)
    BY <2>4, Parts, CommitSel DEF Outlives
  <2>5. CASE /\ fresh # None
             /\ Commit([sel EXCEPT !.edit = merged(@, w.baseline, fresh), !.baseline = fresh, !.review = None])
    <3>1. a.ok /\ w.id \in DOMAIN a.data /\ fresh = Template(w.id, a.data[w.id])
      BY <2>5 DEF Has
    <3>2. PastList(a.data, tmpls)
      <4>1. net["page"] # None /\ net["page"].cmd.kind = "list" /\ "page" \in Lanes
        BY <1>1, Parts DEF PageOK
      <4>. QED BY <1>1, <3>1, <4>1, GotList
    <3>. HIDE DEF fresh, a
    <3>3. fresh \in Draft
      BY <3>1, <3>2, ListedDraft
    <3>. QED BY <2>1, <2>2, <2>5, <3>3, MergeOutlived
  <2>. QED BY <1>2, <2>3, <2>4, <2>5
<1>. QED BY <1>3, <1>4

\* What was typed while a publication was under way is rebased on what was published.
LEMMA FinishedOutlived ==
  ASSUME TInv, NoneApart, Finished, sel.edit # None, NEW f \in Fields, Unsaved(f) PROVE Outlives(f)
<1>. DEFINE p == editor.publication
            a == Got("editor")
            list == IF a.ok THEN a.data ELSE lib.data
            fresh == IF Has(list, p.saved.id) THEN Template(p.saved.id, list[p.saved.id]) ELSE None
            rebased == IF fresh # None /\ sel.edit # None /\ sel.edit.id = p.saved.id
                       THEN [sel EXCEPT !.baseline = fresh] ELSE sel
            changed == edits # p.edits
            w == reconcileSaved(sel.edit, p.saved, fresh)
<1>1. /\ editor.op = "finish" /\ Answered("editor") /\ Relist(a) /\ sel.review = None
      /\ PublicationOK(p, sel, tmpls, lib, net, edits)
  BY Parts DEF Finished, Closed, EditorOK
<1>2. sel.edit.val[f] # p.saved.val[f]
  BY <1>1 DEF Unsaved
<1>3. changed /\ same(sel.edit, p.saved) /\ sel.edit \in Draft /\ p.saved \in Draft
  BY <1>1, <1>2, Parts DEF PublicationOK, StoredOK, SelOK
<1>4. PICK b : rebased = [gen |-> sel.gen, edit |-> sel.edit, baseline |-> b, review |-> sel.review, seen |-> sel.seen]
  <2>1. PICK z : z = [sel EXCEPT !.baseline = fresh]
    OBVIOUS
  <2>. HIDE DEF fresh
  <2>2. z = [gen |-> sel.gen, edit |-> sel.edit, baseline |-> fresh, review |-> sel.review, seen |-> sel.seen]
    BY <2>1, Parts DEF SelRecord
  <2>3. sel = [gen |-> sel.gen, edit |-> sel.edit, baseline |-> sel.baseline, review |-> sel.review, seen |-> sel.seen]
    BY Parts DEF SelRecord
  <2>. QED BY <2>1, <2>2, <2>3
<1>5. Commit(rebased) \/ (fresh # None /\ Commit([rebased EXCEPT !.edit = reconcileSaved(@, p.saved, fresh)]))
  BY <1>3 DEF Finished
<1>6. CASE Commit(rebased)
  <2>. HIDE DEF rebased
  <2>1. sel'.edit = sel.edit
    BY <1>4, <1>6, CommitParts
  <2>. QED BY <2>1 DEF Outlives
<1>7. CASE fresh # None /\ Commit([rebased EXCEPT !.edit = reconcileSaved(@, p.saved, fresh)])
  <2>1. list # None /\ p.saved.id \in DOMAIN list /\ fresh = Template(p.saved.id, list[p.saved.id])
    BY <1>7 DEF Has
  <2>2. PastList(list, tmpls)
    BY <1>1, <2>1, Parts, EditorReads DEF LibOK
  <2>. HIDE DEF list, fresh, p, rebased
  <2>3. fresh \in Draft
    BY <2>1, <2>2, ListedDraft
  <2>4. w \in Draft /\ Mixes(w, sel.edit, p.saved, fresh)
    BY <1>3, <2>3, Reconciled
  <2>5. rebased.edit = sel.edit
    BY <1>4
  <2>6. PICK z : z = [rebased EXCEPT !.edit = reconcileSaved(@, p.saved, fresh)]
    OBVIOUS
  <2>7. z = [rebased EXCEPT !.edit = w]
    BY <2>5, <2>6
  <2>8. Commit(z)
    BY <1>7, <2>6
  <2>. HIDE DEF w
  <2>9. z = [gen |-> sel.gen, edit |-> w, baseline |-> b, review |-> sel.review, seen |-> sel.seen]
    BY <1>4, <2>7
  <2>10. sel'.edit = w
    BY <2>8, <2>9, CommitParts
  <2>. QED BY <1>2, <2>4, <2>10, Apart DEF Outlives, Draft, Mixes
<1>. QED BY <1>5, <1>6, <1>7

\* What was typed outlives the answers that it was typed over.
THEOREM TypingSurvives == ASSUME NoneApart PROVE Spec => EditsSurviveReplies
<1>1. TInv /\ [Next]_vars =>
        (sel.edit # None /\ edits' = edits /\ sel'.gen = sel.gen
         => \A f \in Fields : Unsaved(f) => /\ sel'.edit # None
                                            /\ sel'.edit.val[f] = sel.edit.val[f])
  <2>. SUFFICES ASSUME TInv, [Next]_vars, sel.edit # None, edits' = edits, sel'.gen = sel.gen,
                       NEW f \in Fields, Unsaved(f)
                PROVE  Outlives(f)
    BY DEF Outlives
  <2>1. CASE SameDraft
    BY <2>1 DEF SameDraft, Outlives
  <2>2. CASE keepReviewedEdits
    <3>1. editor = Closed /\ page.op = "idle"
      BY <2>2, ReviewCloses DEF keepReviewedEdits
    <3>. QED BY <3>1 DEF Unsaved, Closed
  <2>. QED BY <2>1, <2>2, OtherSteps, SavedOutlived, FinishedOutlived, RereadOutlived, ReviewedOutlived
<1>. QED BY <1>1, TemplateInvariant, PTL DEF Spec, EditsSurviveReplies
=============================================================================

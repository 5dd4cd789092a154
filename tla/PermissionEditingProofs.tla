---------------------- MODULE PermissionEditingProofs ----------------------
(***************************************************************************)
(* Proofs about PermissionEditing, for any profiles, members, fields and   *)
(* bounds.  The promises of the two dialogs are about the moment a write   *)
(* is applied, long after it was put together; the invariant says what     *)
(* every command carries from the click to that moment, and what the       *)
(* dialogs know of the versions on the server.                             *)
(***************************************************************************)
EXTENDS PermissionEditing, TLAPS

\* A revision of a profile read at some time: never newer than the server's, and
\* with the server's values if it is the server's.
VersionOf(p, r, v) ==
  r <= profile[p].rev /\ (r = profile[p].rev => v = profile[p].val)

\* Members hold live profiles only.
HeldAreLive == \A m \in Members : member[m].prof # None => profile[member[m].prof].live

RowsOf(rows) ==
  /\ rows \in [Profiles -> Version \cup {None}]
  /\ \A p \in Profiles : rows[p] # None => VersionOf(p, rows[p].rev, rows[p].val)

\* The rows on the screen are versions the server had.
ListOK == list # None => RowsOf(list)

\* The profile dialogs: the baseline is a version the server had, what the draft
\* changes was typed, an editor that may save shows its baseline, and a ticked
\* box belongs to the preview under it.
EditOK ==
  /\ page = "members" => ui = ClosedUI
  /\ ui.dialog \in {"edit", "delete"} => ui.id \in Profiles
  /\ ui.dialog = "edit" => VersionOf(ui.id, ui.rev, ui.base)
  /\ ui.dialog = "edit" /\ ~ui.stale /\ ~ui.review => seen = ui.base
  /\ ui.fresh # None => ui.fresh = ui.base
  /\ \A f \in Fields : ui.form[f] # ui.base[f] => f \in typed
  /\ ui.confirmed => ui.preview = agreed
  /\ call.op = "refresh" => ui.dialog = "edit" /\ ui.reading
  /\ call.op = "preview" => /\ ui.dialog = "delete" /\ ui.preview = None
                            /\ ~ui.confirmed

\* The member dialog: what the draft changes was typed; its call is about its
\* member.
PermOK ==
  /\ page = "profiles" => perm = ClosedPerm
  /\ perm.snap # None =>
       /\ perm.user # None
       /\ \A f \in Fields : perm.form[f] # perm.snap.ovr[f] => f \in typed
  /\ call.op = "load" => call.arg = perm.user /\ perm.user \in Members
  /\ call.op = "save" => call.arg.user = perm.user

\* A command changes what was typed, in the version that was seen; it deletes
\* for the members that were agreed to.
PatchOf(patch, vals, fields) ==
  DOMAIN patch \subseteq fields \cap Fields /\ \A f \in DOMAIN patch : patch[f] \in vals

Sound(c) ==
  /\ c.op = "update" => /\ c.arg.id \in Profiles /\ c.arg.rev \in Nat
                        /\ VersionOf(c.arg.id, c.arg.rev, c.arg.seen)
                        /\ PatchOf(c.arg.patch, Vals, c.arg.typed)
  /\ c.op = "delete" => c.arg.id \in Profiles /\ c.arg.preview = c.arg.agreed
  /\ c.op = "create" => c.arg \in Form
  /\ c.op = "preview" => c.arg \in Profiles
  /\ c.op = "save" => /\ c.arg.user \in Members /\ c.arg.dest \in Profiles \cup {None}
                      /\ PatchOf(c.arg.patch, Vals \cup {None}, c.arg.typed)

ProfileOps == {"update", "delete", "create", "refresh", "preview"}
MemberOps == {"load", "save"}

\* What an answer carries.
Answer(c) ==
  /\ c.ans.code # "OK" => c.ans.val = None
  /\ c.ans.code = "OK" /\ c.op = "refresh" => RowsOf(c.ans.val)
  /\ c.ans.code = "OK" /\ c.op = "preview" => c.ans.val \in Preview
  /\ c.ans.code = "OK" /\ c.op \in MemberOps => c.ans.val \in SnapshotRecord

CallShape(c) == c = [op |-> c.op, arg |-> c.arg, ans |-> c.ans]

WireOK ==
  /\ call = Idle \/ call.op \in ProfileOps \cup MemberOps
  /\ CallShape(call)
  /\ call.op \in ProfileOps => page = "profiles"
  /\ call.op \in MemberOps => page = "members"
  /\ Sound(call) /\ \A c \in stray : Sound(c) /\ c.op \in WriteOps
  /\ call.ans # None => Answer(call)

\* While no frame is on its way, a member dialog that is not flagged, and an
\* answer it is about to show, have the server's revision.
FreshOK ==
  (up /\ ~due) =>
    /\ perm.snap # None /\ ~perm.needsReload => perm.snap.rev = RevisionOf(perm.user)
    /\ (call.op \in MemberOps /\ call.ans # None /\ call.ans.code = "OK") =>
         call.ans.val.rev = RevisionOf(perm.user)

PInv == TypeOK /\ HeldAreLive /\ ListOK /\ EditOK /\ PermOK /\ WireOK /\ FreshOK

-----------------------------------------------------------------------------
(* What the operators of the model return.                                 *)

LEMMA Blank ==
  /\ defaultForm \in Form /\ emptyOverrideForm \in OverrideForm
  /\ ClosedUI \in ProfileDialog /\ ClosedPerm \in MemberDialog
<1>1. defaultForm \in Form
  BY PermissionBounds DEF defaultForm, Form
<1>2. emptyOverrideForm \in OverrideForm
  BY DEF emptyOverrideForm, OverrideForm
<1>. QED BY <1>1, <1>2 DEF ClosedUI, ProfileDialog, ClosedPerm, MemberDialog

\* The revision bound to a member, a member's snapshot, a deletion preview and the
\* list of profiles have their shapes; the list shows current versions.
LEMMA Reads ==
  ASSUME TypeOK, HeldAreLive
  PROVE  /\ \A m \in Members : RevisionOf(m) \in Bound /\ Snapshot(m) \in SnapshotRecord
         /\ \A p \in Profiles : Observed(p) \in Preview
         /\ RowsOf(Listed)
<1>1. ASSUME NEW m \in Members PROVE RevisionOf(m) \in Bound /\ member[m].ovr \in OverrideForm
  <2>1. member[m] \in MemberRecord
    BY DEF TypeOK
  <2>2. /\ member[m].rev \in Nat /\ member[m].prof \in Profiles \cup {None}
        /\ member[m].ovr \in OverrideForm
    BY <2>1 DEF MemberRecord
  <2>3. member[m].prof # None => profile[member[m].prof].rev \in Nat
    BY <2>2 DEF TypeOK, Version
  <2>. QED BY <2>2, <2>3 DEF RevisionOf, Bound
<1>2. \A m \in Members : Snapshot(m) \in SnapshotRecord
  BY <1>1 DEF Snapshot, SnapshotRecord
<1>3. ASSUME NEW p \in Profiles PROVE Observed(p) \in Preview
  <2>1. {<<m, RevisionOf(m)>> : m \in Holders(p)} \in SUBSET (Members \X Bound)
    BY <1>1 DEF Holders
  <2>2. profile[p].rev \in Nat
    BY DEF TypeOK, Version
  <2>. QED BY <2>1, <2>2 DEF Observed, Preview
<1>4. Listed \in [Profiles -> Version \cup {None}]
  BY DEF Listed, TypeOK
<1>5. ASSUME NEW p \in Profiles, Listed[p] # None
      PROVE  VersionOf(p, Listed[p].rev, Listed[p].val)
  <2>1. Listed[p] = profile[p] /\ profile[p].rev \in Nat
    BY <1>5 DEF Listed, TypeOK, Version
  <2>. QED BY <2>1 DEF VersionOf
<1>. QED BY <1>1, <1>2, <1>3, <1>4, <1>5 DEF RowsOf

\* A patch laid over a form changes fields of the patch only.
LEMMA OverlayType ==
  ASSUME NEW vals, NEW val \in [Fields -> vals], NEW patch, NEW fields,
         PatchOf(patch, vals, fields)
  PROVE  /\ Overlay(val, patch) \in [Fields -> vals]
         /\ \A f \in Fields : Overlay(val, patch)[f] # val[f] => f \in fields
BY DEF Overlay, PatchOf

\* The patch of a draft holds the fields in which it differs from its baseline.
LEMMA PatchType ==
  ASSUME NEW vals, NEW form \in [Fields -> vals], NEW base \in [Fields -> vals],
         NEW fields, \A f \in Fields : form[f] # base[f] => f \in fields
  PROVE  PatchOf(profileFieldPatch(form, base), vals, fields)
BY DEF profileFieldPatch, PatchOf

-----------------------------------------------------------------------------
(* Changes on the server.                                                  *)

\* A profile's values change only together with its revision, which grows.
Grown ==
  \A p \in Profiles : /\ profile[p].rev <= profile'[p].rev
                      /\ profile'[p].rev = profile[p].rev => profile'[p].val = profile[p].val

LEMMA VersionsPersist ==
  ASSUME TypeOK, profile' \in [Profiles -> Version], Grown, NEW p \in Profiles, NEW r \in Nat,
         NEW v, VersionOf(p, r, v)
  PROVE  VersionOf(p, r, v)'
<1>1. profile[p].rev \in Nat /\ profile'[p].rev \in Nat
  BY DEF TypeOK, Version
<1>. QED BY <1>1 DEF VersionOf, Grown

ServerTypes ==
  profile \in [Profiles -> Version] /\ member \in [Members -> MemberRecord] /\ HeldAreLive

LEMMA UpdateStep ==
  ASSUME TypeOK, HeldAreLive, NEW a, ServeUpdate(a), a.id \in Profiles,
         PatchOf(a.patch, Vals, a.typed)
  PROVE  ServerTypes' /\ Grown
<1>1. profile \in [Profiles -> Version] /\ profile[a.id] \in Version
  BY DEF TypeOK
<1>2. Overlay(profile[a.id].val, a.patch) \in Form
  BY <1>1, OverlayType DEF Version, Form
<1>3. PICK v \in Form : profile' \in {profile, [profile EXCEPT ![a.id] =
                           [live |-> TRUE, rev |-> profile[a.id].rev + 1, val |-> v]]}
  BY <1>1, <1>2 DEF ServeUpdate
<1>4. [live |-> TRUE, rev |-> profile[a.id].rev + 1, val |-> v] \in Version
  BY <1>1 DEF Version
<1>5. profile' \in [Profiles -> Version]
  BY <1>1, <1>3, <1>4
<1>6. Grown
  BY <1>1, <1>3, <1>4 DEF Grown, Version
<1>7. \A p \in Profiles : profile[p].live => profile'[p].live
  BY <1>1, <1>3
<1>8. \A m \in Members : member[m].prof \in Profiles \cup {None}
  BY DEF TypeOK, MemberRecord
<1>. QED BY <1>5, <1>6, <1>7, <1>8 DEF ServerTypes, HeldAreLive, TypeOK, ServeUpdate

LEMMA DeleteStep ==
  ASSUME TypeOK, HeldAreLive, NEW a, ServeDelete(a), a.id \in Profiles
  PROVE  ServerTypes' /\ Grown
<1>1. /\ profile \in [Profiles -> Version] /\ profile[a.id] \in Version
      /\ member \in [Members -> MemberRecord]
  BY DEF TypeOK
<1>2. CASE UNCHANGED <<profile, member>>
  BY <1>1, <1>2 DEF ServerTypes, HeldAreLive, Grown, Version
<1>3. CASE /\ profile' = [profile EXCEPT ![a.id].live = FALSE]
           /\ member' = [m \in Members |-> IF member[m].prof = a.id
                           THEN [member[m] EXCEPT !.prof = None, !.rev = @ + 1]
                           ELSE member[m]]
  <2>0. [profile[a.id] EXCEPT !.live = FALSE] \in Version
    BY <1>1 DEF Version
  <2>1. profile' \in [Profiles -> Version]
    BY <1>1, <1>3, <2>0
  <2>2. \A m \in Members : [member[m] EXCEPT !.prof = None, !.rev = @ + 1] \in MemberRecord
    <3>. SUFFICES ASSUME NEW r \in MemberRecord
                  PROVE  [r EXCEPT !.prof = None, !.rev = @ + 1] \in MemberRecord
      BY <1>1
    <3>1. r.rev + 1 \in Nat
      BY DEF MemberRecord
    <3>. QED BY <3>1 DEF MemberRecord
  <2>3. member' \in [Members -> MemberRecord]
    BY <1>1, <1>3, <2>2
  <2>4. \A m \in Members : member'[m].prof # None =>
                             member'[m].prof = member[m].prof /\ member[m].prof # a.id
    BY <1>1, <1>3 DEF MemberRecord
  <2>5. \A p \in Profiles : /\ p # a.id => profile'[p] = profile[p]
                            /\ profile'[p].rev = profile[p].rev
                            /\ profile'[p].val = profile[p].val
    BY <1>1, <1>3 DEF Version
  <2>6. \A p \in Profiles : profile[p].rev \in Nat
    BY <1>1 DEF Version
  <2>7. \A m \in Members : member[m].prof \in Profiles \cup {None}
    BY <1>1 DEF MemberRecord
  <2>8. HeldAreLive'
    BY <2>4, <2>5, <2>7 DEF HeldAreLive
  <2>. QED BY <2>1, <2>3, <2>5, <2>6, <2>8 DEF ServerTypes, Grown
<1>. QED BY <1>2, <1>3 DEF ServeDelete

\* A created profile was held by no member.
LEMMA CreateStep ==
  ASSUME TypeOK, HeldAreLive, NEW a \in Form, ServeCreate(a)
  PROVE  /\ ServerTypes' /\ Grown
         /\ \A m \in Members : RevisionOf(m)' = RevisionOf(m)
<1>1. /\ profile \in [Profiles -> Version] /\ member' = member
      /\ \A m \in Members : member[m].prof \in Profiles \cup {None}
  BY DEF TypeOK, ServeCreate, MemberRecord
<1>2. PICK p \in Profiles : /\ ~profile[p].live /\ profile[p].rev = 1
                            /\ profile' = [profile EXCEPT ![p] =
                                             [live |-> TRUE, rev |-> 2, val |-> a]]
  BY DEF ServeCreate
<1>3. profile' \in [Profiles -> Version]
  <2>1. [live |-> TRUE, rev |-> 2, val |-> a] \in Version
    BY DEF Version
  <2>. QED BY <1>1, <1>2, <2>1
<1>4. \A q \in Profiles : q # p => profile'[q] = profile[q]
  BY <1>1, <1>2
<1>5. profile'[p].rev = 2 /\ profile'[p].live /\ \A q \in Profiles : profile[q].rev \in Nat
  BY <1>1, <1>2 DEF Version
<1>6. \A m \in Members : member[m].prof # p
  BY <1>2, PermissionBounds DEF HeldAreLive
<1>7. \A m \in Members : RevisionOf(m)' = RevisionOf(m)
  BY <1>1, <1>4, <1>6 DEF RevisionOf
<1>8. Grown
  BY <1>2, <1>4, <1>5 DEF Grown
<1>9. HeldAreLive'
  BY <1>1, <1>4, <1>5 DEF HeldAreLive
<1>. QED BY <1>1, <1>3, <1>7, <1>8, <1>9 DEF ServerTypes, TypeOK

\* A save that is applied changes its member's revision.
LEMMA SaveStep ==
  ASSUME TypeOK, HeldAreLive, NEW a, ServeSave(a), a.user \in Members,
         a.dest \in Profiles \cup {None}, PatchOf(a.patch, Vals \cup {None}, a.typed)
  PROVE  /\ ServerTypes' /\ Grown
         /\ CanSave(a) => /\ SavedSnapshot(a) \in SnapshotRecord
                          /\ member' # member
<1>1. /\ profile \in [Profiles -> Version] /\ profile' = profile
      /\ member \in [Members -> MemberRecord] /\ member[a.user] \in MemberRecord
      /\ \A p \in Profiles : profile[p].rev \in Nat
  BY DEF TypeOK, ServeSave, Version
<1>2. Grown
  BY <1>1 DEF Grown
<1>3. CASE ~CanSave(a)
  BY <1>1, <1>2, <1>3 DEF ServeSave, ServerTypes, HeldAreLive
<1>4. CASE CanSave(a)
  <2>1. Overlay(member[a.user].ovr, a.patch) \in OverrideForm
    BY <1>1, OverlayType DEF MemberRecord, OverrideForm
  <2>2. PICK r \in MemberRecord : /\ member' = [member EXCEPT ![a.user] = r]
                                  /\ r.prof = a.dest /\ r.rev # member[a.user].rev
    <3>. DEFINE r == [rev |-> member[a.user].rev + 1, prof |-> a.dest,
                      ovr |-> Overlay(member[a.user].ovr, a.patch)]
    <3>1. r \in MemberRecord /\ r.prof = a.dest /\ r.rev # member[a.user].rev
      BY <1>1, <2>1 DEF MemberRecord
    <3>. QED BY <1>4, <3>1 DEF ServeSave
  <2>3. member' \in [Members -> MemberRecord] /\ member'[a.user] = r
    BY <1>1, <2>2
  <2>4. member' # member
    BY <2>2, <2>3
  <2>5. a.dest # None => profile[a.dest].live
    <3>1. a.expected.prof = member[a.user].prof
      BY <1>4 DEF CanSave, RevisionOf
    <3>. QED BY <1>4, <3>1 DEF CanSave, HeldAreLive
  <2>6. HeldAreLive'
    BY <1>1, <2>2, <2>3, <2>5 DEF HeldAreLive
  <2>7. SavedSnapshot(a) \in SnapshotRecord
    <3>1. [user |-> member[a.user].rev + 1, prof |-> a.dest,
           profRev |-> IF a.dest = None THEN 0 ELSE profile[a.dest].rev] \in Bound
      BY <1>1 DEF Bound, MemberRecord
    <3>. QED BY <2>1, <3>1 DEF SavedSnapshot, SnapshotRecord
  <2>. QED BY <1>1, <1>2, <2>3, <2>4, <2>6, <2>7 DEF ServerTypes
<1>. QED BY <1>3, <1>4

\* Whatever write the server decides, versions only grow and members hold live
\* profiles; a creation changes no member's revision.
LEMMA WriteStep ==
  ASSUME TypeOK, HeldAreLive, NEW c, Sound(c), Write(c)
  PROVE  /\ ServerTypes' /\ Grown
         /\ c.op = "create" => \A m \in Members : RevisionOf(m)' = RevisionOf(m)
<1>1. CASE c.op = "update"
  BY <1>1, UpdateStep DEF Write, Sound
<1>2. CASE c.op = "delete"
  BY <1>2, DeleteStep DEF Write, Sound
<1>3. CASE c.op = "create"
  BY <1>3, CreateStep DEF Write, Sound
<1>4. CASE c.op = "save"
  BY <1>4, SaveStep DEF Write, Sound
<1>5. CASE c.op \notin WriteOps
  <2>1. UNCHANGED <<profile, member>>
    BY <1>5 DEF Write, WriteOps
  <2>2. \A p \in Profiles : profile[p].rev \in Nat
    BY DEF TypeOK, Version
  <2>. QED BY <1>5, <2>1, <2>2 DEF ServerTypes, HeldAreLive, Grown, TypeOK, WriteOps
<1>. QED BY <1>1, <1>2, <1>3, <1>4, <1>5 DEF WriteOps

LEMMA RivalStep ==
  ASSUME TypeOK, HeldAreLive, Rival
  PROVE  ServerTypes' /\ Grown
<1>1. /\ profile \in [Profiles -> Version] /\ member \in [Members -> MemberRecord]
      /\ \A p \in Profiles : profile[p].rev \in Nat
      /\ \A m \in Members : member[m].prof \in Profiles \cup {None}
  BY DEF TypeOK, Version, MemberRecord
<1>2. ASSUME NEW p \in Profiles, NEW f \in Fields, NEW v \in Vals,
             profile' = [profile EXCEPT ![p].val[f] = v, ![p].rev = @ + 1],
             member' = member
      PROVE  ServerTypes' /\ Grown
  <2>1. profile[p] \in Version
    BY <1>1
  <2>2. [profile[p].val EXCEPT ![f] = v] \in Form /\ profile[p].rev + 1 \in Nat
    BY <2>1 DEF Version, Form
  <2>3. /\ profile'[p] = [live |-> profile[p].live, rev |-> profile[p].rev + 1,
                          val |-> [profile[p].val EXCEPT ![f] = v]]
        /\ \A q \in Profiles : q # p => profile'[q] = profile[q]
        /\ DOMAIN profile' = Profiles
        /\ profile' = [q \in Profiles |-> profile'[q]]
    BY <1>1, <1>2, <2>1 DEF Version
  <2>4. profile'[p] \in Version /\ profile'[p].live = profile[p].live
        /\ profile'[p].rev = profile[p].rev + 1
    BY <2>1, <2>2, <2>3 DEF Version
  <2>5. profile' \in [Profiles -> Version]
    BY <1>1, <2>3, <2>4
  <2>6. Grown
    BY <1>1, <2>3, <2>4 DEF Grown
  <2>7. HeldAreLive'
    BY <1>1, <1>2, <2>3, <2>4 DEF HeldAreLive
  <2>. QED BY <1>1, <1>2, <2>5, <2>6, <2>7 DEF ServerTypes
<1>3. ASSUME NEW m \in Members, NEW r \in MemberRecord,
             r.prof # None => profile[r.prof].live,
             member' = [member EXCEPT ![m] = r], profile' = profile
      PROVE  ServerTypes' /\ Grown
  BY <1>1, <1>3 DEF ServerTypes, HeldAreLive, Grown
<1>4. ASSUME NEW m \in Members, NEW f \in Fields, NEW v \in Vals,
             member' = [member EXCEPT ![m].ovr[f] = v, ![m].rev = @ + 1], profile' = profile
      PROVE  ServerTypes' /\ Grown
  <2>1. member[m] \in MemberRecord
    BY <1>1
  <2>2. [member[m].ovr EXCEPT ![f] = v] \in OverrideForm /\ member[m].rev + 1 \in Nat
    BY <2>1 DEF MemberRecord, OverrideForm
  <2>. DEFINE r == [rev |-> member[m].rev + 1, prof |-> member[m].prof,
                    ovr |-> [member[m].ovr EXCEPT ![f] = v]]
  <2>3. member' = [member EXCEPT ![m] = r]
    BY <1>1, <1>4, <2>1 DEF MemberRecord
  <2>4. r \in MemberRecord
    BY <1>1, <2>2 DEF MemberRecord
  <2>5. r.prof # None => profile[r.prof].live
    BY DEF HeldAreLive
  <2>. HIDE DEF r
  <2>. QED BY <1>3, <1>4, <2>3, <2>4, <2>5
<1>5. ASSUME NEW m \in Members, NEW p \in Profiles \cup {None}, p # None => profile[p].live,
             member' = [member EXCEPT ![m].prof = p, ![m].rev = @ + 1], profile' = profile
      PROVE  ServerTypes' /\ Grown
  <2>1. member[m] \in MemberRecord
    BY <1>1
  <2>2. member[m].rev + 1 \in Nat
    BY <2>1 DEF MemberRecord
  <2>. DEFINE r == [rev |-> member[m].rev + 1, prof |-> p, ovr |-> member[m].ovr]
  <2>3. member' = [member EXCEPT ![m] = r]
    BY <1>1, <1>5, <2>1 DEF MemberRecord
  <2>4. r \in MemberRecord
    BY <2>1, <2>2 DEF MemberRecord
  <2>5. r.prof # None => profile[r.prof].live
    BY <1>5
  <2>. HIDE DEF r
  <2>. QED BY <1>3, <1>5, <2>3, <2>4, <2>5
<1>6. ASSUME NEW p \in Profiles, ServeDelete([id |-> p, preview |-> Observed(p)])
      PROVE  ServerTypes' /\ Grown
  BY <1>6, DeleteStep
<1>7. CASE UNCHANGED <<profile, member>>
  BY <1>1, <1>7 DEF ServerTypes, HeldAreLive, Grown
<1>. QED BY <1>2, <1>4, <1>5, <1>6, <1>7 DEF Rival

-----------------------------------------------------------------------------
(* What the page knows survives changes on the server.                     *)

LEMMA RowsPersist ==
  ASSUME TypeOK, ServerTypes', Grown, NEW rows, RowsOf(rows)
  PROVE  RowsOf(rows)'
<1>1. \A p \in Profiles : rows[p] # None => rows[p].rev \in Nat
  BY DEF RowsOf, Version
<1>. QED BY <1>1, VersionsPersist DEF RowsOf, ServerTypes

LEMMA SoundPersists ==
  ASSUME TypeOK, ServerTypes', Grown, NEW c, Sound(c)
  PROVE  Sound(c)'
BY VersionsPersist DEF Sound, ServerTypes

\* The page's side of the state: unchanged by the server's steps.
LEMMA PagePersists ==
  ASSUME PInv, ServerTypes', Grown, UNCHANGED <<page, lists, ui, perm, history>>,
         call'.op = call.op, call'.arg = call.arg
  PROVE  ListOK' /\ EditOK' /\ PermOK'
<1>1. ListOK'
  BY RowsPersist DEF PInv, ListOK, lists
<1>2. ui.dialog = "edit" => VersionOf(ui.id, ui.rev, ui.base)'
  <2>1. ui.rev \in Nat
    BY DEF PInv, TypeOK, ProfileDialog
  <2>2. CASE ui.dialog = "edit"
    <3>1. ui.id \in Profiles /\ VersionOf(ui.id, ui.rev, ui.base)
      BY <2>2 DEF PInv, EditOK
    <3>2. ui.rev <= profile'[ui.id].rev /\ (ui.rev = profile'[ui.id].rev => ui.base = profile'[ui.id].val)
      BY <2>1, <3>1, VersionsPersist DEF ServerTypes, VersionOf, PInv
    <3>. QED BY <3>2 DEF VersionOf
  <2>. QED BY <2>2
<1>3. EditOK'
  BY <1>2 DEF PInv, EditOK, history
<1>4. PermOK'
  BY DEF PInv, PermOK, history
<1>. QED BY <1>1, <1>3, <1>4

-----------------------------------------------------------------------------
(* The steps of the server.                                                *)

\* Flags, cursors and what was typed.
Flags ==
  /\ admin \in BOOLEAN /\ up \in BOOLEAN /\ due \in BOOLEAN /\ pending \in BOOLEAN
  /\ revoked \in BOOLEAN /\ listErr \in BOOLEAN /\ accessError \in BOOLEAN
  /\ loop \in {"idle", "overview", "reload"} /\ page \in {"profiles", "members"}
  /\ typed \subseteq Fields

LEMMA TypesFromParts ==
  ASSUME ServerTypes', Flags', list' \in [Profiles -> Version \cup {None}] \cup {None},
         ui' \in ProfileDialog, perm' \in MemberDialog
  PROVE  TypeOK' /\ HeldAreLive'
BY DEF ServerTypes, Flags, TypeOK

LEMMA DueType ==
  ASSUME Announce
  PROVE  due' \in BOOLEAN
BY DEF Announce

\* If no frame is on its way after a change was announced, nothing changed.
LEMMA Announced ==
  ASSUME Announce, up, ~due'
  PROVE  ~due /\ UNCHANGED <<profile, member>>
BY DEF Announce

\* The revision of a member depends on the two tables only.
LEMMA SameRevision ==
  ASSUME UNCHANGED <<profile, member>>, NEW m
  PROVE  RevisionOf(m)' = RevisionOf(m)
BY DEF RevisionOf

LEMMA PermUser ==
  ASSUME PInv, perm.snap # None \/ call.op \in MemberOps
  PROVE  perm.user \in Members
BY DEF PInv, TypeOK, MemberDialog, PermOK, MemberOps, WireOK, Sound

LEMMA ServeStrayStep ==
  ASSUME PInv, ServeStray
  PROVE  PInv'
<1>1. PICK c \in stray :
        /\ Write(c) /\ stray' = stray \ {c}
        /\ IF c.op = "create" THEN UNCHANGED due ELSE Announce
        /\ UNCHANGED <<admin, up, consumer, page, lists, accessError, ui, perm, call,
                       history, budget>>
  BY DEF ServeStray
<1>2. /\ ServerTypes' /\ Grown
      /\ c.op = "create" => \A m \in Members : RevisionOf(m)' = RevisionOf(m)
  BY <1>1, WriteStep DEF PInv, WireOK
<1>3. Flags'
  <2>1. due' \in BOOLEAN
    BY <1>1, DueType DEF PInv, TypeOK
  <2>. QED BY <1>1, <2>1 DEF PInv, TypeOK, Flags, consumer, lists, history
<1>4. TypeOK' /\ HeldAreLive'
  BY <1>1, <1>2, <1>3, TypesFromParts DEF PInv, TypeOK, lists
<1>5. ListOK' /\ EditOK' /\ PermOK'
  BY <1>1, <1>2, PagePersists
<1>6. WireOK'
  <2>1. Sound(call)'
    BY <1>1, <1>2, SoundPersists DEF PInv, WireOK
  <2>2. \A d \in stray' : Sound(d)' /\ d.op \in WriteOps
    BY <1>1, <1>2, SoundPersists DEF PInv, WireOK
  <2>3. call.ans # None => Answer(call)'
    BY <1>1, <1>2, RowsPersist DEF PInv, WireOK, Answer
  <2>. QED BY <1>1, <2>1, <2>2, <2>3 DEF PInv, WireOK, CallShape
<1>7. FreshOK'
  <2>. SUFFICES ASSUME up', ~due' PROVE FreshOK'
    BY DEF FreshOK
  <2>1. ~due /\ \A m \in Members : RevisionOf(m)' = RevisionOf(m)
    BY <1>1, <1>2, Announced, SameRevision
  <2>. QED BY <1>1, <2>1, PermUser DEF PInv, FreshOK
<1>. QED BY <1>4, <1>5, <1>6, <1>7 DEF PInv

LEMMA RivalKeeps ==
  ASSUME PInv, Rival
  PROVE  PInv'
<1>1. /\ Announce /\ admin' \in {admin, FALSE}
      /\ UNCHANGED <<up, consumer, page, lists, accessError, ui, perm, wire, history>>
  BY DEF Rival
<1>2. ServerTypes' /\ Grown
  BY RivalStep DEF PInv
<1>3. Flags'
  <2>1. due' \in BOOLEAN
    BY <1>1, DueType DEF PInv, TypeOK
  <2>. QED BY <1>1, <2>1 DEF PInv, TypeOK, Flags, consumer, lists, history
<1>4. TypeOK' /\ HeldAreLive'
  BY <1>1, <1>2, <1>3, TypesFromParts DEF PInv, TypeOK, lists
<1>5. ListOK' /\ EditOK' /\ PermOK'
  BY <1>1, <1>2, PagePersists DEF wire
<1>6. WireOK'
  <2>1. Sound(call)'
    BY <1>1, <1>2, SoundPersists DEF PInv, WireOK, wire
  <2>2. \A d \in stray' : Sound(d)' /\ d.op \in WriteOps
    BY <1>1, <1>2, SoundPersists DEF PInv, WireOK, wire
  <2>3. call.ans # None => Answer(call)'
    BY <1>1, <1>2, RowsPersist DEF PInv, WireOK, Answer, wire
  <2>. QED BY <1>1, <2>1, <2>2, <2>3 DEF PInv, WireOK, CallShape, wire
<1>7. FreshOK'
  <2>. SUFFICES ASSUME up', ~due' PROVE FreshOK'
    BY DEF FreshOK
  <2>1. ~due /\ \A m \in Members : RevisionOf(m)' = RevisionOf(m)
    BY <1>1, Announced, SameRevision
  <2>. QED BY <1>1, <2>1, PermUser DEF PInv, FreshOK, wire
<1>. QED BY <1>4, <1>5, <1>6, <1>7 DEF PInv

\* The request of the page is decided, or refused for want of authority.
LEMMA ServeStep ==
  ASSUME PInv, Serve
  PROVE  PInv'
<1>1. /\ call # Idle /\ call.ans = None
      /\ UNCHANGED <<admin, up, consumer, page, lists, accessError, ui, perm, stray,
                     history, budget>>
  BY DEF Serve
<1>2. PICK x : /\ call' = [call EXCEPT !.ans = x]
               /\ IF admin
                  THEN /\ Write(call) /\ x = Outcome(call)
                       /\ IF call.op = "create" THEN UNCHANGED due ELSE Announce
                  ELSE x = Denied /\ UNCHANGED <<profile, member, due>>
  BY DEF Serve
<1>3. call' = [op |-> call.op, arg |-> call.arg, ans |-> x]
  BY <1>2 DEF PInv, WireOK, CallShape
<1>4. call'.op = call.op /\ call'.arg = call.arg /\ call'.ans = x
  BY <1>3
<1>5. /\ ServerTypes' /\ Grown
      /\ call.op = "create" => \A m \in Members : RevisionOf(m)' = RevisionOf(m)
  <2>1. CASE admin
    BY <1>2, <2>1, WriteStep DEF PInv, WireOK
  <2>2. CASE ~admin
    <3>1. \A p \in Profiles : profile[p].rev \in Nat
      BY DEF PInv, TypeOK, Version
    <3>. QED BY <1>2, <2>2, <3>1, SameRevision DEF PInv, TypeOK, ServerTypes, HeldAreLive, Grown
  <2>. QED BY <2>1, <2>2
<1>6. Flags'
  <2>1. due' \in BOOLEAN
    BY <1>2, DueType DEF PInv, TypeOK
  <2>. QED BY <1>1, <2>1 DEF PInv, TypeOK, Flags, consumer, lists, history
<1>7. TypeOK' /\ HeldAreLive'
  BY <1>1, <1>5, <1>6, TypesFromParts DEF PInv, TypeOK, lists
<1>8. ListOK' /\ EditOK' /\ PermOK'
  BY <1>1, <1>4, <1>5, PagePersists
<1>9. call.op \in ProfileOps \cup MemberOps
  BY <1>1 DEF PInv, WireOK
<1>10. /\ x.code # "OK" => x.val = None
       /\ x.code = "OK" /\ call.op \notin WriteOps => UNCHANGED <<profile, member>>
       /\ x.code = "OK" /\ call.op = "refresh" => x.val = Listed
       /\ x.code = "OK" /\ call.op = "preview" => x.val \in Preview
       /\ x.code = "OK" /\ call.op = "load" => x.val = Snapshot(call.arg)
       /\ x.code = "OK" /\ call.op = "save" =>
            x.val \in SnapshotRecord /\ member' # member
  <2>1. CASE ~admin
    BY <1>2, <2>1 DEF Denied
  <2>2. CASE admin /\ call.op \in {"update", "delete", "create"}
    BY <1>2, <2>2 DEF Outcome, OK, Conflict, WriteOps
  <2>3. CASE admin /\ call.op \in {"refresh", "preview", "load"}
    <3>1. UNCHANGED <<profile, member>>
      BY <1>2, <2>3 DEF Write
    <3>2. call.op = "preview" => Observed(call.arg) \in Preview
      BY Reads DEF PInv, WireOK, Sound
    <3>. QED BY <1>2, <2>3, <3>1, <3>2 DEF Outcome, OK, Conflict
  <2>4. CASE admin /\ call.op = "save"
    <3>1. ServeSave(call.arg)
      BY <1>2, <2>4 DEF Write
    <3>2. CanSave(call.arg) => SavedSnapshot(call.arg) \in SnapshotRecord /\ member' # member
      BY <2>4, <3>1, SaveStep DEF PInv, WireOK, Sound
    <3>. QED BY <1>2, <2>4, <3>2 DEF Outcome, OK, Conflict, WriteOps
  <2>. QED BY <1>9, <2>1, <2>2, <2>3, <2>4 DEF ProfileOps, MemberOps
<1>11. WireOK'
  <2>1. Sound(call)'
    <3>1. Sound(call)
      BY DEF PInv, WireOK
    <3>2. call.op = "update" => VersionOf(call.arg.id, call.arg.rev, call.arg.seen)'
      <4>. SUFFICES ASSUME call.op = "update"
                    PROVE  /\ call.arg.rev <= profile'[call.arg.id].rev
                           /\ call.arg.rev = profile'[call.arg.id].rev
                                => call.arg.seen = profile'[call.arg.id].val
        BY <1>4 DEF VersionOf
      <4>1. /\ call.arg.id \in Profiles /\ call.arg.rev \in Nat
            /\ VersionOf(call.arg.id, call.arg.rev, call.arg.seen)
        BY <3>1 DEF Sound
      <4>. QED BY <1>5, <4>1, VersionsPersist DEF PInv, ServerTypes, VersionOf
    <3>. QED BY <1>4, <3>1, <3>2 DEF Sound, PatchOf
  <2>2. \A d \in stray' : Sound(d)' /\ d.op \in WriteOps
    BY <1>1, <1>5, SoundPersists DEF PInv, WireOK
  <2>3. Answer(call)'
    <3>1. x.code = "OK" /\ call.op = "refresh" => RowsOf(x.val)'
      <4>. SUFFICES ASSUME x.code = "OK", call.op = "refresh" PROVE RowsOf(x.val)'
        OBVIOUS
      <4>1. RowsOf(x.val)
        BY <1>10, Reads DEF PInv
      <4>. QED BY <1>5, <4>1, RowsPersist DEF PInv
    <3>2. x.code = "OK" /\ call.op \in MemberOps => x.val \in SnapshotRecord
      <4>1. call.op = "load" => Snapshot(call.arg) \in SnapshotRecord
        BY Reads DEF PInv, PermOK
      <4>. QED BY <1>10, <4>1 DEF MemberOps
    <3>. QED BY <1>4, <1>10, <3>1, <3>2 DEF Answer
  <2>. QED BY <1>1, <1>3, <1>4, <1>9, <2>1, <2>2, <2>3 DEF PInv, WireOK, CallShape
<1>12. FreshOK'
  <2>. SUFFICES ASSUME up', ~due' PROVE FreshOK'
    BY DEF FreshOK
  <2>1. ~due /\ \A m \in Members : RevisionOf(m)' = RevisionOf(m)
    BY <1>1, <1>2, <1>5, Announced, SameRevision
  <2>2. call.op = "save" => x.code # "OK"
    <3>1. call.op = "save" /\ x.code = "OK" => member' # member
      BY <1>10
    <3>2. call.op = "save" => UNCHANGED <<profile, member>>
      BY <1>1, <1>2, Announced
    <3>. QED BY <3>1, <3>2
  <2>3. call.op \in MemberOps /\ x.code = "OK" => x.val.rev = RevisionOf(perm.user)
    BY <1>10, <2>2 DEF MemberOps, Snapshot, PInv, PermOK
  <2>. QED BY <1>1, <1>4, <2>1, <2>3, PermUser DEF PInv, FreshOK
<1>. QED BY <1>7, <1>8, <1>11, <1>12 DEF PInv

-----------------------------------------------------------------------------
(* Steps of the page: the server's tables stand still.                     *)

Still == UNCHANGED <<profile, member, page>>

\* A request replaces the one waited for.
LEMMA SendWire ==
  ASSUME PInv, Still, NEW op \in ProfileOps \cup MemberOps, NEW arg, Send(op, arg),
         op \in ProfileOps => page = "profiles", op \in MemberOps => page = "members",
         Sound([op |-> op, arg |-> arg, ans |-> None])
  PROVE  WireOK' /\ call'.op = op /\ call'.arg = arg /\ call'.ans = None
<1>1. /\ call' = [op |-> op, arg |-> arg, ans |-> None]
      /\ stray' \subseteq stray \cup {call}
      /\ \A c \in stray' : Sound(c) /\ c.op \in WriteOps
  BY DEF Send, Unserved, PInv, WireOK
<1>2. \A c \in stray' : Sound(c)' /\ c.op \in WriteOps
  BY <1>1 DEF Sound, VersionOf, PatchOf, Still
<1>3. Sound(call)'
  BY <1>1 DEF Sound, VersionOf, PatchOf, Still
<1>. QED BY <1>1, <1>2, <1>3 DEF WireOK, CallShape, Still

\* Nobody waits any more, after a fence or an answer.
LEMMA IdleWire ==
  ASSUME PInv, Still, call' = Idle, \A c \in stray' : Sound(c) /\ c.op \in WriteOps
  PROVE  WireOK' /\ call'.op = "none"
<1>1. \A c \in stray' : Sound(c)' /\ c.op \in WriteOps
  BY DEF Sound, VersionOf, PatchOf, Still
<1>2. call'.op = "none" /\ call'.ans = None /\ CallShape(call)'
  BY DEF Idle, CallShape
<1>3. Sound(call)'
  BY <1>2 DEF Sound
<1>. QED BY <1>1, <1>2, <1>3 DEF WireOK, ProfileOps, MemberOps

LEMMA FenceWire ==
  ASSUME PInv, Still, Fence
  PROVE  WireOK' /\ call'.op = "none"
<1>1. call' = Idle /\ \A c \in stray' : Sound(c) /\ c.op \in WriteOps
  BY DEF Fence, Unserved, PInv, WireOK
<1>. QED BY <1>1, IdleWire

LEMMA AnsweredWire ==
  ASSUME PInv, Still, NEW ops, Answered(ops)
  PROVE  WireOK' /\ call'.op = "none"
<1>1. call' = Idle /\ \A c \in stray' : Sound(c) /\ c.op \in WriteOps
  BY DEF Answered, PInv, WireOK
<1>. QED BY <1>1, IdleWire

LEMMA SameWire ==
  ASSUME PInv, Still, UNCHANGED wire
  PROVE  WireOK' /\ call' = call
<1>1. UNCHANGED <<call, stray>>
  BY DEF wire
<1>2. /\ Sound(call)' /\ \A c \in stray' : Sound(c)' /\ c.op \in WriteOps
      /\ call.ans # None => Answer(call)'
  BY <1>1 DEF PInv, WireOK, Sound, VersionOf, PatchOf, Answer, RowsOf, Still
<1>. QED BY <1>1, <1>2 DEF PInv, WireOK, CallShape, Still

\* The list is kept, fetched again or dropped.
LEMMA ListStill ==
  ASSUME PInv, Still, list' = list \/ list' = None \/ Reload
  PROVE  ListOK' /\ list' \in [Profiles -> Version \cup {None}] \cup {None}
<1>1. RowsOf(Listed)
  BY Reads DEF PInv
<1>2. list' \in {list, None, Listed}
  BY DEF Reload
<1>3. \A rows : RowsOf(rows) => RowsOf(rows)'
  BY DEF RowsOf, VersionOf, Still
<1>4. list' # None => RowsOf(list')
  BY <1>1, <1>2 DEF PInv, ListOK
<1>5. list' # None => list' \in [Profiles -> Version \cup {None}]
  BY <1>4 DEF RowsOf
<1>6. ListOK'
  BY <1>4 DEF ListOK, RowsOf, VersionOf, Still
<1>. QED BY <1>5, <1>6

\* A step of the profile page, part by part.
LEMMA ProfileAssembled ==
  ASSUME PInv, Still, page = "profiles", UNCHANGED perm, Flags', ListOK',
         list' \in [Profiles -> Version \cup {None}] \cup {None}, ui' \in ProfileDialog,
         WireOK', EditOK'
  PROVE  PInv'
<1>1. perm' = ClosedPerm
  BY DEF PInv, PermOK
<1>2. call'.op \notin MemberOps
  BY DEF WireOK, Still
<1>3. perm'.snap = None
  BY <1>1 DEF ClosedPerm
<1>4. PermOK' /\ FreshOK'
  BY <1>1, <1>2, <1>3 DEF PermOK, FreshOK, MemberOps
<1>5. ServerTypes'
  BY DEF Still, PInv, TypeOK, HeldAreLive, ServerTypes
<1>6. TypeOK' /\ HeldAreLive'
  BY <1>1, <1>5, Blank, TypesFromParts
<1>. QED BY <1>4, <1>6 DEF PInv

\* A step of the member page.
LEMMA MemberAssembled ==
  ASSUME PInv, Still, page = "members", UNCHANGED ui, Flags', ListOK',
         list' \in [Profiles -> Version \cup {None}] \cup {None}, perm' \in MemberDialog,
         WireOK', PermOK', FreshOK'
  PROVE  PInv'
<1>1. ui' = ClosedUI
  BY DEF PInv, EditOK
<1>2. call'.op \notin ProfileOps
  BY DEF WireOK, Still
<1>3. /\ ui'.dialog = "none" /\ ui'.fresh = None /\ ~ui'.confirmed
      /\ ui'.form = ui'.base
  BY <1>1 DEF ClosedUI
<1>4. EditOK'
  BY <1>1, <1>2, <1>3 DEF EditOK, ProfileOps
<1>5. ServerTypes'
  BY DEF Still, PInv, TypeOK, HeldAreLive, ServerTypes
<1>6. TypeOK' /\ HeldAreLive'
  BY <1>1, <1>5, Blank, TypesFromParts
<1>. QED BY <1>4, <1>6 DEF PInv

\* A closed dialog promises nothing.
LEMMA ClosedEdit ==
  ASSUME ui' = ClosedUI, call'.op \notin {"refresh", "preview"}
  PROVE  EditOK' /\ ui' \in ProfileDialog
<1>1. /\ ui'.dialog = "none" /\ ui'.fresh = None /\ ~ui'.confirmed
      /\ ui'.form = ui'.base
  BY DEF ClosedUI
<1>. QED BY <1>1, Blank DEF EditOK

LEMMA OnProfiles ==
  ASSUME PInv, ui.dialog # "none"
  PROVE  page = "profiles"
BY DEF PInv, TypeOK, EditOK, ClosedUI

LEMMA OnMembers ==
  ASSUME PInv, perm.user # None
  PROVE  page = "members"
BY DEF PInv, TypeOK, PermOK, ClosedPerm

-----------------------------------------------------------------------------
(* The profile page.                                                       *)

\* Actions of the page leave flags and list alone; typed may grow or be emptied.
LEMMA PageFlags ==
  ASSUME PInv, UNCHANGED <<server, stream, consumer, page, lists, accessError>>,
         typed' \subseteq Fields
  PROVE  Still /\ Flags' /\ ListOK' /\ list' \in [Profiles -> Version \cup {None}] \cup {None}
<1>1. Still /\ list' = list
  BY DEF Still, server, lists
<1>2. Flags'
  BY DEF PInv, TypeOK, Flags, server, stream, consumer, lists
<1>. QED BY <1>1, <1>2, ListStill

LEMMA ProfilePageFlags ==
  ASSUME PInv, UNCHANGED <<restOfProfiles, lists, accessError>>, typed' \subseteq Fields
  PROVE  /\ Still /\ Flags' /\ ListOK' /\ perm' = perm
         /\ list' \in [Profiles -> Version \cup {None}] \cup {None}
<1>1. UNCHANGED <<server, stream, consumer, page, lists, accessError>> /\ perm' = perm
  BY DEF restOfProfiles
<1>. QED BY <1>1, PageFlags

LEMMA OpenCreateStep ==
  ASSUME PInv, OpenCreate
  PROVE  PInv'
<1>1. /\ page = "profiles" /\ ui.dialog = "none" /\ ui \in ProfileDialog
      /\ ui' = [ui EXCEPT !.dialog = "create"] /\ UNCHANGED history
      /\ UNCHANGED wire /\ UNCHANGED <<restOfProfiles, lists, accessError>>
  BY DEF OpenCreate, canCreate, canManageScope, PInv, TypeOK
<1>2. typed' \subseteq Fields
  BY <1>1 DEF PInv, TypeOK, history
<1>3. /\ Still /\ Flags' /\ ListOK' /\ perm' = perm
      /\ list' \in [Profiles -> Version \cup {None}] \cup {None}
  BY <1>1, <1>2, ProfilePageFlags
<1>4. WireOK' /\ call' = call
  BY <1>1, <1>3, SameWire
<1>5. ui' \in ProfileDialog
  BY <1>1 DEF ProfileDialog
<1>6. EditOK'
  <2>1. /\ ui'.dialog = "create" /\ ui'.fresh = ui.fresh /\ ui'.base = ui.base
        /\ ui'.form = ui.form /\ ui'.confirmed = ui.confirmed /\ ui'.preview = ui.preview
    BY <1>1 DEF ProfileDialog
  <2>. QED BY <1>1, <1>3, <1>4, <2>1 DEF PInv, EditOK, history, Still
<1>. QED BY <1>1, <1>3, <1>4, <1>5, <1>6, ProfileAssembled

LEMMA HandleCreateStep ==
  ASSUME PInv, handleCreate
  PROVE  PInv'
<1>1. /\ page = "profiles" /\ ui.dialog = "create" /\ ui \in ProfileDialog
      /\ ui' = [ui EXCEPT !.writing = TRUE] /\ UNCHANGED history
      /\ Send("create", defaultForm) /\ UNCHANGED <<restOfProfiles, lists, accessError>>
  BY DEF handleCreate, canCreate, canManageScope, PInv, TypeOK
<1>2. typed' \subseteq Fields
  BY <1>1 DEF PInv, TypeOK, history
<1>3. /\ Still /\ Flags' /\ ListOK' /\ perm' = perm
      /\ list' \in [Profiles -> Version \cup {None}] \cup {None}
  BY <1>1, <1>2, ProfilePageFlags
<1>4. WireOK' /\ call'.op = "create"
  BY <1>1, <1>3, SendWire, Blank DEF Sound, ProfileOps, MemberOps
<1>5. ui' \in ProfileDialog
  BY <1>1 DEF ProfileDialog
<1>6. EditOK'
  <2>1. /\ ui'.dialog = "create" /\ ui'.fresh = ui.fresh /\ ui'.base = ui.base
        /\ ui'.form = ui.form /\ ui'.confirmed = ui.confirmed /\ ui'.preview = ui.preview
    BY <1>1 DEF ProfileDialog
  <2>. QED BY <1>1, <1>3, <1>4, <2>1 DEF PInv, EditOK, history, Still
<1>. QED BY <1>1, <1>3, <1>4, <1>5, <1>6, ProfileAssembled

\* A listed profile is a version the server had.
LEMMA OpenEditStep ==
  ASSUME PInv, NEW p \in Profiles, openEdit(p)
  PROVE  PInv'
<1>1. /\ page = "profiles" /\ list # None /\ list[p] # None /\ ui \in ProfileDialog
      /\ ui' = [ui EXCEPT !.dialog = "edit", !.id = p, !.rev = list[p].rev,
                  !.base = list[p].val, !.form = list[p].val,
                  !.stale = FALSE, !.review = FALSE, !.fresh = None]
      /\ seen' = list[p].val /\ typed' = {} /\ agreed' = agreed
      /\ Fence /\ UNCHANGED <<restOfProfiles, lists, accessError>>
  BY DEF openEdit, mayManage, canManageScope, PInv, TypeOK
<1>2. list[p] \in Version /\ VersionOf(p, list[p].rev, list[p].val)
  BY <1>1 DEF PInv, ListOK, RowsOf
<1>3. /\ Still /\ Flags' /\ ListOK' /\ perm' = perm
      /\ list' \in [Profiles -> Version \cup {None}] \cup {None}
  BY <1>1, ProfilePageFlags
<1>4. WireOK' /\ call'.op = "none"
  BY <1>1, <1>3, FenceWire
<1>5. ui' \in ProfileDialog
  BY <1>1, <1>2 DEF ProfileDialog, Version
<1>6. EditOK'
  <2>1. /\ ui'.dialog = "edit" /\ ui'.id = p /\ ui'.rev = list[p].rev
        /\ ui'.base = list[p].val /\ ui'.form = list[p].val /\ ui'.fresh = None
        /\ ui'.confirmed = ui.confirmed /\ ui'.preview = ui.preview
    BY <1>1 DEF ProfileDialog
  <2>2. VersionOf(ui.id, ui.rev, ui.base)'
    BY <1>2, <1>3, <2>1 DEF VersionOf, Still
  <2>. QED BY <1>1, <1>3, <1>4, <2>1, <2>2 DEF PInv, EditOK, Still
<1>. QED BY <1>1, <1>3, <1>4, <1>5, <1>6, ProfileAssembled

LEMMA TypeStep ==
  ASSUME PInv, NEW f \in Fields, NEW v \in Vals, Type(f, v)
  PROVE  PInv'
<1>1. /\ page = "profiles" /\ ui.dialog = "edit" /\ ui \in ProfileDialog
      /\ ui' = [ui EXCEPT !.form[f] = v]
      /\ typed' = typed \cup {f} /\ seen' = seen /\ agreed' = agreed
      /\ UNCHANGED wire /\ UNCHANGED <<restOfProfiles, lists, accessError>>
  BY DEF Type, PInv, TypeOK
<1>2. typed' \subseteq Fields
  BY <1>1 DEF PInv, TypeOK
<1>3. /\ Still /\ Flags' /\ ListOK' /\ perm' = perm
      /\ list' \in [Profiles -> Version \cup {None}] \cup {None}
  BY <1>1, <1>2, ProfilePageFlags
<1>4. WireOK' /\ call' = call
  BY <1>1, <1>3, SameWire
<1>5. [ui.form EXCEPT ![f] = v] \in Form
  BY <1>1 DEF ProfileDialog, Form
<1>6. ui' = [ui EXCEPT !.form = [ui.form EXCEPT ![f] = v]]
  BY <1>1
<1>7. ui' \in ProfileDialog
  BY <1>1, <1>5, <1>6 DEF ProfileDialog
<1>8. EditOK'
  <2>1. /\ ui'.dialog = "edit" /\ ui'.id = ui.id /\ ui'.rev = ui.rev
        /\ ui'.base = ui.base /\ ui'.form = [ui.form EXCEPT ![f] = v] /\ ui'.fresh = ui.fresh
        /\ ui'.confirmed = ui.confirmed /\ ui'.preview = ui.preview
        /\ ui'.stale = ui.stale /\ ui'.review = ui.review /\ ui'.reading = ui.reading
    BY <1>1, <1>6 DEF ProfileDialog
  <2>2. ui.form \in [Fields -> Vals]
    BY <1>1 DEF ProfileDialog, Form
  <2>3. \A g \in Fields : ui'.form[g] # ui'.base[g] => g \in typed'
    BY <1>1, <2>1, <2>2 DEF PInv, EditOK
  <2>4. VersionOf(ui.id, ui.rev, ui.base)'
    BY <1>1, <1>3, <2>1 DEF PInv, EditOK, VersionOf, Still
  <2>. QED BY <1>1, <1>3, <1>4, <2>1, <2>3, <2>4 DEF PInv, EditOK, Still
<1>. QED BY <1>1, <1>3, <1>4, <1>7, <1>8, ProfileAssembled

LEMMA ConfirmFreshStep ==
  ASSUME PInv, ConfirmFresh
  PROVE  PInv'
<1>1. /\ ui.dialog = "edit" /\ ui.fresh # None /\ ui \in ProfileDialog
      /\ ui' = [ui EXCEPT !.review = ~@]
      /\ typed' = typed /\ agreed' = agreed
      /\ seen' = IF ui.review THEN ui.fresh ELSE seen
      /\ UNCHANGED wire /\ UNCHANGED <<restOfProfiles, lists, accessError>>
  BY DEF ConfirmFresh, PInv, TypeOK
<1>2. typed' \subseteq Fields /\ page = "profiles"
  BY <1>1, OnProfiles DEF PInv, TypeOK
<1>3. /\ Still /\ Flags' /\ ListOK' /\ perm' = perm
      /\ list' \in [Profiles -> Version \cup {None}] \cup {None}
  BY <1>1, <1>2, ProfilePageFlags
<1>4. WireOK' /\ call' = call
  BY <1>1, <1>3, SameWire
<1>5. ui' \in ProfileDialog
  BY <1>1 DEF ProfileDialog
<1>6. EditOK'
  <2>1. /\ ui'.dialog = "edit" /\ ui'.id = ui.id /\ ui'.rev = ui.rev
        /\ ui'.base = ui.base /\ ui'.form = ui.form /\ ui'.fresh = ui.fresh
        /\ ui'.confirmed = ui.confirmed /\ ui'.preview = ui.preview
        /\ ui'.stale = ui.stale /\ ui'.review = ~ui.review /\ ui'.reading = ui.reading
    BY <1>1 DEF ProfileDialog
  <2>2. VersionOf(ui.id, ui.rev, ui.base)'
    BY <1>1, <1>3, <2>1 DEF PInv, EditOK, VersionOf, Still
  <2>. QED BY <1>1, <1>2, <1>3, <1>4, <2>1, <2>2 DEF PInv, EditOK, Still
<1>. QED BY <1>2, <1>3, <1>4, <1>5, <1>6, ProfileAssembled

\* The saved patch was typed, and is for the version on the screen.
LEMMA HandleEditStep ==
  ASSUME PInv, handleEdit
  PROVE  PInv'
<1>. DEFINE cmd == [id |-> ui.id, rev |-> ui.rev,
                    patch |-> profileFieldPatch(ui.form, ui.base),
                    seen |-> seen, typed |-> typed]
<1>1. /\ ui.dialog = "edit" /\ ui \in ProfileDialog /\ ~ui.stale /\ ~ui.review
      /\ ui' = [ui EXCEPT !.writing = TRUE] /\ UNCHANGED history
      /\ Send("update", cmd) /\ UNCHANGED <<restOfProfiles, lists, accessError>>
  BY DEF handleEdit, canEdit, PInv, TypeOK
<1>2. typed' \subseteq Fields /\ page = "profiles"
  BY <1>1, OnProfiles DEF PInv, TypeOK, history
<1>3. /\ Still /\ Flags' /\ ListOK' /\ perm' = perm
      /\ list' \in [Profiles -> Version \cup {None}] \cup {None}
  BY <1>1, <1>2, ProfilePageFlags
<1>4. Sound([op |-> "update", arg |-> cmd, ans |-> None])
  <2>1. ui.id \in Profiles /\ ui.rev \in Nat /\ VersionOf(ui.id, ui.rev, seen)
    BY <1>1 DEF PInv, EditOK, ProfileDialog
  <2>2. PatchOf(profileFieldPatch(ui.form, ui.base), Vals, typed)
    <3>1. ui.form \in [Fields -> Vals] /\ ui.base \in [Fields -> Vals]
      BY <1>1 DEF ProfileDialog, Form
    <3>. QED BY <3>1, PatchType DEF PInv, EditOK
  <2>. QED BY <2>1, <2>2 DEF Sound
<1>5. WireOK' /\ call'.op = "update"
  <2>. HIDE DEF cmd
  <2>. QED BY <1>1, <1>2, <1>3, <1>4, SendWire DEF ProfileOps, MemberOps
<1>6. ui' \in ProfileDialog
  BY <1>1 DEF ProfileDialog
<1>7. EditOK'
  <2>1. /\ ui'.dialog = "edit" /\ ui'.id = ui.id /\ ui'.rev = ui.rev
        /\ ui'.base = ui.base /\ ui'.form = ui.form /\ ui'.fresh = ui.fresh
        /\ ui'.confirmed = ui.confirmed /\ ui'.preview = ui.preview
        /\ ui'.stale = ui.stale /\ ui'.review = ui.review
    BY <1>1 DEF ProfileDialog
  <2>2. VersionOf(ui.id, ui.rev, ui.base)'
    BY <1>1, <1>3, <2>1 DEF PInv, EditOK, VersionOf, Still
  <2>. QED BY <1>1, <1>2, <1>3, <1>5, <2>1, <2>2 DEF PInv, EditOK, Still, history
<1>. QED BY <1>2, <1>3, <1>5, <1>6, <1>7, ProfileAssembled

LEMMA RefreshEditStep ==
  ASSUME PInv, refreshEdit
  PROVE  PInv'
<1>1. /\ ui.dialog = "edit" /\ ui \in ProfileDialog
      /\ ui' = [ui EXCEPT !.reading = TRUE] /\ UNCHANGED history
      /\ Send("refresh", None) /\ UNCHANGED <<restOfProfiles, lists, accessError>>
  BY DEF refreshEdit, PInv, TypeOK
<1>2. typed' \subseteq Fields /\ page = "profiles"
  BY <1>1, OnProfiles DEF PInv, TypeOK, history
<1>3. /\ Still /\ Flags' /\ ListOK' /\ perm' = perm
      /\ list' \in [Profiles -> Version \cup {None}] \cup {None}
  BY <1>1, <1>2, ProfilePageFlags
<1>4. WireOK' /\ call'.op = "refresh"
  BY <1>1, <1>2, <1>3, SendWire DEF Sound, ProfileOps, MemberOps
<1>5. ui' \in ProfileDialog
  BY <1>1 DEF ProfileDialog
<1>6. EditOK'
  <2>1. /\ ui'.dialog = "edit" /\ ui'.id = ui.id /\ ui'.rev = ui.rev /\ ui'.reading
        /\ ui'.base = ui.base /\ ui'.form = ui.form /\ ui'.fresh = ui.fresh
        /\ ui'.confirmed = ui.confirmed /\ ui'.preview = ui.preview
        /\ ui'.stale = ui.stale /\ ui'.review = ui.review
    BY <1>1 DEF ProfileDialog
  <2>2. VersionOf(ui.id, ui.rev, ui.base)'
    BY <1>1, <1>3, <2>1 DEF PInv, EditOK, VersionOf, Still
  <2>. QED BY <1>1, <1>2, <1>3, <1>4, <2>1, <2>2 DEF PInv, EditOK, Still, history
<1>. QED BY <1>2, <1>3, <1>4, <1>5, <1>6, ProfileAssembled

LEMMA CloseDialogStep ==
  ASSUME PInv, CloseEdit \/ CloseDelete
  PROVE  PInv'
<1>1. /\ ui.dialog # "none" /\ ui' = ClosedUI /\ typed' = {}
      /\ Fence \/ (ui.dialog = "create" /\ UNCHANGED wire)
      /\ UNCHANGED <<restOfProfiles, lists, accessError>>
  BY DEF CloseEdit, CloseDelete, Forget
<1>2. page = "profiles"
  BY <1>1, OnProfiles
<1>3. /\ Still /\ Flags' /\ ListOK' /\ perm' = perm
      /\ list' \in [Profiles -> Version \cup {None}] \cup {None}
  BY <1>1, ProfilePageFlags
<1>4. WireOK' /\ call'.op \notin {"refresh", "preview"}
  <2>1. CASE Fence
    BY <1>3, <2>1, FenceWire
  <2>2. CASE ui.dialog = "create" /\ UNCHANGED wire
    BY <1>3, <2>2, SameWire DEF PInv, EditOK
  <2>. QED BY <1>1, <2>1, <2>2
<1>. QED BY <1>1, <1>2, <1>3, <1>4, ClosedEdit, ProfileAssembled

LEMMA LoadPreviewStep ==
  ASSUME PInv, NEW p \in Profiles, loadPreview(p)
  PROVE  PInv'
<1>1. /\ page = "profiles" /\ ui \in ProfileDialog /\ UNCHANGED history
      /\ ui' = [[ui EXCEPT !.preview = None, !.confirmed = FALSE]
                   EXCEPT !.dialog = "delete", !.id = p, !.reading = TRUE]
      /\ Send("preview", p) /\ UNCHANGED <<restOfProfiles, lists, accessError>>
  BY DEF loadPreview, unconfirmed, mayManage, canManageScope, PInv, TypeOK
<1>2. typed' \subseteq Fields
  BY <1>1 DEF PInv, TypeOK, history
<1>3. /\ Still /\ Flags' /\ ListOK' /\ perm' = perm
      /\ list' \in [Profiles -> Version \cup {None}] \cup {None}
  BY <1>1, <1>2, ProfilePageFlags
<1>4. WireOK' /\ call'.op = "preview"
  BY <1>1, <1>3, SendWire DEF Sound, ProfileOps, MemberOps
<1>5. ui' \in ProfileDialog
  BY <1>1 DEF ProfileDialog
<1>6. EditOK'
  <2>1. /\ ui'.dialog = "delete" /\ ui'.id = p /\ ui'.preview = None /\ ~ui'.confirmed
        /\ ui'.base = ui.base /\ ui'.form = ui.form /\ ui'.fresh = ui.fresh
    BY <1>1 DEF ProfileDialog
  <2>. QED BY <1>1, <1>3, <1>4, <2>1 DEF PInv, EditOK, Still, history
<1>. QED BY <1>1, <1>3, <1>4, <1>5, <1>6, ProfileAssembled

\* The box is ticked for the preview above it, which no reply replaces.
LEMMA ConfirmEffectsStep ==
  ASSUME PInv, ConfirmEffects
  PROVE  PInv'
<1>1. /\ ui.dialog = "delete" /\ ui \in ProfileDialog /\ ui.preview # None
      /\ ui' = [ui EXCEPT !.confirmed = ~@]
      /\ typed' = typed /\ seen' = seen
      /\ agreed' = IF ui.confirmed THEN agreed ELSE ui.preview
      /\ UNCHANGED wire /\ UNCHANGED <<restOfProfiles, lists, accessError>>
  BY DEF ConfirmEffects, PInv, TypeOK
<1>2. typed' \subseteq Fields /\ page = "profiles"
  BY <1>1, OnProfiles DEF PInv, TypeOK
<1>3. /\ Still /\ Flags' /\ ListOK' /\ perm' = perm
      /\ list' \in [Profiles -> Version \cup {None}] \cup {None}
  BY <1>1, <1>2, ProfilePageFlags
<1>4. WireOK' /\ call' = call
  BY <1>1, <1>3, SameWire
<1>5. ui' \in ProfileDialog
  BY <1>1 DEF ProfileDialog
<1>6. EditOK'
  <2>1. /\ ui'.dialog = "delete" /\ ui'.id = ui.id
        /\ ui'.base = ui.base /\ ui'.form = ui.form /\ ui'.fresh = ui.fresh
        /\ ui'.confirmed = ~ui.confirmed /\ ui'.preview = ui.preview
    BY <1>1 DEF ProfileDialog
  <2>. QED BY <1>1, <1>2, <1>3, <1>4, <2>1 DEF PInv, EditOK, Still
<1>. QED BY <1>2, <1>3, <1>4, <1>5, <1>6, ProfileAssembled

LEMMA HandleDeleteStep ==
  ASSUME PInv, handleDelete
  PROVE  PInv'
<1>. DEFINE cmd == [id |-> ui.id, preview |-> ui.preview, agreed |-> agreed]
<1>1. /\ ui.dialog = "delete" /\ ui \in ProfileDialog /\ ui.confirmed
      /\ ui' = [ui EXCEPT !.writing = TRUE] /\ UNCHANGED history
      /\ Send("delete", cmd) /\ UNCHANGED <<restOfProfiles, lists, accessError>>
  BY DEF handleDelete, PInv, TypeOK
<1>2. typed' \subseteq Fields /\ page = "profiles"
  BY <1>1, OnProfiles DEF PInv, TypeOK, history
<1>3. /\ Still /\ Flags' /\ ListOK' /\ perm' = perm
      /\ list' \in [Profiles -> Version \cup {None}] \cup {None}
  BY <1>1, <1>2, ProfilePageFlags
<1>4. Sound([op |-> "delete", arg |-> cmd, ans |-> None])
  BY <1>1 DEF PInv, EditOK, Sound
<1>5. WireOK' /\ call'.op = "delete"
  <2>. HIDE DEF cmd
  <2>. QED BY <1>1, <1>2, <1>3, <1>4, SendWire DEF ProfileOps, MemberOps
<1>6. ui' \in ProfileDialog
  BY <1>1 DEF ProfileDialog
<1>7. EditOK'
  <2>1. /\ ui'.dialog = "delete" /\ ui'.id = ui.id
        /\ ui'.base = ui.base /\ ui'.form = ui.form /\ ui'.fresh = ui.fresh
        /\ ui'.confirmed = ui.confirmed /\ ui'.preview = ui.preview
    BY <1>1 DEF ProfileDialog
  <2>. QED BY <1>1, <1>2, <1>3, <1>5, <2>1 DEF PInv, EditOK, Still, history
<1>. QED BY <1>2, <1>3, <1>5, <1>6, <1>7, ProfileAssembled

LEMMA ProfilePageStep ==
  ASSUME PInv, ProfilePage
  PROVE  PInv'
BY OpenCreateStep, HandleCreateStep, ConfirmFreshStep, HandleEditStep, RefreshEditStep,
   CloseDialogStep, ConfirmEffectsStep, HandleDeleteStep, OpenEditStep, LoadPreviewStep,
   TypeStep
   DEF ProfilePage

-----------------------------------------------------------------------------
(* The replies to the profile page.                                        *)

LEMMA RefusalType ==
  ASSUME refusal
  PROVE  accessError' \in BOOLEAN
BY DEF refusal

\* A reply finds the page that asked, and may fetch the list.
LEMMA ReplyFlags ==
  ASSUME PInv, UNCHANGED restOfProfiles, refusal, typed' \subseteq Fields,
         call.op \in ProfileOps, UNCHANGED lists \/ Reload
  PROVE  /\ Still /\ Flags' /\ ListOK' /\ perm' = perm /\ page = "profiles"
         /\ list' \in [Profiles -> Version \cup {None}] \cup {None}
<1>1. UNCHANGED <<server, stream, consumer, page>> /\ perm' = perm /\ page = "profiles"
  BY DEF restOfProfiles, PInv, WireOK
<1>2. Still
  BY <1>1 DEF Still, server
<1>3. listErr' \in BOOLEAN
  BY DEF lists, Reload, PInv, TypeOK
<1>4. Flags'
  BY <1>1, <1>3, RefusalType DEF PInv, TypeOK, Flags, server, stream, consumer
<1>5. ListOK' /\ list' \in [Profiles -> Version \cup {None}] \cup {None}
  BY <1>2, ListStill DEF lists
<1>. QED BY <1>1, <1>2, <1>4, <1>5

\* The dialog closes on success, with the list read again.
LEMMA CloseOnReply ==
  ASSUME PInv, NEW ops, Answered(ops), call.op \in ProfileOps, UNCHANGED restOfProfiles, refusal,
         typed' \subseteq Fields, ui' = ClosedUI, Reload
  PROVE  PInv'
<1>1. /\ Still /\ Flags' /\ ListOK' /\ perm' = perm /\ page = "profiles"
      /\ list' \in [Profiles -> Version \cup {None}] \cup {None}
  BY ReplyFlags
<1>2. WireOK' /\ call'.op = "none"
  BY <1>1, AnsweredWire
<1>. QED BY <1>1, <1>2, ClosedEdit, ProfileAssembled

\* A refused or unknown outcome marks the dialog and leaves it open.
LEMMA MarkOnReply ==
  ASSUME PInv, NEW ops, Answered(ops), call.op \in ProfileOps, UNCHANGED restOfProfiles, refusal,
         UNCHANGED history, UNCHANGED lists,
         \/ ui' = [ui EXCEPT !.writing = FALSE, !.stale = TRUE]
         \/ ui' = [ui EXCEPT !.writing = FALSE]
         \/ ui' = [[ui EXCEPT !.preview = None, !.confirmed = FALSE] EXCEPT !.writing = FALSE]
         \/ ui' = [ui EXCEPT !.stale = TRUE, !.fresh = None, !.review = FALSE, !.reading = FALSE]
  PROVE  PInv'
<1>1. typed' \subseteq Fields /\ ui \in ProfileDialog
  BY DEF history, PInv, TypeOK
<1>2. /\ Still /\ Flags' /\ ListOK' /\ perm' = perm /\ page = "profiles"
      /\ list' \in [Profiles -> Version \cup {None}] \cup {None}
  BY <1>1, ReplyFlags
<1>3. WireOK' /\ call'.op = "none"
  BY <1>2, AnsweredWire
<1>4. ui' \in ProfileDialog
  BY <1>1 DEF ProfileDialog
<1>5. EditOK'
  <2>1. /\ ui'.dialog = ui.dialog /\ ui'.id = ui.id /\ ui'.rev = ui.rev
        /\ ui'.base = ui.base /\ ui'.form = ui.form
        /\ ui'.fresh \in {ui.fresh, None}
        /\ ui'.confirmed => ui.confirmed /\ ui'.preview = ui.preview
        /\ ~ui'.stale => ~ui.stale /\ ui'.review = ui.review
    BY <1>1 DEF ProfileDialog
  <2>2. ui.dialog = "edit" => VersionOf(ui.id, ui.rev, ui.base)'
    BY <1>2, <2>1 DEF PInv, EditOK, VersionOf, Still
  <2>. QED BY <1>2, <1>3, <2>1, <2>2 DEF PInv, EditOK, Still, history
<1>. QED BY <1>2, <1>3, <1>4, <1>5, ProfileAssembled

\* A version found by refreshEdit becomes the baseline, to be reviewed; of the
\* draft only typed fields survive.
LEMMA RefreshedStep ==
  ASSUME PInv, Refreshed
  PROVE  PInv'
<1>1. /\ Answered({"refresh"}) /\ call.op = "refresh" /\ call.ans # None /\ refusal
      /\ UNCHANGED restOfProfiles /\ UNCHANGED history
  BY DEF Refreshed, Answered
<1>2. CASE ~(call.ans.code = "OK" /\ call.ans.val[ui.id] # None /\ canManageScope)
  BY <1>1, <1>2, MarkOnReply DEF Refreshed, ProfileOps
<1>3. CASE call.ans.code = "OK" /\ call.ans.val[ui.id] # None /\ canManageScope
  <2>. DEFINE now == call.ans.val[ui.id]
  <2>1. /\ ui' = rebased(now) /\ list' = call.ans.val /\ listErr' = listErr
        /\ ui \in ProfileDialog /\ ui.dialog = "edit" /\ ui.id \in Profiles
    BY <1>1, <1>3 DEF Refreshed, PInv, TypeOK, EditOK
  <2>2. RowsOf(call.ans.val)
    BY <1>1, <1>3 DEF PInv, WireOK, Answer
  <2>3. now \in Version /\ VersionOf(ui.id, now.rev, now.val)
    BY <1>3, <2>1, <2>2 DEF RowsOf
  <2>4. /\ UNCHANGED <<server, stream, consumer, page>> /\ perm' = perm
        /\ page = "profiles" /\ typed' \subseteq Fields
    BY <1>1 DEF restOfProfiles, PInv, WireOK, ProfileOps, TypeOK, history
  <2>5. Still
    BY <2>4 DEF Still, server
  <2>6. Flags'
    BY <1>1, <2>1, <2>4, RefusalType DEF PInv, TypeOK, Flags, server, stream, consumer
  <2>7. ListOK' /\ list' \in [Profiles -> Version \cup {None}] \cup {None}
    BY <2>1, <2>2, <2>5 DEF ListOK, RowsOf, VersionOf, Still
  <2>8. WireOK' /\ call'.op = "none"
    BY <1>1, <2>5, AnsweredWire
  <2>. DEFINE form == Rebase(ui.form, ui.base, now.val)
  <2>9. form \in Form /\ \A f \in Fields : form[f] # now.val[f] => f \in typed
    <3>1. /\ ui.form \in [Fields -> Vals] /\ ui.base \in [Fields -> Vals]
          /\ now.val \in [Fields -> Vals]
      BY <2>1, <2>3 DEF ProfileDialog, Form, Version
    <3>2. PatchOf(profileFieldPatch(ui.form, ui.base), Vals, typed)
      BY <3>1, PatchType DEF PInv, EditOK
    <3>. HIDE DEF now
    <3>. QED BY <3>1, <3>2, OverlayType DEF Rebase, Form
  <2>10. ui' = [ui EXCEPT !.rev = now.rev, !.base = now.val, !.fresh = now.val, !.form = form,
                  !.review = TRUE, !.stale = FALSE, !.reading = FALSE]
    BY <2>1 DEF rebased
  <2>. HIDE DEF now, form
  <2>11. now.rev \in Nat /\ now.val \in Form
    BY <2>3 DEF Version
  <2>12. ui' \in ProfileDialog
    BY <2>1, <2>9, <2>10, <2>11 DEF ProfileDialog
  <2>13. EditOK'
    <3>1. /\ ui'.dialog = "edit" /\ ui'.id = ui.id /\ ui'.rev = now.rev
          /\ ui'.base = now.val /\ ui'.form = form /\ ui'.fresh = now.val
          /\ ui'.confirmed = ui.confirmed /\ ui'.preview = ui.preview /\ ui'.review
      BY <2>1, <2>10 DEF ProfileDialog
    <3>2. VersionOf(ui.id, ui.rev, ui.base)'
      BY <2>3, <2>5, <3>1 DEF VersionOf, Still
    <3>. QED BY <1>1, <2>1, <2>4, <2>5, <2>8, <2>9, <3>1, <3>2 DEF PInv, EditOK, Still, history
  <2>. QED BY <2>4, <2>5, <2>6, <2>7, <2>8, <2>12, <2>13, ProfileAssembled
<1>. QED BY <1>2, <1>3

LEMMA PreviewedStep ==
  ASSUME PInv, Previewed
  PROVE  PInv'
<1>1. /\ Answered({"preview"}) /\ call.op = "preview" /\ call.ans # None /\ refusal
      /\ UNCHANGED restOfProfiles /\ UNCHANGED history /\ UNCHANGED lists
      /\ ui' = [ui EXCEPT !.preview = call.ans.val, !.reading = FALSE]
      /\ ui \in ProfileDialog
  BY DEF Previewed, Answered, PInv, TypeOK
<1>2. /\ call.ans.val \in Preview \cup {None} /\ typed' \subseteq Fields
      /\ ui.dialog = "delete" /\ ~ui.confirmed
  BY <1>1 DEF PInv, WireOK, Answer, TypeOK, history, EditOK
<1>3. /\ Still /\ Flags' /\ ListOK' /\ perm' = perm /\ page = "profiles"
      /\ list' \in [Profiles -> Version \cup {None}] \cup {None}
  BY <1>1, <1>2, ReplyFlags DEF ProfileOps
<1>4. WireOK' /\ call'.op = "none"
  BY <1>1, <1>3, AnsweredWire
<1>5. ui' \in ProfileDialog
  BY <1>1, <1>2 DEF ProfileDialog
<1>6. EditOK'
  <2>1. /\ ui'.dialog = "delete" /\ ui'.id = ui.id /\ ~ui'.confirmed
        /\ ui'.base = ui.base /\ ui'.form = ui.form /\ ui'.fresh = ui.fresh
    BY <1>1, <1>2 DEF ProfileDialog
  <2>. QED BY <1>1, <1>2, <1>3, <1>4, <2>1 DEF PInv, EditOK, Still, history
<1>. QED BY <1>3, <1>4, <1>5, <1>6, ProfileAssembled

LEMMA ProfileReplies ==
  ASSUME PInv, Created \/ Edited \/ Refreshed \/ Previewed \/ Deleted
  PROVE  PInv'
<1>1. CASE Created
  <2>1. /\ Answered({"create"}) /\ call.op \in ProfileOps /\ refusal /\ UNCHANGED restOfProfiles
        /\ UNCHANGED history /\ typed' \subseteq Fields
    BY <1>1 DEF Created, Answered, ProfileOps, history, PInv, TypeOK
  <2>2. CASE call.ans.code = "OK"
    BY <1>1, <2>1, <2>2, CloseOnReply DEF Created
  <2>3. CASE call.ans.code # "OK"
    BY <1>1, <2>1, <2>3, MarkOnReply DEF Created
  <2>. QED BY <2>2, <2>3
<1>2. CASE Edited
  <2>1. /\ Answered({"update"}) /\ call.op \in ProfileOps /\ refusal /\ UNCHANGED restOfProfiles
    BY <1>2 DEF Edited, Answered, ProfileOps
  <2>2. CASE call.ans.code = "OK"
    BY <1>2, <2>1, <2>2, CloseOnReply DEF Edited, Forget
  <2>3. CASE call.ans.code # "OK"
    BY <1>2, <2>1, <2>3, MarkOnReply DEF Edited
  <2>. QED BY <2>2, <2>3
<1>3. CASE Deleted
  <2>1. /\ Answered({"delete"}) /\ call.op \in ProfileOps /\ refusal /\ UNCHANGED restOfProfiles
    BY <1>3 DEF Deleted, Answered, ProfileOps
  <2>2. CASE call.ans.code = "OK"
    BY <1>3, <2>1, <2>2, CloseOnReply DEF Deleted, Forget
  <2>3. CASE call.ans.code # "OK"
    BY <1>3, <2>1, <2>3, MarkOnReply DEF Deleted, unconfirmed
  <2>. QED BY <2>2, <2>3
<1>. QED BY <1>1, <1>2, <1>3, RefreshedStep, PreviewedStep

-----------------------------------------------------------------------------
(* The member page.                                                        *)

LEMMA MemberPageFlags ==
  ASSUME PInv, UNCHANGED restOfMembers, UNCHANGED lists, typed' \subseteq Fields
  PROVE  /\ Still /\ Flags' /\ ListOK' /\ ui' = ui /\ UNCHANGED <<up, due>>
         /\ list' \in [Profiles -> Version \cup {None}] \cup {None}
<1>1. UNCHANGED <<server, stream, consumer, page, lists, accessError>> /\ ui' = ui
  BY DEF restOfMembers
<1>. QED BY <1>1, PageFlags DEF stream

\* A dialog without a snapshot and without an answer to show knows nothing yet.
LEMMA BlankFresh ==
  ASSUME perm'.snap = None, call'.op \notin MemberOps \/ call'.ans = None
  PROVE  FreshOK'
BY DEF FreshOK

LEMMA OpenPermStep ==
  ASSUME PInv, NEW m \in Members, openPermDialog(m)
  PROVE  PInv'
<1>1. /\ page = "members" /\ Send("load", m) /\ perm' = Loading(m) /\ typed' = {}
      /\ UNCHANGED restOfMembers /\ UNCHANGED lists
  BY DEF openPermDialog
<1>2. /\ Still /\ Flags' /\ ListOK' /\ ui' = ui
      /\ list' \in [Profiles -> Version \cup {None}] \cup {None}
  BY <1>1, MemberPageFlags
<1>3. WireOK' /\ call'.op = "load" /\ call'.arg = m /\ call'.ans = None
  BY <1>1, <1>2, SendWire DEF Sound, ProfileOps, MemberOps
<1>4. perm' \in MemberDialog /\ perm'.user = m /\ perm'.snap = None
  BY <1>1, Blank DEF Loading, MemberDialog, ClosedPerm
<1>5. PermOK'
  BY <1>1, <1>2, <1>3, <1>4 DEF PermOK, Still
<1>6. FreshOK'
  BY <1>3, <1>4, BlankFresh
<1>. QED BY <1>1, <1>2, <1>3, <1>4, <1>5, <1>6, MemberAssembled

LEMMA ClosePermStep ==
  ASSUME PInv, closePermDialog
  PROVE  PInv'
<1>1. /\ page = "members" /\ Fence /\ perm' = ClosedPerm /\ typed' = {}
      /\ UNCHANGED restOfMembers /\ UNCHANGED lists
  BY OnMembers DEF closePermDialog, Forget
<1>2. /\ Still /\ Flags' /\ ListOK' /\ ui' = ui
      /\ list' \in [Profiles -> Version \cup {None}] \cup {None}
  BY <1>1, MemberPageFlags
<1>3. WireOK' /\ call'.op = "none"
  BY <1>1, <1>2, FenceWire
<1>4. perm' \in MemberDialog /\ perm'.snap = None
  BY <1>1, Blank DEF ClosedPerm
<1>5. PermOK'
  BY <1>1, <1>3, <1>4 DEF PermOK
<1>6. FreshOK'
  BY <1>3, <1>4, BlankFresh DEF MemberOps
<1>. QED BY <1>1, <1>2, <1>3, <1>4, <1>5, <1>6, MemberAssembled

LEMMA OverrideFieldStep ==
  ASSUME PInv, NEW f \in Fields, NEW v \in Vals \cup {None}, OverrideField(f, v)
  PROVE  PInv'
<1>1. /\ page = "members" /\ perm \in MemberDialog /\ typed' = typed \cup {f}
      /\ perm' = [perm EXCEPT !.form = [perm.form EXCEPT ![f] = v]]
      /\ UNCHANGED restOfMembers /\ UNCHANGED lists /\ UNCHANGED wire
  BY OnMembers DEF OverrideField, canPatch, PInv, TypeOK
<1>2. typed' \subseteq Fields
  BY <1>1 DEF PInv, TypeOK
<1>3. /\ Still /\ Flags' /\ ListOK' /\ ui' = ui /\ UNCHANGED <<up, due>>
      /\ list' \in [Profiles -> Version \cup {None}] \cup {None}
  BY <1>1, <1>2, MemberPageFlags
<1>4. WireOK' /\ call' = call
  BY <1>1, <1>3, SameWire
<1>5. perm.form \in [Fields -> Vals \cup {None}]
  BY <1>1 DEF MemberDialog, OverrideForm
<1>6. [perm.form EXCEPT ![f] = v] \in OverrideForm
  BY <1>5 DEF OverrideForm
<1>7. /\ perm' \in MemberDialog
      /\ perm'.user = perm.user /\ perm'.snap = perm.snap
      /\ perm'.needsReload = perm.needsReload /\ perm'.form = [perm.form EXCEPT ![f] = v]
  BY <1>1, <1>6 DEF MemberDialog
<1>8. PermOK'
  BY <1>1, <1>3, <1>4, <1>5, <1>7 DEF PInv, PermOK, Still
<1>9. FreshOK'
  BY <1>3, <1>4, <1>7 DEF PInv, FreshOK, RevisionOf, Still
<1>. QED BY <1>1, <1>3, <1>4, <1>7, <1>8, <1>9, MemberAssembled

LEMMA ProfileChangeStep ==
  ASSUME PInv, NEW p \in Profiles \cup {None}, handlePermProfileChange(p)
  PROVE  PInv'
<1>1. /\ page = "members" /\ perm \in MemberDialog /\ UNCHANGED history
      /\ perm.snap # None
      /\ perm' = [perm EXCEPT !.dest = p, !.destRev = IF p = None THEN 0 ELSE knownRev(p)]
      /\ UNCHANGED restOfMembers /\ UNCHANGED lists /\ UNCHANGED wire
  BY OnMembers DEF handlePermProfileChange, canPatch, PInv, TypeOK
<1>2. typed' \subseteq Fields
  BY <1>1 DEF PInv, TypeOK, history
<1>3. /\ Still /\ Flags' /\ ListOK' /\ ui' = ui /\ UNCHANGED <<up, due>>
      /\ list' \in [Profiles -> Version \cup {None}] \cup {None}
  BY <1>1, <1>2, MemberPageFlags
<1>4. WireOK' /\ call' = call
  BY <1>1, <1>3, SameWire
<1>5. p # None => knownRev(p) \in Nat
  <2>1. perm.snap.rev.profRev \in Nat
    BY <1>1 DEF MemberDialog, SnapshotRecord, Bound
  <2>2. list # None /\ p # None /\ list[p] # None => list[p].rev \in Nat
    BY DEF PInv, TypeOK, Version
  <2>. QED BY <2>1, <2>2 DEF knownRev
<1>6. PICK n \in Nat : perm' = [perm EXCEPT !.dest = p, !.destRev = n]
  BY <1>1, <1>5
<1>7. /\ perm' \in MemberDialog
      /\ perm'.user = perm.user /\ perm'.snap = perm.snap
      /\ perm'.needsReload = perm.needsReload /\ perm'.form = perm.form
  BY <1>1, <1>6 DEF MemberDialog
<1>8. PermOK'
  BY <1>1, <1>3, <1>4, <1>7 DEF PInv, PermOK, Still, history
<1>9. FreshOK'
  BY <1>3, <1>4, <1>7 DEF PInv, FreshOK, RevisionOf, Still
<1>. QED BY <1>1, <1>3, <1>4, <1>7, <1>8, <1>9, MemberAssembled

\* A save carries the fields that were typed; a reset all of them.
LEMMA SaveCommands ==
  ASSUME PInv, handleSaveOverrides \/ handleResetOverrides
  PROVE  PInv'
<1>1. /\ page = "members" /\ perm \in MemberDialog /\ UNCHANGED history
      /\ perm.snap # None /\ perm' = [perm EXCEPT !.saving = TRUE]
      /\ UNCHANGED restOfMembers /\ UNCHANGED lists
  BY OnMembers DEF handleSaveOverrides, handleResetOverrides, canSave, canPatch, PInv, TypeOK
<1>2. typed' \subseteq Fields
  BY <1>1 DEF PInv, TypeOK, history
<1>3. /\ Still /\ Flags' /\ ListOK' /\ ui' = ui /\ UNCHANGED <<up, due>>
      /\ list' \in [Profiles -> Version \cup {None}] \cup {None}
  BY <1>1, <1>2, MemberPageFlags
<1>4. PICK cmd : /\ Send("save", cmd) /\ cmd.user = perm.user /\ cmd.dest = perm.dest
                 /\ PatchOf(cmd.patch, Vals \cup {None}, cmd.typed)
  <2>1. CASE handleSaveOverrides
    <3>. DEFINE cmd == SaveCommand(profileFieldPatch(perm.form, perm.snap.ovr))
    <3>1. Send("save", cmd)
      BY <2>1 DEF handleSaveOverrides
    <3>2. /\ cmd.user = perm.user /\ cmd.dest = perm.dest /\ cmd.typed = typed
          /\ cmd.patch = profileFieldPatch(perm.form, perm.snap.ovr)
      BY DEF SaveCommand
    <3>3. /\ perm.form \in [Fields -> Vals \cup {None}]
          /\ perm.snap.ovr \in [Fields -> Vals \cup {None}]
          /\ \A f \in Fields : perm.form[f] # perm.snap.ovr[f] => f \in typed
      BY <1>1 DEF MemberDialog, OverrideForm, SnapshotRecord, PInv, PermOK
    <3>4. PatchOf(profileFieldPatch(perm.form, perm.snap.ovr), Vals \cup {None}, typed)
      BY <3>3, PatchType
    <3>. HIDE DEF cmd
    <3>. QED BY <3>1, <3>2, <3>4
  <2>2. CASE handleResetOverrides
    <3>. DEFINE cmd == [SaveCommand(emptyOverrideForm) EXCEPT !.typed = Fields]
    <3>1. Send("save", cmd)
      BY <2>2 DEF handleResetOverrides
    <3>2. /\ cmd.user = perm.user /\ cmd.dest = perm.dest /\ cmd.typed = Fields
          /\ cmd.patch = emptyOverrideForm
      BY DEF SaveCommand
    <3>3. PatchOf(emptyOverrideForm, Vals \cup {None}, Fields)
      BY DEF PatchOf, emptyOverrideForm
    <3>. HIDE DEF cmd
    <3>. QED BY <3>1, <3>2, <3>3
  <2>. QED BY <2>1, <2>2
<1>5. perm.user \in Members /\ perm.dest \in Profiles \cup {None}
  BY <1>1, PermUser DEF MemberDialog
<1>6. Sound([op |-> "save", arg |-> cmd, ans |-> None])
  BY <1>4, <1>5 DEF Sound
<1>7. WireOK' /\ call'.op = "save" /\ call'.arg = cmd /\ call'.ans = None
  BY <1>1, <1>3, <1>4, <1>6, SendWire DEF ProfileOps, MemberOps
<1>8. /\ perm' \in MemberDialog
      /\ perm'.user = perm.user /\ perm'.snap = perm.snap
      /\ perm'.needsReload = perm.needsReload /\ perm'.form = perm.form
  BY <1>1 DEF MemberDialog
<1>9. PermOK'
  BY <1>1, <1>3, <1>4, <1>7, <1>8 DEF PInv, PermOK, Still, history
<1>10. FreshOK'
  BY <1>3, <1>7, <1>8 DEF PInv, FreshOK, RevisionOf, Still
<1>. QED BY <1>1, <1>3, <1>7, <1>8, <1>9, <1>10, MemberAssembled

LEMMA MemberPageStep ==
  ASSUME PInv, MemberPage
  PROVE  PInv'
BY ClosePermStep, SaveCommands, OpenPermStep, OverrideFieldStep, ProfileChangeStep
   DEF MemberPage

\* An answer shown in the dialog has the revision that FreshOK promises.
LEMMA PermAnsweredStep ==
  ASSUME PInv, PermAnswered
  PROVE  PInv'
<1>1. /\ Answered({"load", "save"}) /\ call.op \in MemberOps /\ call.ans # None
      /\ UNCHANGED restOfMembers /\ perm \in MemberDialog
      /\ UNCHANGED lists \/ Reload
  BY DEF PermAnswered, Answered, MemberOps, PInv, TypeOK
<1>2. page = "members" /\ perm.user \in Members
  BY <1>1, PermUser DEF PInv, WireOK
<1>3. UNCHANGED <<server, stream, consumer, page, accessError>> /\ ui' = ui
  BY <1>1 DEF restOfMembers
<1>4. Still /\ UNCHANGED <<up, due>>
  BY <1>3 DEF Still, server, stream
<1>5. typed' \subseteq Fields
  BY DEF PermAnswered, PInv, TypeOK
<1>6. listErr' \in BOOLEAN
  BY <1>1 DEF lists, Reload, PInv, TypeOK
<1>7. Flags'
  BY <1>3, <1>5, <1>6 DEF PInv, TypeOK, Flags, server, stream, consumer
<1>8. ListOK' /\ list' \in [Profiles -> Version \cup {None}] \cup {None}
  BY <1>1, <1>4, ListStill DEF lists
<1>9. WireOK' /\ call'.op = "none"
  BY <1>1, <1>4, AnsweredWire
<1>10. CASE call.ans.code = "OK"
  <2>. DEFINE s == call.ans.val
  <2>1. s \in SnapshotRecord /\ s.rev \in Bound /\ s.ovr \in OverrideForm
    BY <1>1, <1>10 DEF PInv, WireOK, Answer, SnapshotRecord
  <2>2. s.rev.prof \in Profiles \cup {None} /\ s.rev.profRev \in Nat
    BY <2>1 DEF Bound
  <2>3. perm' = [perm EXCEPT !.snap = s, !.form = s.ovr, !.dest = s.rev.prof,
                   !.destRev = s.rev.profRev, !.loading = FALSE, !.saving = FALSE,
                   !.needsReload = FALSE]
    BY <1>10 DEF PermAnswered, applyPermSnapshot
  <2>4. (up /\ ~due) => s.rev = RevisionOf(perm.user)
    BY <1>1, <1>10 DEF PInv, FreshOK
  <2>. HIDE DEF s
  <2>5. /\ perm' \in MemberDialog /\ perm'.user = perm.user /\ perm'.snap = s
        /\ perm'.form = s.ovr
    BY <1>1, <2>1, <2>2, <2>3 DEF MemberDialog
  <2>6. PermOK'
    BY <1>2, <1>4, <1>9, <2>5, PermissionBounds DEF PermOK, Still
  <2>7. FreshOK'
    BY <1>4, <1>9, <2>4, <2>5 DEF FreshOK, RevisionOf, Still, MemberOps
  <2>. QED BY <1>2, <1>3, <1>4, <1>7, <1>8, <1>9, <2>5, <2>6, <2>7, MemberAssembled
<1>11. CASE call.ans.code # "OK"
  <2>1. PICK b \in BOOLEAN : /\ perm' = [perm EXCEPT !.loading = FALSE, !.saving = FALSE,
                                          !.needsReload = b]
                             /\ perm.needsReload => b
    BY <1>1, <1>11 DEF PermAnswered, MemberDialog
  <2>2. /\ perm' \in MemberDialog /\ perm'.user = perm.user /\ perm'.snap = perm.snap
        /\ perm'.form = perm.form /\ perm'.needsReload = b
    BY <1>1, <2>1 DEF MemberDialog
  <2>3. typed' = typed
    BY <1>11 DEF PermAnswered
  <2>4. PermOK'
    BY <1>2, <1>4, <1>9, <2>2, <2>3 DEF PInv, PermOK, Still
  <2>5. FreshOK'
    BY <1>4, <1>9, <2>1, <2>2 DEF PInv, FreshOK, RevisionOf, Still, MemberOps
  <2>. QED BY <1>2, <1>3, <1>4, <1>7, <1>8, <1>9, <2>2, <2>4, <2>5, MemberAssembled
<1>. QED BY <1>10, <1>11

-----------------------------------------------------------------------------
(* The event stream, and the rest.                                         *)

\* The page is untouched; the list may be fetched again.
LEMMA UntouchedStep ==
  ASSUME PInv, Still, UNCHANGED <<ui, perm, wire, history>>, Flags',
         list' = list \/ Reload, up' /\ ~due' => up /\ ~due
  PROVE  PInv'
<1>1. ListOK' /\ list' \in [Profiles -> Version \cup {None}] \cup {None}
  BY ListStill
<1>2. WireOK' /\ call' = call
  BY SameWire
<1>3. EditOK'
  BY <1>2 DEF PInv, EditOK, VersionOf, Still, history
<1>4. PermOK'
  BY <1>2 DEF PInv, PermOK, Still, history
<1>5. FreshOK'
  BY <1>2 DEF PInv, FreshOK, RevisionOf, Still
<1>6. ServerTypes'
  BY DEF Still, PInv, TypeOK, HeldAreLive, ServerTypes
<1>7. TypeOK' /\ HeldAreLive'
  BY <1>1, <1>6, TypesFromParts DEF PInv, TypeOK
<1>. QED BY <1>1, <1>2, <1>3, <1>4, <1>5, <1>7 DEF PInv

\* The page starts over.
LEMMA ResetStep ==
  ASSUME PInv, Still, Fence, ui' = ClosedUI, perm' = ClosedPerm, list' = None, Flags'
  PROVE  PInv'
<1>1. ListOK' /\ list' \in [Profiles -> Version \cup {None}] \cup {None}
  BY ListStill
<1>2. WireOK' /\ call'.op = "none"
  BY FenceWire
<1>3. EditOK' /\ ui' \in ProfileDialog /\ perm' \in MemberDialog
  BY <1>2, ClosedEdit, Blank
<1>4. perm'.snap = None
  BY DEF ClosedPerm
<1>5. PermOK' /\ FreshOK'
  BY <1>2, <1>4, BlankFresh DEF PermOK, MemberOps
<1>6. ServerTypes'
  BY DEF Still, PInv, TypeOK, HeldAreLive, ServerTypes
<1>7. TypeOK' /\ HeldAreLive'
  BY <1>1, <1>3, <1>6, TypesFromParts
<1>. QED BY <1>1, <1>2, <1>3, <1>5, <1>7 DEF PInv

\* An event leaves no dialog that could save what it no longer knows.
LEMMA EventStep ==
  ASSUME PInv, Event, up' \in BOOLEAN, due' \in BOOLEAN
  PROVE  PInv'
<1>1. /\ onInvalidate
      /\ UNCHANGED <<server, revoked, page, lists, accessError, history>>
      /\ loop' \in {"idle", "overview", "reload"} /\ pending' \in BOOLEAN
  BY DEF Event, PInv, TypeOK
<1>2. Still /\ list' = list
  BY <1>1 DEF Still, server, lists
<1>3. Flags'
  BY <1>1 DEF PInv, TypeOK, Flags, server, lists, history
<1>4. ListOK' /\ list' \in [Profiles -> Version \cup {None}] \cup {None}
  BY <1>2, ListStill
<1>5. CASE page = "profiles"
  <2>1. /\ IF ui.writing THEN UNCHANGED wire ELSE Fence
        /\ ui' = [[ui EXCEPT !.preview = None, !.confirmed = FALSE]
                    EXCEPT !.reading = @ /\ ui.writing,
                   !.stale = ui.dialog = "edit", !.fresh = None, !.review = FALSE]
        /\ perm' = perm /\ ui \in ProfileDialog
    BY <1>1, <1>5 DEF onInvalidate, unconfirmed, PInv, TypeOK
  <2>2. /\ WireOK' /\ call'.op \in {call.op, "none"}
        /\ call'.op = "refresh" => ui.writing
    <3>1. CASE ui.writing
      BY <1>2, <2>1, <3>1, SameWire
    <3>2. CASE ~ui.writing
      BY <1>2, <2>1, <3>2, FenceWire
    <3>. QED BY <3>1, <3>2
  <2>3. PICK rd \in BOOLEAN, st \in BOOLEAN :
          /\ rd = (ui.reading /\ ui.writing) /\ st = (ui.dialog = "edit")
          /\ ui' = [ui EXCEPT !.preview = None, !.confirmed = FALSE, !.reading = rd,
                      !.stale = st, !.fresh = None, !.review = FALSE]
    BY <2>1 DEF ProfileDialog
  <2>4. ui' \in ProfileDialog
    BY <2>1, <2>3 DEF ProfileDialog
  <2>5. /\ ui'.dialog = ui.dialog /\ ui'.id = ui.id /\ ui'.rev = ui.rev
        /\ ui'.base = ui.base /\ ui'.form = ui.form /\ ui'.fresh = None
        /\ ~ui'.confirmed /\ ui'.preview = None /\ ui'.stale = st /\ ui'.reading = rd
    BY <2>1, <2>3 DEF ProfileDialog
  <2>6. ui.dialog = "edit" => VersionOf(ui.id, ui.rev, ui.base)'
    BY <1>2, <2>5 DEF PInv, EditOK, VersionOf, Still
  <2>7. EditOK'
    BY <1>1, <1>2, <1>5, <2>2, <2>3, <2>5, <2>6 DEF PInv, EditOK, Still, history
  <2>. QED BY <1>2, <1>3, <1>4, <1>5, <2>1, <2>2, <2>4, <2>7, ProfileAssembled
<1>6. CASE page = "members" /\ perm.user = None
  <2>1. UNCHANGED <<wire, ui, perm>>
    BY <1>1, <1>6 DEF onInvalidate
  <2>2. WireOK' /\ call' = call
    BY <1>2, <2>1, SameWire
  <2>3. perm.snap = None /\ call.op \notin MemberOps
    BY <1>6, PermUser, PermissionBounds
  <2>4. FreshOK'
    BY <2>1, <2>2, <2>3, BlankFresh
  <2>5. PermOK'
    BY <1>1, <1>2, <2>1, <2>2 DEF PInv, PermOK, Still, history
  <2>6. perm' \in MemberDialog
    BY <2>1 DEF PInv, TypeOK
  <2>. QED BY <1>2, <1>3, <1>4, <1>6, <2>1, <2>2, <2>4, <2>5, <2>6, MemberAssembled
<1>7. CASE page = "members" /\ perm.user # None
  <2>1. /\ Fence /\ ui' = ui /\ perm \in MemberDialog
        /\ perm' = [perm EXCEPT !.loading = FALSE, !.saving = FALSE, !.needsReload = TRUE]
    BY <1>1, <1>7 DEF onInvalidate, PInv, TypeOK
  <2>2. WireOK' /\ call'.op = "none"
    BY <1>2, <2>1, FenceWire
  <2>3. /\ perm' \in MemberDialog /\ perm'.user = perm.user /\ perm'.snap = perm.snap
        /\ perm'.form = perm.form /\ perm'.needsReload
    BY <2>1 DEF MemberDialog
  <2>4. PermOK'
    BY <1>1, <1>2, <1>7, <2>2, <2>3 DEF PInv, PermOK, Still, history
  <2>5. FreshOK'
    BY <2>2, <2>3 DEF FreshOK, MemberOps
  <2>. QED BY <1>2, <1>3, <1>4, <1>7, <2>1, <2>2, <2>3, <2>4, <2>5, MemberAssembled
<1>. QED BY <1>5, <1>6, <1>7 DEF PInv, TypeOK

LEMMA RevokeStep ==
  ASSUME PInv, Revoke
  PROVE  PInv'
<1>1. Still /\ Flags'
  BY DEF Revoke, Still, server, Flags, Forget, PInv, TypeOK
<1>. QED BY <1>1, ResetStep DEF Revoke

LEMMA FeedStep ==
  ASSUME PInv, Feed
  PROVE  PInv'
<1>1. CASE Connect
  BY <1>1, EventStep, RevokeStep DEF Connect
<1>2. CASE Deliver
  BY <1>2, EventStep DEF Deliver, PInv, TypeOK
<1>3. CASE Resync
  BY <1>3, EventStep DEF Resync, stream, PInv, TypeOK
<1>4. CASE Drop
  <2>1. Still /\ Flags' /\ list' = list /\ ~up' /\ UNCHANGED <<ui, perm, wire, history>>
    BY <1>4 DEF Drop, Still, Flags, server, consumer, lists, history, PInv, TypeOK
  <2>. QED BY <2>1, UntouchedStep
<1>5. CASE Overview
  <2>1. CASE ~admin
    BY <1>5, <2>1, RevokeStep DEF Overview
  <2>2. CASE admin
    <3>1. /\ Still /\ Flags' /\ list' = list /\ UNCHANGED <<up, due>>
          /\ UNCHANGED <<ui, perm, wire, history>>
      BY <1>5, <2>2 DEF Overview, Still, Flags, server, stream, lists, history, PInv, TypeOK
    <3>. QED BY <3>1, UntouchedStep
  <2>. QED BY <2>1, <2>2
<1>6. CASE OverviewFails
  <2>1. /\ Still /\ Flags' /\ list' = list /\ UNCHANGED <<up, due>>
        /\ UNCHANGED <<ui, perm, wire, history>>
    BY <1>6 DEF OverviewFails, Still, Flags, server, stream, lists, history, PInv, TypeOK
  <2>. QED BY <2>1, UntouchedStep
<1>7. CASE RefreshList
  <2>1. /\ Still /\ Flags' /\ Reload /\ UNCHANGED <<up, due>>
        /\ UNCHANGED <<ui, perm, wire, history>>
    BY <1>7 DEF RefreshList, Reload, Still, Flags, server, stream, history, PInv, TypeOK
  <2>. QED BY <2>1, UntouchedStep
<1>. QED BY <1>1, <1>2, <1>3, <1>4, <1>5, <1>6, <1>7 DEF Feed

LEMMA RevalidateStep ==
  ASSUME PInv, Revalidate
  PROVE  PInv'
<1>1. /\ Still /\ Flags' /\ Reload /\ UNCHANGED <<up, due>>
      /\ UNCHANGED <<ui, perm, wire, history>>
  BY DEF Revalidate, Reload, Still, Flags, server, stream, consumer, history, PInv, TypeOK
<1>. QED BY <1>1, UntouchedStep

LEMMA RemountStep ==
  ASSUME PInv, Remount
  PROVE  PInv'
<1>1. Still /\ Flags'
  BY DEF Remount, Still, server, Flags, Forget, PInv, TypeOK
<1>. QED BY <1>1, ResetStep DEF Remount

\* A lost request may still be applied; its answer says nothing.
LEMMA LoseCallStep ==
  ASSUME PInv, LoseCall
  PROVE  PInv'
<1>1. /\ call' = [call EXCEPT !.ans = Lost] /\ stray' = stray \cup Unserved /\ call # Idle
      /\ UNCHANGED <<server, stream, consumer, page, lists, accessError, ui, perm, history>>
  BY DEF LoseCall
<1>2. call' = [op |-> call.op, arg |-> call.arg, ans |-> Lost]
  BY <1>1 DEF PInv, WireOK, CallShape
<1>3. call'.op = call.op /\ call'.arg = call.arg /\ call'.ans = Lost
  BY <1>2
<1>4. typed' \subseteq Fields
  BY <1>1 DEF PInv, TypeOK, history
<1>5. Still /\ Flags' /\ ListOK' /\ list' \in [Profiles -> Version \cup {None}] \cup {None}
  BY <1>1, <1>4, PageFlags
<1>6. WireOK'
  <2>1. \A c \in stray' : Sound(c)' /\ c.op \in WriteOps
    BY <1>1, <1>5 DEF Unserved, PInv, WireOK, Sound, VersionOf, PatchOf, Still
  <2>2. Sound(call)'
    BY <1>3, <1>5 DEF PInv, WireOK, Sound, VersionOf, PatchOf, Still
  <2>3. Answer(call)'
    BY <1>3 DEF Answer, Lost
  <2>. QED BY <1>1, <1>2, <1>3, <1>5, <2>1, <2>2, <2>3 DEF PInv, WireOK, CallShape, Still
<1>7. EditOK'
  BY <1>1, <1>3, <1>5 DEF PInv, EditOK, VersionOf, Still, history
<1>8. PermOK'
  BY <1>1, <1>3, <1>5 DEF PInv, PermOK, Still, history
<1>9. FreshOK'
  BY <1>1, <1>3, <1>5 DEF PInv, FreshOK, RevisionOf, Still, Lost, stream
<1>10. ServerTypes'
  BY <1>5 DEF Still, PInv, TypeOK, HeldAreLive, ServerTypes
<1>11. TypeOK' /\ HeldAreLive'
  BY <1>1, <1>5, <1>10, TypesFromParts DEF PInv, TypeOK
<1>. QED BY <1>5, <1>6, <1>7, <1>8, <1>9, <1>11 DEF PInv

-----------------------------------------------------------------------------
(* Theorems.                                                               *)

LEMMA InitPInv ==
  ASSUME Init
  PROVE  PInv
<1>1. /\ defaultForm \in Form /\ emptyOverrideForm \in OverrideForm
      /\ ui \in ProfileDialog /\ perm \in MemberDialog
  BY Blank DEF Init
<1>2. profile \in [Profiles -> Version] /\ member \in [Members -> MemberRecord]
  BY <1>1, PermissionBounds DEF Init, Version, MemberRecord
<1>3. TypeOK
  BY <1>1, <1>2 DEF Init, TypeOK
<1>4. HeldAreLive
  BY PermissionBounds DEF Init, HeldAreLive
<1>5. /\ call.op = "none" /\ call.ans = None /\ CallShape(call) /\ call = Idle
      /\ perm.snap = None /\ perm = ClosedPerm /\ ui = ClosedUI /\ stray = {} /\ list = None
  BY DEF Init, Idle, CallShape, ClosedPerm
<1>6. ListOK /\ PermOK /\ FreshOK
  BY <1>5 DEF ListOK, PermOK, FreshOK, MemberOps
<1>7. WireOK
  BY <1>5 DEF WireOK, Sound, ProfileOps, MemberOps
<1>8. EditOK
  <2>1. ui.dialog = "none" /\ ui.fresh = None /\ ~ui.confirmed /\ ui.form = ui.base
    BY <1>5 DEF ClosedUI
  <2>. QED BY <1>5, <2>1 DEF EditOK
<1>. QED BY <1>3, <1>4, <1>6, <1>7, <1>8 DEF PInv

LEMMA NextPInv ==
  ASSUME PInv, [Next]_vars
  PROVE  PInv'
<1>1. CASE UNCHANGED vars
  <2>1. /\ Still /\ Flags' /\ list' = list /\ UNCHANGED <<up, due>>
        /\ UNCHANGED <<ui, perm, wire, history>>
    BY <1>1 DEF vars, Still, Flags, server, stream, consumer, lists, history, PInv, TypeOK
  <2>. QED BY <2>1, UntouchedStep
<1>2. CASE Requests
  BY <1>2, ServeStep, ServeStrayStep, LoseCallStep DEF Requests
<1>3. CASE Replies
  BY <1>3, ProfileReplies, PermAnsweredStep DEF Replies
<1>. QED BY <1>1, <1>2, <1>3, ProfilePageStep, MemberPageStep, FeedStep, RevalidateStep,
            RivalKeeps, RemountStep
         DEF Next

\* In every run, dialogs and commands keep what PInv says of them.
THEOREM PermissionInvariant == Spec => []PInv
<1>1. Init => PInv
  BY InitPInv
<1>2. PInv /\ [Next]_vars => PInv'
  BY NextPInv
<1>. QED BY <1>1, <1>2, PTL DEF Spec

\* TypeOK: the server's tables and both dialogs have their shapes.
THEOREM PermissionTypes == Spec => []TypeOK
<1>1. PInv => TypeOK
  BY DEF PInv
<1>. QED BY <1>1, PermissionInvariant, PTL

\* StaleDialogIsFlagged: a member dialog that could still save shows the
\* member's current revision, or a frame is on its way.
THEOREM NoStaleSave == Spec => []StaleDialogIsFlagged
<1>1. PInv => StaleDialogIsFlagged
  <2>. SUFFICES ASSUME PInv, canPatch, up, ~due PROVE perm.snap.rev = RevisionOf(perm.user)
    BY DEF StaleDialogIsFlagged
  <2>. QED BY DEF PInv, FreshOK, canPatch, editorBusy
<1>. QED BY <1>1, PermissionInvariant, PTL

\* Only the server takes an undecided write off the wire: whatever the page does,
\* the write waits in call or among the strays.
LEMMA WritesWait ==
  ASSUME Next, ~Serve, ~ServeStray
  PROVE  /\ stray \subseteq stray'
         /\ call' = call \/ Unserved \subseteq stray' \/ call.ans # None
<1>1. CASE ProfilePage
  BY <1>1 DEF ProfilePage, OpenCreate, handleCreate, ConfirmFresh, handleEdit, refreshEdit,
     CloseEdit, ConfirmEffects, handleDelete, CloseDelete, openEdit, loadPreview, Type,
     Send, Fence, wire
<1>2. CASE MemberPage
  BY <1>2 DEF MemberPage, closePermDialog, handleSaveOverrides, handleResetOverrides,
     openPermDialog, OverrideField, handlePermProfileChange, Send, Fence, wire
<1>3. CASE Feed
  BY <1>3 DEF Feed, Connect, Deliver, Resync, Drop, Overview, OverviewFails, RefreshList,
     Event, onInvalidate, Revoke, Fence, wire
<1>4. CASE Revalidate \/ Rival \/ Remount
  BY <1>4 DEF Revalidate, Rival, Remount, Fence, wire
<1>5. CASE Requests
  BY <1>5 DEF Requests, LoseCall
<1>6. CASE Replies
  BY <1>6 DEF Replies, Created, Edited, Refreshed, Previewed, Deleted, PermAnswered, Answered
<1>. QED BY <1>1, <1>2, <1>3, <1>4, <1>5, <1>6 DEF Next

\* A write decided in a step is the server's work of that step.
LEMMA DecidedByServer ==
  ASSUME PInv, Next, NEW c \in DecidedNow
  PROVE  Sound(c) /\ (Write(c) \/ UNCHANGED <<profile, member>>)
<1>1. /\ c \in stray \cup {call} /\ c.op \in WriteOps /\ c.ans = None
      /\ c \notin stray' /\ c # call'
  BY DEF DecidedNow
<1>2. Sound(c)
  BY <1>1 DEF PInv, WireOK
<1>3. CASE Serve
  <2>1. c = call
    BY <1>1, <1>3 DEF Serve
  <2>. QED BY <1>2, <1>3, <2>1 DEF Serve
<1>4. CASE ServeStray
  <2>1. PICK d \in stray : Write(d) /\ stray' = stray \ {d} /\ call' = call
    BY <1>4 DEF ServeStray
  <2>2. c = d
    BY <1>1, <2>1
  <2>. QED BY <1>2, <2>1, <2>2
<1>5. CASE ~Serve /\ ~ServeStray
  BY <1>1, <1>5, WritesWait DEF Unserved
<1>. QED BY <1>3, <1>4, <1>5

\* DeletesWhatWasReviewed: a profile is deleted through the page only with the
\* members and revisions that were on the screen when the box was ticked.
THEOREM DeletionsWereReviewed == Spec => DeletesWhatWasReviewed
<1>1. PInv /\ [Next]_vars =>
        [\A c \in DecidedNow : (c.op = "delete" /\ profile' # profile) =>
                                 Observed(c.arg.id) = c.arg.agreed]_vars
  <2>. SUFFICES ASSUME PInv, Next, NEW c \in DecidedNow, c.op = "delete", profile' # profile
                PROVE  Observed(c.arg.id) = c.arg.agreed
    BY DEF vars
  <2>1. Sound(c) /\ Write(c)
    BY DecidedByServer
  <2>2. ServeDelete(c.arg)
    BY <2>1 DEF Write
  <2>. QED BY <2>1, <2>2 DEF ServeDelete, CanDelete, Sound
<1>. QED BY <1>1, PermissionInvariant, PTL DEF Spec, DeletesWhatWasReviewed

\* WritesWhatWasTyped: a write of the page that is applied replaces the version on
\* the screen and changes only fields that were typed in.
THEOREM WritesAreTyped == Spec => WritesWhatWasTyped
<1>. DEFINE Typed(c) ==
       /\ (c.op = "update" /\ profile' # profile) =>
            /\ profile[c.arg.id].val = c.arg.seen
            /\ \A f \in Fields : profile'[c.arg.id].val[f] # profile[c.arg.id].val[f]
                                   => f \in c.arg.typed
       /\ (c.op = "save" /\ member' # member) =>
            \A f \in Fields : member'[c.arg.user].ovr[f] # member[c.arg.user].ovr[f]
                                => f \in c.arg.typed
<1>1. PInv /\ [Next]_vars => [\A c \in DecidedNow : Typed(c)]_vars
  <2>. SUFFICES ASSUME PInv, Next, NEW c \in DecidedNow PROVE Typed(c)
    BY DEF vars
  <2>1. Sound(c) /\ (Write(c) \/ UNCHANGED <<profile, member>>)
    BY DecidedByServer
  <2>2. ASSUME c.op = "update", profile' # profile
        PROVE  /\ profile[c.arg.id].val = c.arg.seen
               /\ \A f \in Fields : profile'[c.arg.id].val[f] # profile[c.arg.id].val[f]
                                      => f \in c.arg.typed
    <3>. DEFINE a == c.arg
    <3>1. ServeUpdate(a)
      BY <2>1, <2>2 DEF Write
    <3>2. /\ a.id \in Profiles /\ a.rev \in Nat /\ VersionOf(a.id, a.rev, a.seen)
          /\ PatchOf(a.patch, Vals, a.typed)
      BY <2>1, <2>2 DEF Sound
    <3>. HIDE DEF a
    <3>3. /\ profile[a.id].rev = a.rev
          /\ profile' = [profile EXCEPT ![a.id] =
               [live |-> TRUE, rev |-> @.rev + 1, val |-> Overlay(@.val, a.patch)]]
      BY <2>2, <3>1 DEF ServeUpdate
    <3>4. profile[a.id].val = a.seen
      BY <3>2, <3>3 DEF VersionOf
    <3>5. profile \in [Profiles -> Version] /\ profile[a.id].val \in [Fields -> Vals]
      BY <3>2 DEF PInv, TypeOK, Version, Form
    <3>6. profile'[a.id].val = Overlay(profile[a.id].val, a.patch)
      BY <3>2, <3>3, <3>5
    <3>7. \A f \in Fields : profile'[a.id].val[f] # profile[a.id].val[f] => f \in a.typed
      BY <3>2, <3>6 DEF Overlay, PatchOf
    <3>. QED BY <3>4, <3>7 DEF a
  <2>3. ASSUME c.op = "save", member' # member, NEW f \in Fields,
               member'[c.arg.user].ovr[f] # member[c.arg.user].ovr[f]
        PROVE  f \in c.arg.typed
    <3>. DEFINE a == c.arg
    <3>1. ServeSave(a)
      BY <2>1, <2>3 DEF Write
    <3>2. a.user \in Members /\ PatchOf(a.patch, Vals \cup {None}, a.typed)
      BY <2>1, <2>3 DEF Sound
    <3>3. member'[a.user].ovr[f] # member[a.user].ovr[f]
      BY <2>3
    <3>. HIDE DEF a
    <3>4. member' = [member EXCEPT ![a.user] =
            [rev |-> @.rev + 1, prof |-> a.dest, ovr |-> Overlay(@.ovr, a.patch)]]
      BY <2>3, <3>1 DEF ServeSave
    <3>5. /\ member \in [Members -> MemberRecord]
          /\ member[a.user].ovr \in [Fields -> Vals \cup {None}]
      BY <3>2 DEF PInv, TypeOK, MemberRecord, OverrideForm
    <3>6. member'[a.user].ovr = Overlay(member[a.user].ovr, a.patch)
      BY <3>2, <3>4, <3>5
    <3>7. f \in a.typed
      BY <3>2, <3>3, <3>6 DEF Overlay, PatchOf
    <3>. QED BY <3>7 DEF a
  <2>. QED BY <2>2, <2>3
<1>. QED BY <1>1, PermissionInvariant, PTL DEF Spec, WritesWhatWasTyped
=============================================================================

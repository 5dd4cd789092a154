------------------------ MODULE ComposeEditorProofs ------------------------
(***************************************************************************)
(* Proofs about ComposeEditor, for any mailboxes, texts and bounds.  A     *)
(* submission, a queued save and a pinned command outlive the state they   *)
(* were made from; the invariant ties each of them to the version of the   *)
(* draft it was made for, and each running operation of the editor to the  *)
(* click that owns it.                                                     *)
(***************************************************************************)
EXTENDS ComposeEditor, TLAPS

-----------------------------------------------------------------------------
(* The server.                                                             *)

\* A draft exists from its receipt on; a submitted one is gone for good; stored
\* attachments belong to the stored sender.
ServerOK ==
  /\ \A d \in Drafts : /\ srv[d].state = "none" => srv[d].rev = 0
                       /\ srv[d].state # "none" => srv[d].rev > 0 /\ receipts[d] # None
                       /\ srv[d].body.atts \subseteq {srv[d].box}
  /\ \A i \in DOMAIN jobs : srv[jobs[i].id].state = "gone"
  /\ OneJobPerDraft /\ JobIsWhatWasShown

\* A revision of a draft never newer than the server's, and with the server's
\* content if it is the server's.
VersionOf(id, r, input) ==
  r <= srv[id].rev /\ (r = srv[id].rev => input = InputOf(srv[id]))

\* A submission shows the version it names; a save is based on the version it
\* replaces.
Faithful(s) == VersionOf(s.id, s.rev, s.shown)
Based(c) == c.rev > 0 => c.rev <= srv[c.id].rev /\ (c.rev = srv[c.id].rev => c.base = srv[c.id].body)

SubmitOK ==
  /\ submit # None => busy = "submit" /\ Faithful(submit)
  /\ pending # None => Faithful(pending)
StrayOK == \A m \in stray : IF m.kind = "save" THEN Based(m.msg) ELSE Faithful(m.msg)

-----------------------------------------------------------------------------
(* The draft writer.                                                       *)

WriterOK ==
  /\ writer.snap.id = writer.id
  /\ writer.snap.rev > 0 => /\ VersionOf(writer.id, writer.snap.rev, InputOf(writer.snap))
                            /\ known = writer.snap.body
  /\ writer.pinned # None => writer.pinned.id = writer.id /\ Based(writer.pinned)

\* Who is in the lane: operations of the user come last, are owned by the action
\* under way, and a flush carries what its click showed.
LaneOK ==
  /\ \A i \in DOMAIN lane :
       /\ lane[i].by # "auto" => i = Len(lane) /\ busy \in {"save", "reload", "flush"}
       /\ lane[i].by = "send" => /\ busy = "flush" /\ owner # None
                                 /\ lane[i].input = owner.shown
       /\ lane[i].kind = "reload" => lane[i].by = "user"
       /\ lane[i].kind = "save" => lane[i].input # None
       /\ saveError # "none" => lane[i].by # "auto"

\* A timer that is set is a timer the present render wants.
TimerOK == autosave = "armed" => autosaveWanted

\* The request under way is that of the head of the lane.
WireOK ==
  /\ wire.pc = "idle" => wire = Idle
  /\ wire.pc # "idle" => lane # <<>>
  /\ wire.pc = "reload" => lane[1].kind = "reload"
  /\ wire.pc \in {"write", "readback"} =>
       /\ lane[1].kind = "save"
       /\ wire.cmd \in Command /\ wire.cmd.id = writer.id /\ Based(wire.cmd)
       /\ wire.own => InputOf(wire.cmd) = lane[1].input

-----------------------------------------------------------------------------
(* The editor.                                                             *)

\* What a click captured: its sender is the present one until a move is counted.
OwnerOK ==
  /\ owner # None =>
       /\ busy \in {"flush", "submit", "upload", "preview"}
       /\ owner.sender <= gen.sender
       /\ owner.sender = gen.sender => mailboxId = owner.shown.box
       /\ owner.shown.body.atts \subseteq {owner.shown.box}
  /\ busy \in {"upload", "preview"} => owner # None

CInv ==
  /\ TypeOK /\ ServerOK /\ SubmitOK /\ StrayOK /\ WriterOK /\ LaneOK /\ TimerOK
  /\ WireOK /\ OwnerOK /\ AttachmentsFitSender

-----------------------------------------------------------------------------
(* What a transaction does to the drafts.                                  *)

\* Revisions only grow, and a revision has one content.
Grown ==
  \A d \in Drafts :
    /\ srv[d].rev <= srv'[d].rev
    /\ srv'[d].rev = srv[d].rev => srv'[d].box = srv[d].box /\ srv'[d].body = srv[d].body

ServerTypes ==
  /\ srv \in [Drafts -> StoredDraft] /\ receipts \in [Drafts -> Input \cup {None}]
  /\ jobs \in Seq(Job)

\* What is replaced by a save of this editor was known to it.
Seen(d) ==
  (srv'[d] # srv[d] /\ srv'[d].by = "editor" /\ srv'[d].state = "live" /\ srv'[d].rev > 1)
  => srv'[d].base = srv[d].body

\* The effect of a transaction.
Served == ServerTypes' /\ ServerOK' /\ Grown /\ \A d \in Drafts : Seen(d)

LEMMA NotNone == None \notin Input /\ None \notin Body /\ None \notin Owner
BY ComposeBounds

\* The fields of a stored draft.
LEMMA Stored ==
  ASSUME ServerTypes, NEW d \in Drafts
  PROVE  /\ srv[d] \in StoredDraft
         /\ srv[d].state \in {"none", "live", "gone"}
         /\ srv[d].rev \in 0 .. MaxRev /\ srv[d].box \in Boxes /\ srv[d].body \in Body
         /\ srv[d].by \in {"editor", "other"} /\ srv[d].base \in Body \cup {None}
         /\ InputOf(srv[d]) \in Input /\ srv[d].rev \in Int
<1>1. srv[d] \in StoredDraft
  BY DEF ServerTypes
<1>2. /\ srv[d].state \in {"none", "live", "gone"}
      /\ srv[d].rev \in 0 .. MaxRev /\ srv[d].box \in Boxes /\ srv[d].body \in Body
      /\ srv[d].by \in {"editor", "other"} /\ srv[d].base \in Body \cup {None}
  BY <1>1 DEF StoredDraft
<1>3. InputOf(srv[d]) \in Input
  BY <1>2 DEF InputOf, Input
<1>. QED BY <1>1, <1>2, <1>3, ComposeBounds

LEMMA CommandFields ==
  ASSUME NEW c \in Command
  PROVE  /\ c.id \in Drafts /\ c.rev \in 0 .. MaxRev - 1 /\ c.rev + 1 \in 1 .. MaxRev
         /\ c.box \in Boxes /\ c.body \in Body /\ c.base \in Body \cup {None}
         /\ c.uncertain \in BOOLEAN /\ InputOf(c) \in Input /\ c.rev \in Int
<1>1. /\ c.id \in Drafts /\ c.rev \in 0 .. MaxRev - 1 /\ c.box \in Boxes
      /\ c.body \in Body /\ c.base \in Body \cup {None} /\ c.uncertain \in BOOLEAN
  BY DEF Command
<1>2. InputOf(c) \in Input
  BY <1>1 DEF InputOf, Input
<1>. QED BY <1>1, <1>2, ComposeBounds

LEMMA SubmissionFields ==
  ASSUME NEW s \in Submission
  PROVE  s.id \in Drafts /\ s.rev \in 1 .. MaxRev /\ s.shown \in Input /\ s.rev \in Int
BY ComposeBounds DEF Submission

LEMMA JobFields ==
  ASSUME ServerTypes, NEW i \in DOMAIN jobs
  PROVE  jobs[i] \in Job /\ jobs[i].id \in Drafts /\ i \in 1 .. Len(jobs)
<1>1. jobs[i] \in Job /\ i \in 1 .. Len(jobs)
  BY DEF ServerTypes
<1>. QED BY <1>1 DEF Job

LEMMA NothingServed ==
  ASSUME ServerTypes, ServerOK, UNCHANGED server
  PROVE  Served
<1>1. srv' = srv /\ receipts' = receipts /\ jobs' = jobs
  BY DEF server
<1>2. ServerTypes' /\ ServerOK'
  BY <1>1 DEF ServerTypes, ServerOK, OneJobPerDraft, JobIsWhatWasShown, InputOf
<1>3. Grown
  BY <1>1, Stored DEF Grown
<1>4. \A d \in Drafts : Seen(d)
  BY <1>1 DEF Seen
<1>. QED BY <1>2, <1>3, <1>4 DEF Served

\* SaveMailDraft: a receipt or the compare-and-set lets one revision follow the
\* one it was based on.
LEMMA SaveServed ==
  ASSUME ServerTypes, ServerOK, NEW c \in Command, Based(c), SaveMailDraft(c)
  PROVE  Served
<1>0. CASE SaveOutcome(c) # "OK"
  BY <1>0, NothingServed DEF SaveMailDraft, server
<1>1. CASE SaveOutcome(c) = "OK"
  <2>. DEFINE n == [state |-> "live", rev |-> c.rev + 1, box |-> c.box,
                    body |-> c.body, by |-> "editor", base |-> c.base]
  <2>0. /\ srv' = [srv EXCEPT ![c.id] = n] /\ jobs' = jobs
        /\ receipts' = IF c.rev > 0 THEN receipts ELSE [receipts EXCEPT ![c.id] = InputOf(c)]
    BY <1>1 DEF SaveMailDraft
  <2>1. /\ c.body.atts \subseteq {c.box}
        /\ c.rev > 0 => srv[c.id].state = "live" /\ srv[c.id].rev = c.rev
        /\ ~(c.rev > 0) => receipts[c.id] = None
    BY <1>1 DEF SaveOutcome
  <2>2. /\ ~(c.rev > 0) => srv[c.id].state = "none" /\ srv[c.id].rev = 0
        /\ c.rev > 0 => receipts[c.id] # None
    BY <2>1, CommandFields, Stored DEF ServerOK
  <2>3. n \in StoredDraft
    BY CommandFields DEF StoredDraft
  <2>4. /\ n.state = "live" /\ n.rev = c.rev + 1 /\ n.box = c.box /\ n.body = c.body
        /\ n.by = "editor" /\ n.base = c.base
    OBVIOUS
  <2>. HIDE DEF n
  <2>5. /\ srv' \in [Drafts -> StoredDraft] /\ srv'[c.id] = n
        /\ \A d \in Drafts : d # c.id => srv'[d] = srv[d]
    BY <2>0, <2>3, CommandFields DEF ServerTypes
  <2>6. /\ receipts' \in [Drafts -> Input \cup {None}] /\ receipts'[c.id] # None
        /\ \A d \in Drafts : d # c.id => receipts'[d] = receipts[d]
    <3>1. CASE c.rev > 0
      BY <3>1, <2>0, <2>2 DEF ServerTypes
    <3>2. CASE ~(c.rev > 0)
      BY <3>2, <2>0, CommandFields, NotNone DEF ServerTypes
    <3>. QED BY <3>1, <3>2
  <2>7. ServerTypes'
    BY <2>0, <2>5, <2>6 DEF ServerTypes
  <2>8. srv[c.id].rev = c.rev
    BY <2>1, <2>2, CommandFields
  <2>9. Grown
    BY <2>4, <2>5, <2>8, CommandFields, Stored DEF Grown
  <2>10. \A i \in DOMAIN jobs : jobs[i].id # c.id
    BY <2>1, <2>2 DEF ServerOK
  <2>11. ServerOK'
    <3>1. ASSUME NEW d \in Drafts
          PROVE  /\ srv'[d].state = "none" => srv'[d].rev = 0
                 /\ srv'[d].state # "none" => srv'[d].rev > 0 /\ receipts'[d] # None
                 /\ srv'[d].body.atts \subseteq {srv'[d].box}
      <4>1. CASE d = c.id
        BY <4>1, <2>1, <2>4, <2>5, <2>6, CommandFields
      <4>2. CASE d # c.id
        BY <4>2, <2>5, <2>6 DEF ServerOK
      <4>. QED BY <4>1, <4>2
    <3>2. \A i \in DOMAIN jobs : jobs[i].id \in Drafts
      BY JobFields
    <3>3. \A i \in DOMAIN jobs' : srv'[jobs'[i].id].state = "gone"
      BY <2>0, <2>5, <2>10, <3>2 DEF ServerOK
    <3>4. OneJobPerDraft' /\ JobIsWhatWasShown'
      BY <2>0 DEF ServerOK, OneJobPerDraft, JobIsWhatWasShown
    <3>. QED BY <3>1, <3>3, <3>4 DEF ServerOK
  <2>12. \A d \in Drafts : Seen(d)
    BY <2>4, <2>5, <2>8, CommandFields DEF Seen, Based
  <2>. QED BY <2>7, <2>9, <2>11, <2>12 DEF Served
<1>. QED BY <1>0, <1>1

\* SubmitDraft: the job is the stored content, which is what was shown.
LEMMA SubmitServed ==
  ASSUME ServerTypes, ServerOK, NEW s \in Submission, Faithful(s), SubmitDraft(s)
  PROVE  Served
<1>0. CASE SubmitOutcome(s) # "OK"
  BY <1>0, NothingServed DEF SubmitDraft, server
<1>1. CASE SubmitOutcome(s) = "OK"
  <2>. DEFINE j == [id |-> s.id, rev |-> s.rev, content |-> InputOf(srv[s.id]),
                    shown |-> s.shown]
  <2>0. jobs' = Append(jobs, j) /\ receipts' = receipts /\ srv' = [srv EXCEPT ![s.id].state = "gone"]
    BY <1>1 DEF SubmitDraft
  <2>1. srv[s.id].state = "live" /\ srv[s.id].rev = s.rev
    BY <1>1 DEF SubmitOutcome
  <2>2. j \in Job
    BY SubmissionFields, Stored DEF Job
  <2>3. j.id = s.id /\ j.content = j.shown
    BY <2>1 DEF Faithful, VersionOf
  <2>. HIDE DEF j
  <2>4. /\ srv' \in [Drafts -> StoredDraft]
        /\ srv'[s.id].state = "gone" /\ srv'[s.id].rev = srv[s.id].rev
        /\ srv'[s.id].box = srv[s.id].box /\ srv'[s.id].body = srv[s.id].body
        /\ \A d \in Drafts : d # s.id => srv'[d] = srv[d]
    <3>1. [srv[s.id] EXCEPT !.state = "gone"] \in StoredDraft
      BY Stored, SubmissionFields DEF StoredDraft
    <3>2. srv[s.id] \in StoredDraft /\ s.id \in Drafts
      BY Stored, SubmissionFields
    <3>3. srv'[s.id] = [srv[s.id] EXCEPT !.state = "gone"]
      BY <2>0, <3>2 DEF ServerTypes
    <3>4. srv' \in [Drafts -> StoredDraft] /\ \A d \in Drafts : d # s.id => srv'[d] = srv[d]
      BY <2>0, <3>1, <3>2 DEF ServerTypes
    <3>. QED BY <3>2, <3>3, <3>4 DEF StoredDraft
  <2>5. jobs' \in Seq(Job)
    BY <2>0, <2>2 DEF ServerTypes
  <2>6. ServerTypes'
    BY <2>0, <2>4, <2>5 DEF ServerTypes
  <2>7. Grown
    BY <2>4, Stored DEF Grown
  <2>8. /\ \A i \in DOMAIN jobs : i \in DOMAIN jobs' /\ jobs'[i] = jobs[i]
        /\ jobs'[Len(jobs) + 1] = j /\ Len(jobs) \in Nat
        /\ \A i \in DOMAIN jobs' : i \in DOMAIN jobs \/ i = Len(jobs) + 1
    BY <2>0, <2>2 DEF ServerTypes
  <2>9. \A i \in DOMAIN jobs : jobs[i].id # s.id
    BY <2>1 DEF ServerOK
  <2>10. ServerOK'
    <3>1. ASSUME NEW d \in Drafts
          PROVE  /\ srv'[d].state = "none" => srv'[d].rev = 0
                 /\ srv'[d].state # "none" => srv'[d].rev > 0 /\ receipts'[d] # None
                 /\ srv'[d].body.atts \subseteq {srv'[d].box}
      <4>1. CASE d = s.id
        BY <4>1, <2>0, <2>1, <2>4 DEF ServerOK
      <4>2. CASE d # s.id
        BY <4>2, <2>0, <2>4 DEF ServerOK
      <4>. QED BY <4>1, <4>2
    <3>2. \A i \in DOMAIN jobs' : srv'[jobs'[i].id].state = "gone"
      BY <2>3, <2>4, <2>8, <2>9, JobFields DEF ServerOK
    <3>3. OneJobPerDraft'
      BY <2>3, <2>8, <2>9 DEF ServerOK, OneJobPerDraft
    <3>4. JobIsWhatWasShown'
      BY <2>3, <2>8 DEF ServerOK, JobIsWhatWasShown
    <3>. QED BY <3>1, <3>2, <3>3, <3>4 DEF ServerOK
  <2>11. \A d \in Drafts : Seen(d)
    BY <2>4 DEF Seen
  <2>. QED BY <2>6, <2>7, <2>10, <2>11 DEF Served
<1>. QED BY <1>0, <1>1

\* A live draft is replaced by another tab: one revision more, or the same gone.
LEMMA ReplacedServed ==
  ASSUME NEW d \in Drafts, NEW n \in StoredDraft, ServerTypes, ServerOK,
         srv[d].state = "live", srv' \in [Drafts -> StoredDraft], srv'[d] = n,
         \A e \in Drafts : e # d => srv'[e] = srv[e],
         receipts' = receipts, jobs' = jobs,
         n.rev = srv[d].rev + 1 \/ (n.rev = srv[d].rev /\ n.box = srv[d].box /\ n.body = srv[d].body),
         n.body.atts \subseteq {n.box}, n.state = "gone" \/ (n.state = "live" /\ n.by = "other")
  PROVE  Served
<1>1. /\ srv' \in [Drafts -> StoredDraft] /\ srv'[d] = n
      /\ \A e \in Drafts : e # d => srv'[e] = srv[e]
  OBVIOUS
<1>2. ServerTypes'
  BY <1>1 DEF ServerTypes
<1>3. Grown
  BY <1>1, Stored DEF Grown
<1>4. \A i \in DOMAIN jobs : jobs[i].id \in Drafts /\ jobs[i].id # d
  BY JobFields DEF ServerOK
<1>5. ServerOK'
  <2>1. ASSUME NEW e \in Drafts
        PROVE  /\ srv'[e].state = "none" => srv'[e].rev = 0
               /\ srv'[e].state # "none" => srv'[e].rev > 0 /\ receipts'[e] # None
               /\ srv'[e].body.atts \subseteq {srv'[e].box}
    <3>1. CASE e = d
      BY <3>1, <1>1, Stored DEF ServerOK
    <3>2. CASE e # d
      BY <3>2, <1>1 DEF ServerOK
    <3>. QED BY <3>1, <3>2
  <2>2. \A i \in DOMAIN jobs' : srv'[jobs'[i].id].state = "gone"
    BY <1>1, <1>4 DEF ServerOK
  <2>3. OneJobPerDraft' /\ JobIsWhatWasShown'
    BY DEF ServerOK, OneJobPerDraft, JobIsWhatWasShown
  <2>. QED BY <2>1, <2>2, <2>3 DEF ServerOK
<1>6. \A e \in Drafts : Seen(e)
  BY <1>1 DEF Seen
<1>. QED BY <1>2, <1>3, <1>5, <1>6 DEF Served

\* The other tab: one revision more, a submission of what is stored, or gone.
LEMMA OtherServed ==
  ASSUME ServerTypes, ServerOK, OtherTab
  PROVE  Served
<1>1. PICK d \in Drafts :
        /\ srv[d].state = "live"
        /\ \/ /\ srv[d].rev < MaxRev
              /\ \E t \in Texts : srv' = [srv EXCEPT ![d].rev = @ + 1,
                                           ![d].body.text = t, ![d].by = "other"]
              /\ UNCHANGED <<receipts, jobs>>
           \/ SubmitDraft([id |-> d, rev |-> srv[d].rev, shown |-> InputOf(srv[d])])
           \/ /\ srv' = [srv EXCEPT ![d].state = "gone"]
              /\ UNCHANGED <<receipts, jobs>>
  BY DEF OtherTab
<1>2. srv[d].rev > 0 /\ receipts[d] # None /\ srv[d].body.atts \subseteq {srv[d].box}
  BY <1>1 DEF ServerOK
<1>3. CASE SubmitDraft([id |-> d, rev |-> srv[d].rev, shown |-> InputOf(srv[d])])
  <2>. DEFINE s == [id |-> d, rev |-> srv[d].rev, shown |-> InputOf(srv[d])]
  <2>1. s \in Submission
    BY <1>2, Stored DEF Submission
  <2>2. Faithful(s)
    BY Stored DEF Faithful, VersionOf
  <2>. HIDE DEF s
  <2>. QED BY <1>3, <2>1, <2>2, SubmitServed DEF s
<1>5. CASE /\ srv' = [srv EXCEPT ![d].state = "gone"]
           /\ UNCHANGED <<receipts, jobs>>
  <2>. DEFINE n == [srv[d] EXCEPT !.state = "gone"]
  <2>1. n \in StoredDraft /\ n.rev = srv[d].rev /\ n.box = srv[d].box /\ n.body = srv[d].body
        /\ n.state = "gone"
    BY Stored DEF StoredDraft
  <2>2. srv' = [srv EXCEPT ![d] = n]
    BY <1>5 DEF ServerTypes
  <2>. HIDE DEF n
  <2>3. n.body.atts \subseteq {n.box}
    BY <1>2, <2>1
  <2>4. receipts' = receipts /\ jobs' = jobs
    BY <1>5
  <2>5. /\ srv[d].state = "live" /\ srv' \in [Drafts -> StoredDraft] /\ srv'[d] = n
        /\ \A e \in Drafts : e # d => srv'[e] = srv[e]
    BY <1>1, <2>1, <2>2 DEF ServerTypes
  <2>. QED BY <2>1, <2>3, <2>4, <2>5, ReplacedServed
<1>6. ASSUME srv[d].rev < MaxRev, NEW t \in Texts,
             srv' = [srv EXCEPT ![d].rev = @ + 1, ![d].body.text = t, ![d].by = "other"],
             UNCHANGED <<receipts, jobs>>
      PROVE  Served
  <2>. DEFINE b == [srv[d].body EXCEPT !.text = t]
              n == [srv[d] EXCEPT !.rev = @ + 1, !.body = b, !.by = "other"]
  <2>1. b \in Body /\ b.atts = srv[d].body.atts
    BY Stored DEF Body
  <2>2. srv' = [srv EXCEPT ![d] = n]
    BY <1>6 DEF ServerTypes, StoredDraft
  <2>. HIDE DEF b
  <2>3. srv[d].rev + 1 \in 0 .. MaxRev
    BY <1>6, Stored, ComposeBounds
  <2>4. n \in StoredDraft /\ n.rev = srv[d].rev + 1 /\ n.box = srv[d].box /\ n.body = b
        /\ n.state = "live" /\ n.by = "other"
    BY <1>1, <2>1, <2>3, Stored DEF StoredDraft
  <2>. HIDE DEF n
  <2>5. n.body.atts \subseteq {n.box}
    BY <1>2, <2>1, <2>4
  <2>6. receipts' = receipts /\ jobs' = jobs
    BY <1>6
  <2>7. /\ srv[d].state = "live" /\ srv' \in [Drafts -> StoredDraft] /\ srv'[d] = n
        /\ \A e \in Drafts : e # d => srv'[e] = srv[e]
    BY <1>1, <2>2, <2>4 DEF ServerTypes
  <2>. QED BY <2>4, <2>5, <2>6, <2>7, ReplacedServed
<1>. QED BY <1>1, <1>3, <1>5, <1>6

\* Every step of the system serves at most one transaction.
Step == UserStep \/ EditorStep \/ NetworkStep \/ WorldStep

LEMMA TypesOfServer == ASSUME TypeOK PROVE ServerTypes
BY DEF TypeOK, ServerTypes

LEMMA StepServed ==
  ASSUME CInv, Step
  PROVE  Served
<1>1. ServerTypes /\ ServerOK /\ TypeOK
  BY TypesOfServer DEF CInv
<1>2. CASE UserStep
  <2>1. UNCHANGED server
    <3>1. ASSUME NEW t \in Texts, Type(t) PROVE UNCHANGED server
      BY <3>1 DEF Type, quiet
    <3>2. ASSUME NEW b \in Boxes, SelectMailbox(b) PROVE UNCHANGED server
      BY <3>2 DEF SelectMailbox, quiet
    <3>3. CASE PickTemplate \/ RemoveAttachment \/ ClickSave \/ Unpin \/ ClickSend
      BY <3>3 DEF PickTemplate, RemoveAttachment, ClickSave, Unpin, ClickSend, quiet
    <3>4. CASE ClickReload \/ ClickKeep \/ ClickUpload \/ ClickPreview \/ Close \/ Unmount
      BY <3>4 DEF ClickReload, ClickKeep, ClickUpload, ClickPreview, Close, Unmount, quiet
    <3>. QED BY <1>2, <3>1, <3>2, <3>3, <3>4 DEF UserStep
  <2>. QED BY <1>1, <2>1, NothingServed
<1>3. CASE EditorStep
  BY <1>1, <1>3, NothingServed DEF EditorStep, Autosave, LaneStart, quiet
<1>4. CASE WriteAnswered
  <2>1. wire.cmd \in Command /\ Based(wire.cmd)
    BY <1>1, <1>4 DEF WriteAnswered, TypeOK, Wire, CInv, WireOK
  <2>2. SaveMailDraft(wire.cmd)
    BY <1>4 DEF WriteAnswered
  <2>. QED BY <1>1, <2>1, <2>2, SaveServed
<1>5. CASE SubmitAnswered
  <2>1. submit \in Submission /\ Faithful(submit) /\ SubmitDraft(submit)
    BY <1>1, <1>5 DEF SubmitAnswered, TypeOK, CInv, SubmitOK
  <2>. QED BY <1>1, <2>1, SubmitServed
<1>6. CASE WriteTurnedAway \/ WriteLost \/ Readback \/ ReloadAnswered \/ UploadEnds
           \/ PreviewEnds \/ SubmitLost
  <2>1. UNCHANGED server
    BY <1>6 DEF WriteTurnedAway, WriteLost, Readback, ReloadAnswered, UploadEnds, PreviewEnds,
                SubmitLost, quiet
  <2>. QED BY <1>1, <2>1, NothingServed
<1>7. CASE StrayArrives
  <2>1. PICK m \in stray : IF m.kind = "save" THEN SaveMailDraft(m.msg) ELSE SubmitDraft(m.msg)
    BY <1>7 DEF StrayArrives
  <2>2. m \in [kind : {"save"}, msg : Command] \cup [kind : {"submit"}, msg : Submission]
    BY <1>1 DEF TypeOK
  <2>3. IF m.kind = "save" THEN Based(m.msg) ELSE Faithful(m.msg)
    BY DEF CInv, StrayOK
  <2>4. CASE m.kind = "save"
    BY <1>1, <2>1, <2>2, <2>3, <2>4, SaveServed
  <2>5. CASE m.kind # "save"
    BY <1>1, <2>1, <2>2, <2>3, <2>5, SubmitServed
  <2>. QED BY <2>4, <2>5
<1>8. CASE OtherTab
  BY <1>1, <1>8, OtherServed
<1>9. CASE RightsChange \/ Revalidate \/ SessionChanges
  BY <1>1, <1>9, NothingServed DEF RightsChange, Revalidate, SessionChanges
<1>. QED BY <1>2, <1>3, <1>4, <1>5, <1>6, <1>7, <1>8, <1>9 DEF Step, NetworkStep, WorldStep

\* What was true of a version stays true of it.
LEMMA VersionsStay ==
  ASSUME ServerTypes, ServerTypes', Grown, NEW d \in Drafts, NEW r \in Int
  PROVE  /\ \A i : VersionOf(d, r, i)
                   => (r <= srv'[d].rev /\ (r = srv'[d].rev => i = InputOf(srv'[d])))
         /\ \A b : (r <= srv[d].rev /\ (r = srv[d].rev => b = srv[d].body))
                   => (r <= srv'[d].rev /\ (r = srv'[d].rev => b = srv'[d].body))
<1>1. srv[d].rev \in Int /\ srv'[d].rev \in Int
  <2>1. srv[d] \in StoredDraft /\ srv'[d] \in StoredDraft
    BY DEF ServerTypes
  <2>. QED BY <2>1, ComposeBounds DEF StoredDraft
<1>2. /\ srv[d].rev <= srv'[d].rev
      /\ srv'[d].rev = srv[d].rev => srv'[d].box = srv[d].box /\ srv'[d].body = srv[d].body
  BY DEF Grown
<1>. QED BY <1>1, <1>2 DEF VersionOf, InputOf

LEMMA SubmissionsStay ==
  ASSUME ServerTypes, ServerTypes', Grown, NEW s \in Submission, Faithful(s)
  PROVE  s.rev <= srv'[s.id].rev /\ (s.rev = srv'[s.id].rev => s.shown = InputOf(srv'[s.id]))
BY VersionsStay, SubmissionFields DEF Faithful, VersionOf

LEMMA CommandsStay ==
  ASSUME ServerTypes, ServerTypes', Grown, NEW c \in Command, Based(c)
  PROVE  c.rev > 0 => c.rev <= srv'[c.id].rev /\ (c.rev = srv'[c.id].rev => c.base = srv'[c.id].body)
BY VersionsStay, CommandFields DEF Based

-----------------------------------------------------------------------------
(* The commit after every step.                                            *)

UITypes ==
  /\ draft \in MailDraft /\ payload \in Body /\ mailboxId \in Boxes
  /\ saveError \in {"none", "retry", "latched"} /\ saving \in BOOLEAN
  /\ pending \in Submission \cup {None} /\ submit \in Submission \cup {None}
  /\ busy \in {"none", "save", "flush", "submit", "reload", "upload", "preview"}
  /\ preview \in Input \cup {None} /\ owner \in Owner \cup {None}

WorldTypes ==
  /\ stray \subseteq [kind : {"save"}, msg : Command] \cup
                    [kind : {"submit"}, msg : Submission]
  /\ grant \in [Boxes -> BOOLEAN] /\ view \in [Boxes -> BOOLEAN]
  /\ tmplOk \in BOOLEAN /\ listed \in BOOLEAN /\ mounted \in BOOLEAN
  /\ session \in BOOLEAN

WriterTypes ==
  /\ writer \in Writer /\ lane \in Seq(Op) /\ wire \in Wire /\ known \in Body \cup {None}

LEMMA Parts ==
  ASSUME TypeOK
  PROVE  ServerTypes /\ UITypes /\ WorldTypes /\ WriterTypes
BY DEF TypeOK, ServerTypes, UITypes, WorldTypes, WriterTypes

\* The generations are numbers, and the timer is set only when it is wanted.
LEMMA CommitKeeps ==
  ASSUME TypeOK, TimerOK, Commit
  PROVE  /\ gen' \in [permission : Nat, sender : Nat]
         /\ withdrawn' \in [send : BOOLEAN, sender : BOOLEAN]
         /\ autosave' \in {"off", "armed", "fired"}
         /\ TimerOK'
<1>1. gen' \in [permission : Nat, sender : Nat]
  BY DEF Commit, NoMoves, TypeOK
<1>2. autosave' \in {"off", "armed", "fired"}
  BY DEF Commit, TypeOK
<1>3. withdrawn' \in [send : BOOLEAN, sender : BOOLEAN]
  BY DEF Commit, Nothing
<1>4. CASE autosaveDeps' # autosaveDeps
  <2>1. autosave' = "armed" => autosaveWanted'
    BY <1>4 DEF Commit
  <2>. QED BY <1>1, <1>2, <1>3, <2>1 DEF TimerOK
<1>5. CASE autosaveDeps' = autosaveDeps
  <2>1. autosave' = "armed" => autosave = "armed"
    BY <1>5 DEF Commit
  <2>2. /\ mounted' = mounted /\ dirty' = dirty /\ (busy # "none")' = (busy # "none")
        /\ pending' = pending /\ saveError' = saveError /\ senderAllowed' = senderAllowed
    BY <1>5 DEF autosaveDeps
  <2>3. autosaveWanted => autosaveWanted'
    BY <2>2 DEF autosaveWanted
  <2>. QED BY <1>1, <1>2, <1>3, <2>1, <2>3 DEF TimerOK
<1>. QED BY <1>4, <1>5

\* A running operation keeps its sender, or a move is counted.
LEMMA OwnerKeeps ==
  ASSUME TypeOK, OwnerOK, Commit, owner' = owner, mailboxId' = mailboxId,
         owner # None => busy' \in {"flush", "submit", "upload", "preview"},
         busy' \in {"upload", "preview"} => busy' = busy
  PROVE  OwnerOK'
<1>1. CASE owner = None
  BY <1>1 DEF OwnerOK
<1>2. CASE owner # None
  <2>1. gen'.sender \in Nat /\ gen.sender \in Nat /\ gen.sender <= gen'.sender /\ owner.sender \in Nat
    BY <1>2 DEF Commit, TypeOK, Owner
  <2>. QED BY <1>2, <2>1 DEF OwnerOK
<1>. QED BY <1>1, <1>2

LEMMA OwnerNone ==
  ASSUME owner' = None, busy' \notin {"upload", "preview"}
  PROVE  OwnerOK'
BY DEF OwnerOK

\* A click captures the sender and the attachments it shows.
LEMMA OwnerCaptures ==
  ASSUME TypeOK, AttachmentsFitSender, Commit, owner' = Captured, mailboxId' = mailboxId,
         busy' \in {"flush", "submit", "upload", "preview"}
  PROVE  OwnerOK' /\ owner' \in Owner /\ owner' # None /\ owner'.shown = Editing
         /\ owner'.permission = gen.permission
<1>1. Editing \in Input
  BY DEF Editing, Input, TypeOK
<1>2. /\ Captured \in Owner /\ Captured.sender = gen.sender /\ Captured.shown = Editing
      /\ Captured.permission = gen.permission
  BY <1>1 DEF Captured, Owner, TypeOK
<1>3. owner' # None
  BY <1>2, NotNone
<1>4. gen'.sender \in Nat /\ gen.sender \in Nat /\ gen.sender <= gen'.sender
  BY <1>3 DEF Commit, TypeOK
<1>5. Editing.box = mailboxId /\ Editing.body.atts \subseteq {Editing.box}
  BY DEF Editing, AttachmentsFitSender
<1>. QED BY <1>2, <1>3, <1>4, <1>5 DEF OwnerOK

-----------------------------------------------------------------------------
(* The lane.                                                               *)

LEMMA LaneTail ==
  ASSUME lane \in Seq(Op), lane # <<>>
  PROVE  /\ Head(lane) = lane[1] /\ lane[1] \in Op /\ Len(lane) \in Nat /\ Len(lane) >= 1
         /\ Tail(lane) \in Seq(Op) /\ Len(Tail(lane)) = Len(lane) - 1
         /\ \A i \in DOMAIN Tail(lane) : i \in 1 .. Len(lane) - 1 /\ i + 1 \in DOMAIN lane
                                         /\ Tail(lane)[i] = lane[i + 1]
OBVIOUS

LEMMA LaneAppend ==
  ASSUME lane \in Seq(Op), NEW op \in Op
  PROVE  /\ Append(lane, op) \in Seq(Op) /\ Len(lane) \in Nat
         /\ Len(Append(lane, op)) = Len(lane) + 1
         /\ Append(lane, op)[Len(lane) + 1] = op
         /\ \A i \in DOMAIN lane : Append(lane, op)[i] = lane[i] /\ i \in 1 .. Len(lane)
         /\ \A i \in DOMAIN Append(lane, op) : i \in DOMAIN lane \/ i = Len(lane) + 1
         /\ lane # <<>> => Append(lane, op)[1] = lane[1]
         /\ Append(lane, op) # <<>>
<1>1. /\ Append(lane, op) \in Seq(Op) /\ Len(lane) \in Nat
      /\ Len(Append(lane, op)) = Len(lane) + 1
      /\ Append(lane, op)[Len(lane) + 1] = op
      /\ \A i \in DOMAIN lane : Append(lane, op)[i] = lane[i] /\ i \in 1 .. Len(lane)
  OBVIOUS
<1>2. \A i \in DOMAIN Append(lane, op) : i \in DOMAIN lane \/ i = Len(lane) + 1
  OBVIOUS
<1>3. Append(lane, op) # <<>>
  <2>. DEFINE s == Append(lane, op)
  <2>1. s \in Seq(Op) /\ Len(s) # 0
    BY <1>1
  <2>. HIDE DEF s
  <2>2. s # <<>>
    BY <2>1
  <2>. QED BY <2>2 DEF s
<1>4. lane # <<>> => 1 \in DOMAIN lane
  OBVIOUS
<1>. QED BY <1>1, <1>2, <1>3, <1>4

\* What the operation at the head leaves of the lane and of the editor.
LEMMA Ends ==
  ASSUME CInv, lane # <<>>, lane' = Tail(lane),
         (busy' = busy /\ owner' = owner) \/ lane[1].by # "auto",
         saveError' # "none" => \/ saveError' = saveError
                                \/ \A i \in 2 .. Len(lane) : lane[i].by # "auto"
  PROVE  lane' \in Seq(Op) /\ LaneOK'
<1>1. lane \in Seq(Op)
  BY DEF CInv, TypeOK
<1>2. lane' \in Seq(Op) /\ Len(lane') = Len(lane) - 1 /\ Len(lane) \in Nat /\ 1 \in DOMAIN lane
  BY <1>1, LaneTail
<1>3. ASSUME NEW i \in DOMAIN lane'
      PROVE  /\ lane'[i].by # "auto" => i = Len(lane') /\ busy' \in {"save", "reload", "flush"}
             /\ lane'[i].by = "send" => /\ busy' = "flush" /\ owner' # None
                                        /\ lane'[i].input = owner'.shown
             /\ lane'[i].kind = "reload" => lane'[i].by = "user"
             /\ lane'[i].kind = "save" => lane'[i].input # None
             /\ saveError' # "none" => lane'[i].by # "auto"
  <2>1. i \in 1 .. Len(lane) - 1 /\ i + 1 \in DOMAIN lane /\ lane'[i] = lane[i + 1]
    BY <1>1, <1>3, LaneTail
  <2>2. /\ lane[i + 1].by # "auto" => i + 1 = Len(lane) /\ busy \in {"save", "reload", "flush"}
        /\ lane[i + 1].by = "send" => /\ busy = "flush" /\ owner # None
                                      /\ lane[i + 1].input = owner.shown
        /\ lane[i + 1].kind = "reload" => lane[i + 1].by = "user"
        /\ lane[i + 1].kind = "save" => lane[i + 1].input # None
        /\ saveError # "none" => lane[i + 1].by # "auto"
    BY <2>1 DEF CInv, LaneOK
  <2>3. lane[1].by # "auto" => Len(lane) = 1
    BY <1>2 DEF CInv, LaneOK
  <2>4. busy' = busy /\ owner' = owner
    BY <1>2, <2>1, <2>3
  <2>. QED BY <1>2, <2>1, <2>2, <2>4
<1>. QED BY <1>2, <1>3 DEF LaneOK

\* A user's operation joins the lane when no action is under way; an autosave when
\* no save has failed.
LEMMA Joins ==
  ASSUME CInv, NEW op \in Op, lane' = Append(lane, op), busy = "none", saveError' = saveError,
         op.by # "auto" => busy' \in {"save", "reload", "flush"},
         op.by = "send" => busy' = "flush" /\ owner' # None /\ op.input = owner'.shown,
         op.kind = "reload" => op.by = "user",
         op.kind = "save" => op.input # None,
         saveError # "none" => op.by # "auto"
  PROVE  lane' \in Seq(Op) /\ LaneOK' /\ lane' # <<>> /\ (lane # <<>> => lane'[1] = lane[1])
<1>1. lane \in Seq(Op)
  BY DEF CInv, TypeOK
<1>2. lane' \in Seq(Op) /\ Len(lane') = Len(lane) + 1 /\ Len(lane) \in Nat
      /\ lane' # <<>> /\ (lane # <<>> => lane'[1] = lane[1])
  BY <1>1, LaneAppend
<1>3. ASSUME NEW i \in DOMAIN lane'
      PROVE  /\ lane'[i].by # "auto" => i = Len(lane') /\ busy' \in {"save", "reload", "flush"}
             /\ lane'[i].by = "send" => /\ busy' = "flush" /\ owner' # None
                                        /\ lane'[i].input = owner'.shown
             /\ lane'[i].kind = "reload" => lane'[i].by = "user"
             /\ lane'[i].kind = "save" => lane'[i].input # None
             /\ saveError' # "none" => lane'[i].by # "auto"
  <2>1. CASE i \in DOMAIN lane
    <3>1. lane'[i] = lane[i]
      BY <1>1, <2>1, LaneAppend
    <3>. QED BY <2>1, <3>1 DEF CInv, LaneOK
  <2>2. CASE i = Len(lane) + 1
    <3>1. lane'[i] = op
      BY <1>1, <2>2, LaneAppend
    <3>. QED BY <1>2, <2>2, <3>1
  <2>3. i \in DOMAIN lane \/ i = Len(lane) + 1
    BY <1>1, LaneAppend
  <2>. QED BY <2>1, <2>2, <2>3
<1>. QED BY <1>2, <1>3 DEF LaneOK

\* The lane stays.
LEMMA Waits ==
  ASSUME CInv, lane' = lane, lane # <<>> => busy' = busy /\ owner' = owner /\ saveError' = saveError
  PROVE  lane' \in Seq(Op) /\ LaneOK'
<1>1. lane \in Seq(Op)
  BY DEF CInv, TypeOK
<1>2. CASE lane = <<>>
  BY <1>1, <1>2 DEF LaneOK
<1>3. CASE lane # <<>>
  BY <1>1, <1>3 DEF LaneOK, CInv
<1>. QED BY <1>2, <1>3

-----------------------------------------------------------------------------
(* The end of an operation of the lane, as the editor sees it.             *)

LEMMA ServedParts ==
  ASSUME CInv, Served
  PROVE  ServerTypes /\ ServerTypes' /\ ServerOK' /\ Grown
BY TypesOfServer DEF CInv, Served

LEMMA RequestsStay ==
  ASSUME CInv, Served, submit' = submit, pending' = pending, busy' = busy \/ busy # "submit"
  PROVE  SubmitOK'
<1>1. ASSUME NEW s \in Submission, Faithful(s)
      PROVE  s.rev <= srv'[s.id].rev /\ (s.rev = srv'[s.id].rev => s.shown = InputOf(srv'[s.id]))
  BY <1>1, ServedParts, SubmissionsStay
<1>2. submit \in Submission \cup {None} /\ pending \in Submission \cup {None}
  BY DEF CInv, TypeOK
<1>3. /\ submit # None => busy = "submit" /\ Faithful(submit)
      /\ pending # None => Faithful(pending)
  BY DEF CInv, SubmitOK
<1>4. submit # None => submit.rev <= srv'[submit.id].rev
                       /\ (submit.rev = srv'[submit.id].rev => submit.shown = InputOf(srv'[submit.id]))
  BY <1>1, <1>2, <1>3
<1>5. pending # None => pending.rev <= srv'[pending.id].rev
                       /\ (pending.rev = srv'[pending.id].rev => pending.shown = InputOf(srv'[pending.id]))
  BY <1>1, <1>2, <1>3
<1>. QED BY <1>3, <1>4, <1>5 DEF SubmitOK, Faithful, VersionOf, InputOf

\* The parts of the invariant about the editor itself.
EditorOK == UITypes /\ SubmitOK /\ LaneOK /\ OwnerOK /\ AttachmentsFitSender /\ lane \in Seq(Op)

LEMMA HeadFacts ==
  ASSUME CInv, lane # <<>>
  PROVE  /\ Head(lane) = lane[1] /\ lane[1] \in Op /\ 1 \in DOMAIN lane
         /\ lane[1].kind \in {"save", "reload"} /\ lane[1].by \in {"auto", "user", "send"}
         /\ lane[1].kind = "save" => lane[1].input \in Input
         /\ lane[1].by # "auto" => busy \in {"save", "reload", "flush"} /\ submit = None
         /\ lane[1].by = "send" => owner # None /\ lane[1].input = owner.shown /\ owner \in Owner
                                   /\ lane[1].kind = "save" /\ busy = "flush"
         /\ lane[1].kind = "reload" => lane[1].by = "user"
<1>1. Head(lane) = lane[1] /\ lane[1] \in Op /\ 1 \in DOMAIN lane
  BY LaneTail DEF CInv, TypeOK
<1>2. lane[1].kind \in {"save", "reload"} /\ lane[1].by \in {"auto", "user", "send"}
      /\ lane[1].input \in Input \cup {None}
  BY <1>1 DEF Op
<1>3. /\ lane[1].by # "auto" => busy \in {"save", "reload", "flush"}
      /\ lane[1].by = "send" => owner # None /\ lane[1].input = owner.shown /\ busy = "flush"
      /\ lane[1].kind = "reload" => lane[1].by = "user"
      /\ lane[1].kind = "save" => lane[1].input # None
  BY <1>1 DEF CInv, LaneOK
<1>. QED BY <1>1, <1>2, <1>3 DEF CInv, SubmitOK, TypeOK

LEMMA RejectedKeeps ==
  ASSUME CInv, Served, Commit, lane # <<>>, lane' = Tail(lane), NEW e \in {"retry", "latched"},
         Rejected(lane[1], e)
  PROVE  EditorOK'
<1>1. UITypes
  BY Parts DEF CInv
<1>2. /\ draft' = draft /\ payload' = payload /\ mailboxId' = mailboxId /\ preview' = preview
      /\ pending' = pending /\ submit' = submit
      /\ IF lane[1].by = "auto" THEN busy' = busy /\ owner' = owner
                                ELSE busy' = "none" /\ owner' = None
      /\ saving' \in BOOLEAN
  BY <1>1 DEF Rejected, ActionEnds, UITypes
<1>3. saveError' = saveError \/ (saveError' = e /\ (lane[1].by = "auto" => autosaveActive))
  BY DEF Rejected
<1>4. UITypes'
  BY <1>1, <1>2, <1>3 DEF UITypes
<1>5. SubmitOK'
  BY <1>2, HeadFacts, RequestsStay
<1>6. \/ saveError' = saveError
      \/ \A i \in 2 .. Len(lane) : lane[i].by # "auto"
  <2>1. CASE lane[1].by = "auto"
    BY <1>3, <2>1 DEF autosaveActive
  <2>2. CASE lane[1].by # "auto"
    <3>1. Len(lane) = 1
      BY <2>2, HeadFacts DEF CInv, LaneOK
    <3>. QED BY <3>1
  <2>. QED BY <2>1, <2>2
<1>7. lane' \in Seq(Op) /\ LaneOK'
  BY <1>2, <1>6, Ends
<1>8. OwnerOK'
  <2>1. CASE lane[1].by = "auto"
    BY <1>2, <2>1, OwnerKeeps DEF CInv, OwnerOK
  <2>2. CASE lane[1].by # "auto"
    BY <1>2, <2>2, OwnerNone
  <2>. QED BY <2>1, <2>2
<1>9. AttachmentsFitSender'
  BY <1>2 DEF CInv, AttachmentsFitSender
<1>. QED BY <1>4, <1>5, <1>7, <1>8, <1>9 DEF EditorOK

\* A flush that succeeds pins the submission of the version it was answered with.
LEMMA ResolvedKeeps ==
  ASSUME CInv, Served, Commit, lane # <<>>, lane' = Tail(lane), NEW v \in MailDraft, v.rev > 0,
         v.rev <= srv'[v.id].rev, v.rev = srv'[v.id].rev => InputOf(v) = InputOf(srv'[v.id]),
         InputOf(v) = lane[1].input, Resolved(lane[1], v)
  PROVE  EditorOK'
<1>. DEFINE s == [id |-> v.id, rev |-> v.rev, shown |-> owner.shown]
            sends == lane[1].by = "send" /\ assertSendAllowed
<1>1. UITypes
  BY Parts DEF CInv
<1>2. /\ payload' = payload /\ mailboxId' = mailboxId /\ preview' = preview
      /\ draft' \in MailDraft /\ saving' \in BOOLEAN
      /\ saveError' = saveError \/ saveError' = "none"
  BY <1>1 DEF Resolved, UITypes
<1>3. /\ lane[1].by = "auto" => UNCHANGED <<busy, owner, pending, submit>>
      /\ lane[1].by # "auto" /\ ~sends => /\ busy' = "none" /\ owner' = None
                                         /\ pending' = pending /\ submit' = submit
      /\ sends => busy' = "submit" /\ pending' = s /\ submit' = s /\ owner' = owner
  BY DEF Resolved, ActionEnds
<1>4. sends => s \in Submission /\ s.rev = v.rev /\ s.id = v.id /\ s.shown = InputOf(v)
  <2>1. v.id \in Drafts /\ v.rev \in 1 .. MaxRev
    BY ComposeBounds DEF MailDraft
  <2>2. sends => owner.shown \in Input /\ owner.shown = InputOf(v)
    BY HeadFacts DEF Owner
  <2>. QED BY <2>1, <2>2 DEF Submission
<1>. HIDE DEF s, sends
<1>5. UITypes'
  BY <1>1, <1>2, <1>3, <1>4 DEF UITypes
<1>6. SubmitOK'
  <2>1. CASE sends
    BY <1>3, <1>4, <2>1 DEF SubmitOK, Faithful, VersionOf, InputOf
  <2>2. CASE ~sends
    BY <1>3, <2>2, HeadFacts, RequestsStay
  <2>. QED BY <2>1, <2>2
<1>7. lane' \in Seq(Op) /\ LaneOK'
  BY <1>2, <1>3, Ends
<1>8. OwnerOK'
  <2>1. CASE lane[1].by = "auto"
    BY <1>2, <1>3, <2>1, OwnerKeeps DEF CInv, OwnerOK
  <2>2. CASE lane[1].by # "auto" /\ ~sends
    BY <1>3, <2>2, OwnerNone
  <2>3. CASE sends
    BY <1>2, <1>3, <2>3, OwnerKeeps DEF CInv, OwnerOK
  <2>. QED BY <2>1, <2>2, <2>3
<1>9. AttachmentsFitSender'
  BY <1>2 DEF CInv, AttachmentsFitSender
<1>. QED BY <1>5, <1>6, <1>7, <1>8, <1>9 DEF EditorOK

\* The editor waits for its operation.
LEMMA UnchangedKeeps ==
  ASSUME CInv, Served, Commit, UNCHANGED <<lane, ui>>
  PROVE  EditorOK'
<1>1. /\ lane' = lane /\ draft' = draft /\ payload' = payload /\ mailboxId' = mailboxId
      /\ saveError' = saveError /\ saving' = saving /\ pending' = pending /\ busy' = busy
      /\ preview' = preview /\ owner' = owner /\ submit' = submit
  BY DEF ui
<1>2. UITypes'
  BY <1>1, Parts DEF CInv, UITypes
<1>3. SubmitOK'
  BY <1>1, RequestsStay
<1>4. lane' \in Seq(Op) /\ LaneOK'
  BY <1>1, Waits
<1>5. OwnerOK'
  BY <1>1, OwnerKeeps DEF CInv, OwnerOK
<1>6. AttachmentsFitSender'
  BY <1>1 DEF CInv, AttachmentsFitSender
<1>. QED BY <1>2, <1>3, <1>4, <1>5, <1>6 DEF EditorOK

-----------------------------------------------------------------------------
(* The draft writer and its request.                                       *)

\* v is a version the server has had by now.
Current(v) ==
  v.rev <= srv'[v.id].rev /\ (v.rev = srv'[v.id].rev => InputOf(v) = InputOf(srv'[v.id]))

LEMMA DraftFields ==
  ASSUME NEW v \in MailDraft
  PROVE  /\ v.id \in Drafts /\ v.rev \in 0 .. MaxRev /\ v.rev \in Int /\ v.box \in Boxes
         /\ v.body \in Body /\ InputOf(v) \in Input
<1>1. v.id \in Drafts /\ v.rev \in 0 .. MaxRev /\ v.box \in Boxes /\ v.body \in Body
  BY DEF MailDraft
<1>. QED BY <1>1, ComposeBounds DEF InputOf, Input

LEMMA WriterFields ==
  ASSUME CInv
  PROVE  /\ writer \in Writer /\ writer.id \in Drafts /\ writer.snap \in MailDraft
         /\ writer.closed \in BOOLEAN /\ writer.conflict \in BOOLEAN
         /\ writer.pinned \in Command \cup {None} /\ writer.snap.id = writer.id
         /\ known \in Body \cup {None}
<1>1. writer \in Writer /\ known \in Body \cup {None}
  BY DEF CInv, TypeOK
<1>. QED BY <1>1 DEF Writer, CInv, WriterOK

\* The snapshot is still a version of the server after any transaction.
LEMMA SnapshotStays ==
  ASSUME CInv, Served, writer.snap.rev > 0
  PROVE  Current(writer.snap) /\ known = writer.snap.body
<1>1. VersionOf(writer.id, writer.snap.rev, InputOf(writer.snap)) /\ known = writer.snap.body
  BY DEF CInv, WriterOK
<1>2. writer.id \in Drafts /\ writer.snap.rev \in Int /\ writer.snap.id = writer.id
  BY WriterFields, DraftFields
<1>3. writer.snap.rev <= srv'[writer.id].rev
      /\ (writer.snap.rev = srv'[writer.id].rev => InputOf(writer.snap) = InputOf(srv'[writer.id]))
  BY <1>1, <1>2, ServedParts, VersionsStay
<1>. QED BY <1>1, <1>2, <1>3 DEF Current

LEMMA CommandStays ==
  ASSUME CInv, Served, NEW c \in Command, Based(c)
  PROVE  c.rev > 0 => c.rev <= srv'[c.id].rev /\ (c.rev = srv'[c.id].rev => c.base = srv'[c.id].body)
BY ServedParts, CommandsStay

\* The writer keeps its snapshot; what it pins is based on what it replaces.
LEMMA WriterStays ==
  ASSUME CInv, Served, writer' \in Writer, writer'.id = writer.id, writer'.snap = writer.snap,
         known' = known,
         writer'.pinned # None => writer'.pinned.id = writer.id /\ Based(writer'.pinned)
  PROVE  WriterOK' /\ known' \in Body \cup {None}
<1>1. writer'.snap.id = writer'.id /\ known' \in Body \cup {None}
  BY WriterFields
<1>2. writer'.snap.rev > 0 => /\ writer'.snap.rev <= srv'[writer'.id].rev
                              /\ writer'.snap.rev = srv'[writer'.id].rev
                                 => InputOf(writer'.snap) = InputOf(srv'[writer'.id])
                              /\ known' = writer'.snap.body
  BY <1>1, SnapshotStays DEF VersionOf, Current, InputOf
<1>3. writer'.pinned \in Command \cup {None}
  BY DEF Writer
<1>4. writer'.pinned # None => Based(writer.pinned)'
  <2>1. SUFFICES ASSUME writer'.pinned # None PROVE Based(writer.pinned)'
    OBVIOUS
  <2>2. PICK c \in Command : c = writer'.pinned
    BY <1>3, <2>1
  <2>3. c.rev > 0 => c.rev <= srv'[c.id].rev /\ (c.rev = srv'[c.id].rev => c.base = srv'[c.id].body)
    BY <2>1, <2>2, CommandStays
  <2>. QED BY <2>2, <2>3 DEF Based
<1>. QED BY <1>1, <1>2, <1>4 DEF WriterOK, VersionOf, InputOf

\* The writer takes the version it was answered with.
LEMMA WriterTakes ==
  ASSUME CInv, NEW v \in MailDraft, v.id = writer.id, Current(v), writer' \in Writer,
         writer'.id = writer.id, writer'.snap = v, writer'.pinned = None, known' = v.body
  PROVE  WriterOK' /\ known' \in Body \cup {None}
BY DraftFields DEF WriterOK, VersionOf, Current, InputOf

LEMMA WireIdle ==
  ASSUME wire' = Idle
  PROVE  WireOK' /\ wire' \in Wire
BY DEF Idle, WireOK, Wire

\* A request of the head of the lane is on the wire.
LEMMA WireWrites ==
  ASSUME NEW c \in Command, wire' \in Wire, wire'.pc \in {"write", "readback"}, wire'.cmd = c,
         lane' # <<>>, lane'[1].kind = "save", c.id = writer'.id,
         c.rev > 0 => c.rev <= srv'[c.id].rev /\ (c.rev = srv'[c.id].rev => c.base = srv'[c.id].body),
         wire'.own => InputOf(c) = lane'[1].input
  PROVE  WireOK'
BY DEF WireOK, Based, InputOf

-----------------------------------------------------------------------------
(* The steps of the lane.                                                  *)

WriterSide == WriterTypes /\ WriterOK /\ WireOK

LEMMA FailsKeeps ==
  ASSUME CInv, Served, Commit, lane # <<>>, NEW e \in {"retry", "latched"}, OpFails(e)
  PROVE  EditorOK' /\ WireOK' /\ wire' \in Wire
<1>1. lane' = Tail(lane) /\ wire' = Idle /\ Rejected(lane[1], e)
  BY HeadFacts DEF OpFails
<1>. QED BY <1>1, RejectedKeeps, WireIdle

LEMMA DoneKeeps ==
  ASSUME CInv, Served, Commit, lane # <<>>, NEW v \in MailDraft, v.rev > 0, Current(v),
         InputOf(v) = lane[1].input, OpDone(v)
  PROVE  EditorOK' /\ WireOK' /\ wire' \in Wire
<1>1. lane' = Tail(lane) /\ wire' = Idle /\ Resolved(lane[1], v)
  BY HeadFacts DEF OpDone
<1>. QED BY <1>1, ResolvedKeeps, WireIdle DEF Current

\* save() of content the server has confirmed, or of new content as a command on
\* the version of the snapshot.
LEMMA OwnWriteKeeps ==
  ASSUME CInv, Served, Commit, lane # <<>>, lane[1].kind = "save", writer'.id = writer.id,
         NEW v \in MailDraft, v.id = writer.id, v.rev > 0 => Current(v),
         NEW b \in Body \cup {None}, v.rev > 0 => b = v.body, OwnWrite(v, b)
  PROVE  EditorOK' /\ WireOK' /\ wire' \in Wire
<1>1. Head(lane) = lane[1] /\ lane[1].input \in Input
  BY HeadFacts
<1>2. CASE v.rev > 0 /\ lane[1].input = InputOf(v)
  <2>1. OpDone(v)
    BY <1>1, <1>2 DEF OwnWrite
  <2>. QED BY <1>2, <2>1, DoneKeeps
<1>3. CASE ~(v.rev > 0 /\ lane[1].input = InputOf(v)) /\ v.rev = MaxRev
  <2>1. OpFails("retry")
    BY <1>1, <1>3 DEF OwnWrite
  <2>. QED BY <2>1, FailsKeeps
<1>4. CASE ~(v.rev > 0 /\ lane[1].input = InputOf(v)) /\ v.rev # MaxRev
  <2>. DEFINE c == [id |-> writer.id, rev |-> v.rev, box |-> lane[1].input.box,
                    body |-> lane[1].input.body, uncertain |-> FALSE, base |-> b]
  <2>1. wire' = [pc |-> "write", cmd |-> c, own |-> TRUE] /\ UNCHANGED <<lane, ui>>
    BY <1>1, <1>4 DEF OwnWrite, Writing
  <2>2. lane[1].input.box \in Boxes /\ lane[1].input.body \in Body
        /\ lane[1].input = [box |-> lane[1].input.box, body |-> lane[1].input.body]
    BY <1>1 DEF Input
  <2>3. v.rev \in 0 .. MaxRev - 1
    BY <1>4, DraftFields, ComposeBounds
  <2>4. c \in Command
    BY <2>2, <2>3, WriterFields DEF Command
  <2>5. c.id = writer.id /\ c.rev = v.rev /\ c.base = b /\ InputOf(c) = lane[1].input
    BY <2>2 DEF InputOf
  <2>. HIDE DEF c
  <2>6. c.rev > 0 => c.rev <= srv'[c.id].rev /\ (c.rev = srv'[c.id].rev => c.base = srv'[c.id].body)
    BY <2>5 DEF Current, InputOf
  <2>7. wire' \in Wire /\ wire'.pc = "write" /\ wire'.cmd = c
    BY <2>1, <2>4 DEF Wire
  <2>8. lane' = lane
    BY <2>1
  <2>9. WireOK'
    BY <2>4, <2>5, <2>6, <2>7, <2>8, WireWrites
  <2>. QED BY <2>1, <2>7, <2>9, UnchangedKeeps
<1>. QED BY <1>2, <1>3, <1>4

LEMMA SideParts ==
  ASSUME EditorOK', WireOK', wire' \in Wire, writer' \in Writer, WriterOK',
         known' \in Body \cup {None}
  PROVE  EditorOK' /\ WriterSide'
BY DEF EditorOK, WriterSide, WriterTypes

\* The facts about the request under way.
LEMMA WireFields ==
  ASSUME CInv, wire.pc \in {"write", "readback"}
  PROVE  /\ lane # <<>> /\ lane[1].kind = "save" /\ wire.cmd \in Command
         /\ wire.cmd.id = writer.id /\ Based(wire.cmd) /\ wire \in Wire /\ wire.own \in BOOLEAN
         /\ wire.own => InputOf(wire.cmd) = lane[1].input
BY DEF CInv, WireOK, TypeOK, Wire

\* An acknowledged command becomes the snapshot, and the lane goes on.
LEMMA AcknowledgeKeeps ==
  ASSUME CInv, Served, Commit, wire.pc \in {"write", "readback"}, NEW v \in MailDraft,
         v.id = wire.cmd.id, v.rev = wire.cmd.rev + 1, InputOf(v) = InputOf(wire.cmd),
         Current(v), Acknowledge(v)
  PROVE  EditorOK' /\ WriterSide'
<1>1. /\ v.id = writer.id /\ v.rev > 0 /\ wire.cmd.body = v.body /\ v.body \in Body
      /\ lane # <<>> /\ lane[1].kind = "save"
  BY WireFields, CommandFields, DraftFields DEF InputOf
<1>2. /\ writer' \in Writer /\ writer'.id = writer.id /\ writer'.snap = v
      /\ writer'.pinned = None /\ known' = v.body
  BY <1>1, WriterFields DEF Acknowledge, Writer
<1>3. WriterOK' /\ known' \in Body \cup {None}
  BY <1>1, <1>2, WriterTakes
<1>4. EditorOK' /\ WireOK' /\ wire' \in Wire
  <2>1. CASE wire.own
    <3>1. OpDone(v) /\ InputOf(v) = lane[1].input
      BY <2>1, WireFields DEF Acknowledge
    <3>. QED BY <1>1, <3>1, DoneKeeps
  <2>2. CASE ~wire.own
    <3>1. OwnWrite(v, v.body)
      BY <1>1, <2>2 DEF Acknowledge
    <3>. QED BY <1>1, <1>2, <3>1, OwnWriteKeeps
  <2>. QED BY <2>1, <2>2
<1>. QED BY <1>2, <1>3, <1>4, SideParts

\* Nothing of the writer changes.
LEMMA WriterUnchanged ==
  ASSUME CInv, Served, writer' = writer, known' = known
  PROVE  writer' \in Writer /\ WriterOK' /\ known' \in Body \cup {None}
<1>1. writer' \in Writer /\ writer'.id = writer.id /\ writer'.snap = writer.snap
  BY WriterFields
<1>2. writer'.pinned # None => writer'.pinned.id = writer.id /\ Based(writer'.pinned)
  BY DEF CInv, WriterOK, Based
<1>. QED BY <1>1, <1>2, WriterStays

\* An operation fails and leaves the writer alone.
LEMMA PlainFailure ==
  ASSUME CInv, Served, Commit, lane # <<>>, NEW e \in {"retry", "latched"}, OpFails(e),
         writer' = writer, known' = known
  PROVE  EditorOK' /\ WriterSide'
BY FailsKeeps, WriterUnchanged, SideParts

LEMMA LaneStartKeeps ==
  ASSUME CInv, Served, Commit, LaneStart
  PROVE  EditorOK' /\ WriterSide'
<1>1. lane # <<>> /\ wire = Idle /\ writer' = writer /\ known' = known /\ Head(lane) = lane[1]
      /\ lane[1].kind \in {"save", "reload"}
  BY HeadFacts DEF LaneStart
<1>2. writer' \in Writer /\ WriterOK' /\ known' \in Body \cup {None}
  BY <1>1, WriterUnchanged
<1>3. CASE ~check
  <2>1. OpFails("retry")
    BY <1>3 DEF LaneStart
  <2>. QED BY <1>1, <2>1, PlainFailure
<1>4. CASE check /\ lane[1].kind = "reload"
  <2>1. wire' = [Idle EXCEPT !.pc = "reload"] /\ UNCHANGED <<lane, ui>>
    BY <1>1, <1>4 DEF LaneStart
  <2>2. wire' \in Wire /\ wire'.pc = "reload"
    BY <2>1 DEF Idle, Wire
  <2>3. WireOK'
    BY <1>1, <1>4, <2>1, <2>2 DEF WireOK
  <2>. QED BY <1>2, <2>1, <2>2, <2>3, UnchangedKeeps, SideParts
<1>5. CASE check /\ lane[1].kind = "save" /\ writer.conflict
  <2>1. OpFails("latched")
    BY <1>1, <1>5 DEF LaneStart
  <2>. QED BY <1>1, <2>1, PlainFailure
<1>6. CASE check /\ lane[1].kind = "save" /\ ~writer.conflict /\ writer.pinned # None
  <2>1. wire' = [pc |-> "write", cmd |-> writer.pinned, own |-> FALSE] /\ UNCHANGED <<lane, ui>>
    BY <1>1, <1>6 DEF LaneStart, Writing
  <2>2. writer.pinned \in Command /\ writer.pinned.id = writer.id /\ Based(writer.pinned)
    BY <1>6, WriterFields DEF CInv, WriterOK
  <2>3. PICK c \in Command : c = writer.pinned
    BY <2>2
  <2>4. c.rev > 0 => c.rev <= srv'[c.id].rev /\ (c.rev = srv'[c.id].rev => c.base = srv'[c.id].body)
    BY <2>2, <2>3, CommandStays
  <2>5. wire' \in Wire /\ wire'.pc = "write" /\ wire'.cmd = c /\ ~wire'.own
    BY <2>1, <2>3 DEF Wire
  <2>6. lane' # <<>> /\ lane'[1].kind = "save" /\ c.id = writer'.id
    BY <1>1, <1>6, <2>1, <2>2, <2>3
  <2>7. WireOK'
    BY <2>4, <2>5, <2>6, WireWrites
  <2>. QED BY <1>2, <2>1, <2>5, <2>7, UnchangedKeeps, SideParts
<1>7. CASE check /\ lane[1].kind = "save" /\ ~writer.conflict /\ writer.pinned = None
  <2>1. OwnWrite(writer.snap, known)
    BY <1>1, <1>7 DEF LaneStart
  <2>2. writer.snap.rev > 0 => Current(writer.snap) /\ known = writer.snap.body
    BY SnapshotStays
  <2>3. EditorOK' /\ WireOK' /\ wire' \in Wire
    BY <1>1, <1>7, <2>1, <2>2, WriterFields, OwnWriteKeeps
  <2>. QED BY <1>2, <2>3, SideParts
<1>. QED BY <1>1, <1>3, <1>4, <1>5, <1>6, <1>7

\* The refusal of a write.
LEMMA RefusedKeeps ==
  ASSUME CInv, Served, Commit, wire.pc = "write", NEW code, WriteRefused(code)
  PROVE  EditorOK' /\ WriterSide'
<1>1. CASE code = "CONFLICT" /\ wire.cmd.uncertain
  <2>1. wire' = [wire EXCEPT !.pc = "readback"] /\ UNCHANGED <<lane, ui>> /\ writer' = writer
        /\ known' = known
    BY <1>1 DEF WriteRefused
  <2>2. PICK c \in Command : c = wire.cmd
    BY WireFields
  <2>3. c.rev > 0 => c.rev <= srv'[c.id].rev /\ (c.rev = srv'[c.id].rev => c.base = srv'[c.id].body)
    BY <2>2, WireFields, CommandStays
  <2>4. wire' \in Wire /\ wire'.pc = "readback" /\ wire'.cmd = c /\ wire'.own = wire.own
    BY <2>1, <2>2, WireFields DEF Wire
  <2>5. lane' # <<>> /\ lane'[1].kind = "save" /\ c.id = writer'.id
        /\ (wire'.own => InputOf(c) = lane'[1].input)
    BY <2>1, <2>2, <2>4, WireFields
  <2>6. WireOK'
    BY <2>3, <2>4, <2>5, WireWrites
  <2>. QED BY <2>1, <2>4, <2>6, WriterUnchanged, UnchangedKeeps, SideParts
<1>2. CASE ~(code = "CONFLICT" /\ wire.cmd.uncertain)
  <2>. DEFINE latches == isDeterministicErrorCode(code)
  <2>1. /\ writer' = [writer EXCEPT !.pinned = None, !.conflict = latches]
        /\ OpFails(IF latches THEN "latched" ELSE "retry") /\ known' = known
    BY <1>2 DEF WriteRefused
  <2>2. latches \in BOOLEAN
    BY DEF isDeterministicErrorCode
  <2>. HIDE DEF latches
  <2>3. /\ writer' \in Writer /\ writer'.id = writer.id /\ writer'.snap = writer.snap
        /\ writer'.pinned = None
    BY <2>1, <2>2, WriterFields DEF Writer
  <2>4. WriterOK' /\ known' \in Body \cup {None}
    BY <2>1, <2>3, WriterStays
  <2>5. EditorOK' /\ WireOK' /\ wire' \in Wire
    <3>1. CASE latches
      BY <2>1, <3>1, WireFields, FailsKeeps
    <3>2. CASE ~latches
      BY <2>1, <3>2, WireFields, FailsKeeps
    <3>. QED BY <3>1, <3>2
  <2>. QED BY <2>3, <2>4, <2>5, SideParts
<1>. QED BY <1>1, <1>2

\* A save that is answered with success is the server's version.
LEMMA SaveAnswered ==
  ASSUME CInv, NEW c \in Command, SaveMailDraft(c), SaveAnswer(c).code = "OK"
  PROVE  /\ SaveAnswer(c).value \in MailDraft /\ SaveAnswer(c).value.id = c.id
         /\ SaveAnswer(c).value.rev = c.rev + 1 /\ InputOf(SaveAnswer(c).value) = InputOf(c)
         /\ Current(SaveAnswer(c).value)
<1>. DEFINE v == [id |-> c.id, rev |-> c.rev + 1, box |-> c.box, body |-> c.body,
                  usable |-> tmplOk]
<1>1. SaveOutcome(c) \in {"OK", "REPLAY"} /\ SaveAnswer(c).value = v
  BY DEF SaveAnswer, Answer
<1>2. v \in MailDraft
  BY CommandFields DEF MailDraft, CInv, TypeOK
<1>3. v.id = c.id /\ v.rev = c.rev + 1 /\ InputOf(v) = InputOf(c) /\ v.box = c.box /\ v.body = c.body
  BY DEF InputOf
<1>. HIDE DEF v
<1>4. srv'[c.id].rev = c.rev + 1 /\ srv'[c.id].box = c.box /\ srv'[c.id].body = c.body
  <2>1. CASE SaveOutcome(c) = "OK"
    BY <2>1, CommandFields DEF SaveMailDraft, CInv, TypeOK
  <2>2. CASE SaveOutcome(c) = "REPLAY"
    <3>1. srv' = srv
      BY <2>2 DEF SaveMailDraft
    <3>2. ~(c.rev > 0) /\ srv[c.id].rev = 1 /\ InputOf(srv[c.id]) = InputOf(c)
      BY <2>2 DEF SaveOutcome
    <3>. QED BY <3>1, <3>2, CommandFields DEF InputOf
  <2>. QED BY <1>1, <2>1, <2>2
<1>5. Current(v)
  <2>1. v.rev = srv'[v.id].rev /\ v.rev \in Int /\ v.box = srv'[v.id].box /\ v.body = srv'[v.id].body
    BY <1>3, <1>4, CommandFields
  <2>2. InputOf(v) = InputOf(srv'[v.id])
    BY <2>1 DEF InputOf
  <2>3. v.rev <= srv'[v.id].rev
    BY <2>1
  <2>. QED BY <2>2, <2>3 DEF Current
<1>. QED BY <1>1, <1>2, <1>3, <1>5

LEMMA WriteAnsweredKeeps ==
  ASSUME CInv, Served, Commit, WriteAnswered
  PROVE  EditorOK' /\ WriterSide'
<1>1. wire.pc = "write" /\ wire.cmd \in Command /\ SaveMailDraft(wire.cmd) /\ lane # <<>>
  BY WireFields DEF WriteAnswered
<1>. DEFINE a == SaveAnswer(wire.cmd)
<1>2. CASE ~check
  BY <1>1, <1>2, PlainFailure DEF WriteAnswered
<1>3. CASE check /\ a.code = "OK"
  <2>1. Acknowledge(a.value)
    BY <1>3 DEF WriteAnswered
  <2>2. /\ a.value \in MailDraft /\ a.value.id = wire.cmd.id
        /\ a.value.rev = wire.cmd.rev + 1 /\ InputOf(a.value) = InputOf(wire.cmd)
        /\ Current(a.value)
    BY <1>1, <1>3, SaveAnswered
  <2>. QED BY <1>1, <2>1, <2>2, AcknowledgeKeeps
<1>4. CASE check /\ a.code # "OK"
  <2>1. WriteRefused(a.code)
    BY <1>4 DEF WriteAnswered
  <2>. QED BY <1>1, <2>1, RefusedKeeps
<1>. QED BY <1>2, <1>3, <1>4

LEMMA WriteTurnedAwayKeeps ==
  ASSUME CInv, Served, Commit, WriteTurnedAway
  PROVE  EditorOK' /\ WriterSide'
<1>1. wire.pc = "write" /\ lane # <<>>
  BY WireFields DEF WriteTurnedAway
<1>2. CASE ~check
  BY <1>1, <1>2, PlainFailure DEF WriteTurnedAway
<1>3. CASE check
  BY <1>1, <1>3, RefusedKeeps DEF WriteTurnedAway
<1>. QED BY <1>2, <1>3

\* The lost write is pinned and read back; its request may still arrive.
LEMMA WriteLostKeeps ==
  ASSUME CInv, Served, Commit, WriteLost
  PROVE  EditorOK' /\ WriterSide'
<1>1. wire.pc = "write" /\ lane # <<>>
  BY WireFields DEF WriteLost
<1>2. CASE ~check
  BY <1>1, <1>2, PlainFailure DEF WriteLost
<1>3. CASE check
  <2>. DEFINE c == [wire.cmd EXCEPT !.uncertain = TRUE]
  <2>1. /\ writer' = [writer EXCEPT !.pinned = c]
        /\ wire' = [wire EXCEPT !.pc = "readback", !.cmd = c]
        /\ UNCHANGED <<lane, ui>> /\ known' = known /\ lane' = lane
    BY <1>3 DEF WriteLost
  <2>2. /\ wire.cmd \in Command /\ wire.cmd.id = writer.id /\ Based(wire.cmd) /\ wire \in Wire
        /\ lane[1].kind = "save" /\ (wire.own => InputOf(wire.cmd) = lane[1].input)
    BY <1>1, WireFields
  <2>3. c \in Command /\ c.id = wire.cmd.id /\ c.rev = wire.cmd.rev /\ c.base = wire.cmd.base
        /\ c.box = wire.cmd.box /\ c.body = wire.cmd.body
    BY <2>2 DEF Command
  <2>. HIDE DEF c
  <2>4. Based(c) /\ InputOf(c) = InputOf(wire.cmd)
    BY <2>2, <2>3 DEF Based, InputOf
  <2>5. /\ writer' \in Writer /\ writer'.id = writer.id /\ writer'.snap = writer.snap
        /\ writer'.pinned = c
    BY <2>1, <2>3, WriterFields DEF Writer
  <2>6. WriterOK' /\ known' \in Body \cup {None}
    BY <2>1, <2>2, <2>3, <2>4, <2>5, WriterStays
  <2>7. c.rev > 0 => c.rev <= srv'[c.id].rev /\ (c.rev = srv'[c.id].rev => c.base = srv'[c.id].body)
    BY <2>3, <2>4, CommandStays
  <2>8. wire' \in Wire /\ wire'.pc = "readback" /\ wire'.cmd = c /\ wire'.own = wire.own
    BY <2>1, <2>2, <2>3 DEF Wire
  <2>9. WireOK'
    BY <1>1, <2>1, <2>2, <2>3, <2>4, <2>5, <2>7, <2>8, WireWrites
  <2>. QED BY <2>1, <2>5, <2>6, <2>8, <2>9, UnchangedKeeps, SideParts
<1>. QED BY <1>2, <1>3

\* A read answers with the server's version, whose attachments fit its sender.
LEMMA ReadAnswered ==
  ASSUME CInv, Served, UNCHANGED server, NEW d \in Drafts, GetMailDraft(d).code = "OK"
  PROVE  /\ GetMailDraft(d).value \in MailDraft /\ GetMailDraft(d).value.id = d
         /\ GetMailDraft(d).value.rev > 0 /\ Current(GetMailDraft(d).value)
         /\ GetMailDraft(d).value.body.atts \subseteq {GetMailDraft(d).value.box}
<1>. DEFINE v == [id |-> d, rev |-> srv[d].rev, box |-> srv[d].box, body |-> srv[d].body,
                  usable |-> tmplOk]
<1>1. srv[d].state = "live" /\ GetMailDraft(d).value = v
  BY DEF GetMailDraft, Answer
<1>2. ServerTypes /\ srv[d].rev > 0 /\ srv[d].body.atts \subseteq {srv[d].box} /\ tmplOk \in BOOLEAN
  BY <1>1, TypesOfServer DEF CInv, ServerOK, TypeOK
<1>3. v \in MailDraft
  BY <1>2, Stored DEF MailDraft
<1>4. v.id = d /\ v.rev = srv[d].rev /\ v.box = srv[d].box /\ v.body = srv[d].body
  OBVIOUS
<1>. HIDE DEF v
<1>5. srv' = srv
  BY DEF server
<1>6. Current(v)
  <2>1. v.rev = srv'[v.id].rev /\ v.rev \in Int /\ v.box = srv'[v.id].box /\ v.body = srv'[v.id].body
    BY <1>2, <1>4, <1>5, Stored
  <2>2. InputOf(v) = InputOf(srv'[v.id])
    BY <2>1 DEF InputOf
  <2>3. v.rev <= srv'[v.id].rev
    BY <2>1
  <2>. QED BY <2>2, <2>3 DEF Current
<1>. QED BY <1>1, <1>2, <1>3, <1>4, <1>6

LEMMA ReadbackKeeps ==
  ASSUME CInv, Served, Commit, Readback
  PROVE  EditorOK' /\ WriterSide'
<1>1. wire.pc = "readback" /\ lane # <<>> /\ UNCHANGED server /\ writer.id \in Drafts
  BY WireFields, WriterFields DEF Readback
<1>2. PICK a \in {GetMailDraft(writer.id), Answer("LOST", None)} :
       IF ~check THEN OpFails("retry") /\ UNCHANGED <<writer, known>>
       ELSE IF a.code = "OK" /\ acknowledgementMatches(a.value, wire.cmd)
       THEN Acknowledge(a.value)
       ELSE IF a.code = "OK" /\ a.value.rev > wire.cmd.rev
       THEN /\ writer' = [writer EXCEPT !.conflict = TRUE]
            /\ OpFails("latched") /\ UNCHANGED known
       ELSE OpFails("retry") /\ UNCHANGED <<writer, known>>
  BY DEF Readback
<1>3. CASE check /\ a.code = "OK" /\ acknowledgementMatches(a.value, wire.cmd)
  <2>1. a = GetMailDraft(writer.id)
    BY <1>2, <1>3 DEF Answer
  <2>2. a.value \in MailDraft /\ Current(a.value)
    BY <1>1, <1>3, <2>1, ReadAnswered
  <2>3. /\ a.value.id = wire.cmd.id /\ a.value.rev = wire.cmd.rev + 1
        /\ InputOf(a.value) = InputOf(wire.cmd)
    BY <1>3 DEF acknowledgementMatches
  <2>. QED BY <1>1, <1>2, <1>3, <2>2, <2>3, AcknowledgeKeeps
<1>4. CASE OpFails("latched") /\ writer' = [writer EXCEPT !.conflict = TRUE] /\ known' = known
  <2>1. /\ writer' \in Writer /\ writer'.id = writer.id /\ writer'.snap = writer.snap
        /\ writer'.pinned = writer.pinned
    BY <1>4, WriterFields DEF Writer
  <2>2. writer'.pinned # None => writer'.pinned.id = writer.id /\ Based(writer'.pinned)
    BY <2>1 DEF CInv, WriterOK, Based
  <2>3. WriterOK' /\ known' \in Body \cup {None}
    BY <1>4, <2>1, <2>2, WriterStays
  <2>. QED BY <1>1, <1>4, <2>1, <2>3, FailsKeeps, SideParts
<1>5. CASE OpFails("retry") /\ UNCHANGED <<writer, known>>
  BY <1>1, <1>5, PlainFailure
<1>. QED BY <1>2, <1>3, <1>4, <1>5

\* reload(): the server's version replaces everything this window held.
LEMMA ReloadAnsweredKeeps ==
  ASSUME CInv, Served, Commit, ReloadAnswered
  PROVE  EditorOK' /\ WriterSide'
<1>1. wire.pc = "reload" /\ lane # <<>> /\ lane[1].kind = "reload" /\ UNCHANGED server
      /\ writer.id \in Drafts
  BY WriterFields DEF ReloadAnswered, CInv, WireOK
<1>2. PICK a \in {GetMailDraft(writer.id), Answer("LOST", None)} :
       IF ~check \/ a.code # "OK"
       THEN OpFails("retry") /\ UNCHANGED <<writer, known>>
       ELSE /\ writer' = [writer EXCEPT !.snap = a.value, !.conflict = FALSE,
                                        !.pinned = None]
            /\ known' = a.value.body
            /\ lane' = Tail(lane) /\ wire' = Idle
            /\ draft' = a.value /\ payload' = a.value.body
            /\ mailboxId' = a.value.box
            /\ saveError' = "none" /\ preview' = None
            /\ ActionEnds /\ UNCHANGED <<saving, pending, submit>>
  BY DEF ReloadAnswered
<1>3. CASE ~check \/ a.code # "OK"
  BY <1>1, <1>2, <1>3, PlainFailure
<1>4. CASE ~(~check \/ a.code # "OK")
  <2>0. PICK v : v = a.value
    OBVIOUS
  <2>1. a = GetMailDraft(writer.id)
    BY <1>2, <1>4 DEF Answer
  <2>2. v \in MailDraft /\ v.id = writer.id /\ Current(v) /\ v.body.atts \subseteq {v.box}
    BY <1>1, <1>4, <2>0, <2>1, ReadAnswered
  <2>3. /\ writer' = [writer EXCEPT !.snap = v, !.conflict = FALSE, !.pinned = None]
        /\ known' = v.body /\ lane' = Tail(lane) /\ wire' = Idle /\ draft' = v
        /\ payload' = v.body /\ mailboxId' = v.box /\ saveError' = "none" /\ preview' = None
        /\ busy' = "none" /\ owner' = None /\ saving' = saving /\ pending' = pending
        /\ submit' = submit
    BY <1>2, <1>4, <2>0 DEF ActionEnds
  <2>4. /\ writer' \in Writer /\ writer'.id = writer.id /\ writer'.snap = v
        /\ writer'.pinned = None
    BY <2>2, <2>3, WriterFields DEF Writer
  <2>5. WriterOK' /\ known' \in Body \cup {None}
    BY <2>2, <2>3, <2>4, WriterTakes
  <2>6. UITypes'
    BY <2>2, <2>3, DraftFields, Parts DEF UITypes, CInv
  <2>7. lane[1].by = "user" /\ busy # "submit"
    BY <1>1, HeadFacts
  <2>8. SubmitOK' /\ OwnerOK'
    BY <2>3, <2>7, RequestsStay, OwnerNone
  <2>9. lane' \in Seq(Op) /\ LaneOK'
    BY <1>1, <2>3, <2>7, Ends
  <2>10. AttachmentsFitSender'
    BY <2>2, <2>3 DEF AttachmentsFitSender
  <2>11. EditorOK'
    BY <2>6, <2>8, <2>9, <2>10 DEF EditorOK
  <2>. QED BY <2>3, <2>4, <2>5, <2>11, WireIdle, SideParts
<1>. QED BY <1>3, <1>4

-----------------------------------------------------------------------------
(* The user at the editor.                                                 *)

\* The writer goes on with its lane.
LEMMA SideStays ==
  ASSUME CInv, Served, writer' \in Writer, writer'.id = writer.id, writer'.snap = writer.snap,
         writer'.pinned = writer.pinned, known' = known, wire' = wire, lane' \in Seq(Op),
         lane # <<>> => lane' # <<>> /\ lane'[1] = lane[1]
  PROVE  WriterSide'
<1>1. writer'.pinned # None => writer'.pinned.id = writer.id /\ Based(writer'.pinned)
  BY DEF CInv, WriterOK, Based
<1>2. WriterOK' /\ known' \in Body \cup {None}
  BY <1>1, WriterStays
<1>3. wire' \in Wire
  BY DEF CInv, TypeOK
<1>4. CASE wire.pc \in {"write", "readback"}
  <2>1. PICK c \in Command : c = wire.cmd
    BY <1>4, WireFields
  <2>2. c.rev > 0 => c.rev <= srv'[c.id].rev /\ (c.rev = srv'[c.id].rev => c.base = srv'[c.id].body)
    BY <1>4, <2>1, WireFields, CommandStays
  <2>3. WireOK'
    BY <1>3, <1>4, <2>1, <2>2, WireFields, WireWrites
  <2>. QED BY <1>2, <1>3, <2>3 DEF WriterSide, WriterTypes
<1>5. CASE wire.pc \notin {"write", "readback"}
  <2>1. WireOK'
    BY <1>5 DEF CInv, WireOK, Idle
  <2>. QED BY <1>2, <1>3, <2>1 DEF WriterSide, WriterTypes
<1>. QED BY <1>4, <1>5

LEMMA SideUnchanged ==
  ASSUME CInv, Served, UNCHANGED draftWriter
  PROVE  WriterSide'
<1>1. writer' = writer /\ lane' = lane /\ wire' = wire /\ known' = known
  BY DEF draftWriter
<1>2. writer \in Writer /\ lane \in Seq(Op)
  BY DEF CInv, TypeOK
<1>. QED BY <1>1, <1>2, SideStays

\* With no action under way nobody owns the editor and nothing is submitted.
LEMMA Free ==
  ASSUME CInv, busy = "none"
  PROVE  owner = None /\ submit = None
BY DEF CInv, OwnerOK, SubmitOK

\* An edit of the content or of the sender.
LEMMA EditKeeps ==
  ASSUME CInv, Served, Commit, ~locked, payload' \in Body, mailboxId' \in Boxes,
         payload'.atts \subseteq {mailboxId'}, preview' = None, NotOperating,
         UNCHANGED <<draftWriter, draft, saveError, saving>>
  PROVE  EditorOK' /\ WriterSide'
<1>1. /\ busy' = busy /\ owner' = owner /\ pending' = pending /\ submit' = submit
      /\ lane' = lane /\ draft' = draft /\ saveError' = saveError /\ saving' = saving
      /\ UNCHANGED draftWriter
  BY DEF NotOperating, draftWriter
<1>2. busy = "none" /\ owner = None
  BY Free DEF locked
<1>3. UITypes'
  BY <1>1, Parts DEF UITypes, CInv
<1>4. SubmitOK'
  BY <1>1, RequestsStay
<1>5. OwnerOK'
  BY <1>1, <1>2, OwnerNone
<1>6. lane' \in Seq(Op) /\ LaneOK'
  BY <1>1, Waits
<1>7. AttachmentsFitSender'
  BY DEF AttachmentsFitSender
<1>. QED BY <1>1, <1>3, <1>4, <1>5, <1>6, <1>7, SideUnchanged DEF EditorOK

LEMMA BodyFields ==
  ASSUME CInv
  PROVE  /\ payload \in Body /\ payload.text \in Texts /\ payload.pin \in BOOLEAN
         /\ payload.atts \in SUBSET Boxes /\ mailboxId \in Boxes
         /\ payload.atts \subseteq {mailboxId} /\ Editing \in Input /\ Editing # None
<1>1. payload \in Body /\ mailboxId \in Boxes
  BY DEF CInv, TypeOK
<1>2. payload.text \in Texts /\ payload.pin \in BOOLEAN /\ payload.atts \in SUBSET Boxes
  BY <1>1 DEF Body
<1>3. Editing \in Input
  BY <1>1 DEF Editing, Input
<1>. QED BY <1>1, <1>2, <1>3, NotNone DEF CInv, AttachmentsFitSender

LEMMA EditsKeep ==
  ASSUME CInv, Served, Commit,
         \/ \E t \in Texts : Type(t)
         \/ PickTemplate
         \/ \E b \in Boxes : SelectMailbox(b)
         \/ RemoveAttachment
  PROVE  EditorOK' /\ WriterSide'
<1>1. ASSUME NEW t \in Texts, Type(t) PROVE EditorOK' /\ WriterSide'
  <2>1. payload' = [payload EXCEPT !.text = t] /\ preview' = None /\ mailboxId' = mailboxId
        /\ ~locked /\ NotOperating /\ UNCHANGED <<draftWriter, draft, saveError, saving>>
    BY <1>1 DEF Type, change, CanEditRecipients, CanEditVars, CanEditText
  <2>2. payload' \in Body /\ payload'.atts = payload.atts
    BY <2>1, BodyFields DEF Body
  <2>. QED BY <2>1, <2>2, BodyFields, EditKeeps
<1>2. CASE PickTemplate
  <2>1. payload' = [payload EXCEPT !.pin = ~@] /\ preview' = None /\ mailboxId' = mailboxId
        /\ ~locked /\ NotOperating /\ UNCHANGED <<draftWriter, draft, saveError, saving>>
    BY <1>2 DEF PickTemplate, change
  <2>2. payload' \in Body /\ payload'.atts = payload.atts
    BY <2>1, BodyFields DEF Body
  <2>. QED BY <2>1, <2>2, BodyFields, EditKeeps
<1>3. ASSUME NEW b \in Boxes, SelectMailbox(b) PROVE EditorOK' /\ WriterSide'
  <2>1. payload' = [payload EXCEPT !.pin = FALSE, !.atts = {}] /\ preview' = None /\ mailboxId' = b
        /\ ~locked /\ NotOperating /\ UNCHANGED <<draftWriter, draft, saveError, saving>>
    BY <1>3 DEF SelectMailbox, change
  <2>2. payload' \in Body /\ payload'.atts = {}
    BY <2>1, BodyFields DEF Body
  <2>. QED BY <2>1, <2>2, EditKeeps
<1>4. CASE RemoveAttachment
  <2>1. payload' = [payload EXCEPT !.atts = {}] /\ preview' = None /\ mailboxId' = mailboxId
        /\ ~locked /\ NotOperating /\ UNCHANGED <<draftWriter, draft, saveError, saving>>
    BY <1>4 DEF RemoveAttachment, change
  <2>2. payload' \in Body /\ payload'.atts = {}
    BY <2>1, BodyFields DEF Body
  <2>. QED BY <2>1, <2>2, BodyFields, EditKeeps
<1>. QED BY <1>1, <1>2, <1>3, <1>4

\* An operation joins the lane.
LEMMA EnqueueKeeps ==
  ASSUME CInv, Served, Commit, NEW op \in Op, Enqueue(op), busy = "none",
         UNCHANGED <<draft, mailboxId, saveError, pending, submit, writer, wire, known>>,
         payload' \in Body, payload'.atts = payload.atts, preview' \in {preview, None},
         \/ owner' = None /\ busy' = IF op.by = "auto" THEN "none" ELSE
                                     IF op.kind = "save" THEN "save" ELSE "reload"
         \/ owner' = Captured /\ busy' = "flush" /\ op.input = Editing,
         op.by = "send" => busy' = "flush",
         op.kind = "reload" => op.by = "user", op.kind = "save" => op.input # None,
         op.by = "auto" => saveError = "none"
  PROVE  EditorOK' /\ WriterSide'
<1>0. /\ draft' = draft /\ mailboxId' = mailboxId /\ saveError' = saveError /\ pending' = pending
      /\ submit' = submit /\ writer' = writer /\ wire' = wire /\ known' = known
  OBVIOUS
<1>1. lane' = Append(lane, op) /\ saving' \in BOOLEAN
  BY Parts DEF Enqueue, UITypes, CInv
<1>2. owner = None
  BY Free
<1>3. OwnerOK' /\ owner' \in Owner \cup {None}
      /\ busy' \in {"none", "save", "reload", "flush"}
      /\ (op.by # "auto" => busy' \in {"save", "reload", "flush"})
      /\ (busy' = "flush" => owner' # None /\ op.input = owner'.shown)
  <2>1. CASE owner' = Captured /\ busy' = "flush" /\ op.input = Editing
    BY <1>0, <2>1, OwnerCaptures DEF CInv
  <2>2. CASE owner' = None /\ busy' = IF op.by = "auto" THEN "none" ELSE
                                     IF op.kind = "save" THEN "save" ELSE "reload"
    BY <2>2, OwnerNone
  <2>. QED BY <2>1, <2>2
<1>4. UITypes'
  BY <1>0, <1>1, <1>3, Parts DEF UITypes, CInv
<1>5. SubmitOK'
  BY <1>0, RequestsStay
<1>6. lane' \in Seq(Op) /\ LaneOK' /\ lane' # <<>> /\ (lane # <<>> => lane'[1] = lane[1])
  BY <1>0, <1>1, <1>3, Joins
<1>7. AttachmentsFitSender'
  BY <1>0 DEF CInv, AttachmentsFitSender
<1>8. WriterSide'
  BY <1>0, <1>6, SideStays, WriterFields
<1>. QED BY <1>3, <1>4, <1>5, <1>6, <1>7, <1>8 DEF EditorOK

LEMMA OpShape ==
  ASSUME NEW k \in {"save", "reload"}, NEW w \in {"auto", "user", "send"}, NEW i \in Input \cup {None}
  PROVE  [kind |-> k, by |-> w, input |-> i] \in Op
BY DEF Op

LEMMA QueueingKeeps ==
  ASSUME CInv, Served, Commit, Autosave \/ ClickSave \/ Unpin \/ ClickReload
  PROVE  EditorOK' /\ WriterSide'
<1>1. Editing \in Input /\ Editing # None /\ payload \in Body
  BY BodyFields
<1>2. CASE Autosave
  <2>. DEFINE op == [kind |-> "save", by |-> "auto", input |-> Editing]
  <2>1. op \in Op /\ op.kind = "save" /\ op.by = "auto" /\ op.input = Editing
    BY <1>1, OpShape
  <2>2. busy = "none" /\ saveError = "none"
    BY <1>2 DEF Autosave, CInv, TimerOK, autosaveWanted
  <2>3. Enqueue(op)
    BY <1>2 DEF Autosave
  <2>4. /\ UNCHANGED <<draft, mailboxId, saveError, pending, submit, writer, wire, known>>
        /\ payload' = payload /\ preview' = preview /\ owner' = owner /\ busy' = busy
    BY <1>2 DEF Autosave, NotOperating
  <2>. HIDE DEF op
  <2>. QED BY <1>1, <2>1, <2>2, <2>3, <2>4, Free, EnqueueKeeps
<1>3. CASE ClickSave
  <2>. DEFINE op == [kind |-> "save", by |-> "user", input |-> Editing]
  <2>1. op \in Op /\ op.kind = "save" /\ op.by = "user" /\ op.input = Editing
    BY <1>1, OpShape
  <2>2. busy = "none" /\ busy' = "save" /\ Enqueue(op)
    BY <1>3 DEF ClickSave
  <2>4. /\ UNCHANGED <<draft, mailboxId, saveError, pending, submit, writer, wire, known>>
        /\ payload' = payload /\ preview' = preview /\ owner' = owner
    BY <1>3 DEF ClickSave
  <2>. HIDE DEF op
  <2>. QED BY <1>1, <2>1, <2>2, <2>4, Free, EnqueueKeeps
<1>4. CASE Unpin
  <2>. DEFINE next == [payload EXCEPT !.pin = FALSE]
              op == [kind |-> "save", by |-> "user", input |-> [box |-> mailboxId, body |-> next]]
  <2>0. next \in Body /\ next.atts = payload.atts /\ [box |-> mailboxId, body |-> next] \in Input
    BY <1>1, BodyFields DEF Body, Input
  <2>1. op \in Op /\ op.kind = "save" /\ op.by = "user" /\ op.input \in Input
    BY <2>0, OpShape
  <2>2. busy = "none" /\ busy' = "save" /\ Enqueue(op) /\ payload' = next
    BY <1>4 DEF Unpin, locked
  <2>4. /\ UNCHANGED <<draft, mailboxId, saveError, pending, submit, writer, wire, known>>
        /\ preview' = None /\ owner' = owner
    BY <1>4 DEF Unpin
  <2>. HIDE DEF op, next
  <2>. QED BY <2>0, <2>1, <2>2, <2>4, NotNone, Free, EnqueueKeeps
<1>5. CASE ClickReload
  <2>. DEFINE op == [kind |-> "reload", by |-> "user", input |-> None]
  <2>1. op \in Op /\ op.kind = "reload" /\ op.by = "user"
    BY OpShape
  <2>2. busy = "none" /\ busy' = "reload" /\ Enqueue(op)
    BY <1>5 DEF ClickReload, panelReady
  <2>4. /\ UNCHANGED <<draft, mailboxId, saveError, pending, submit, writer, wire, known>>
        /\ payload' = payload /\ preview' = preview /\ owner' = owner
    BY <1>5 DEF ClickReload
  <2>. HIDE DEF op
  <2>. QED BY <1>1, <2>1, <2>2, <2>4, Free, EnqueueKeeps
<1>. QED BY <1>2, <1>3, <1>4, <1>5

\* send(): a flush through the lane, or the pinned submission once more.
LEMMA ClickSendKeeps ==
  ASSUME CInv, Served, Commit, ClickSend
  PROVE  EditorOK' /\ WriterSide'
<1>1. /\ busy = "none" /\ UNCHANGED <<draft, mailboxId, saveError, pending, writer, wire, known>>
      /\ payload' = payload /\ preview' = preview /\ owner' = Captured
      /\ mailboxId' = mailboxId /\ pending' = pending
  BY DEF ClickSend, sendEnabled
<1>2. CASE pending = None
  <2>. DEFINE op == [kind |-> "save", by |-> "send", input |-> Editing]
  <2>1. op \in Op /\ op.kind = "save" /\ op.by = "send" /\ op.input = Editing /\ op.input # None
    BY BodyFields, OpShape
  <2>2. Enqueue(op) /\ busy' = "flush" /\ submit' = submit
    BY <1>2 DEF ClickSend
  <2>. HIDE DEF op
  <2>. QED BY <1>1, <2>1, <2>2, BodyFields, EnqueueKeeps
<1>3. CASE pending # None
  <2>1. busy' = "submit" /\ submit' = pending /\ lane' = lane /\ saving' = saving
    BY <1>3 DEF ClickSend
  <2>2. OwnerOK' /\ owner' \in Owner
    BY <1>1, <2>1, OwnerCaptures DEF CInv
  <2>3. UITypes'
    BY <1>1, <2>1, <2>2, Parts DEF UITypes, CInv
  <2>4. SubmitOK'
    <3>1. PICK s \in Submission : s = pending
      BY <1>3, Parts DEF UITypes, CInv
    <3>2. Faithful(s)
      BY <1>3, <3>1 DEF CInv, SubmitOK
    <3>3. s.rev <= srv'[s.id].rev /\ (s.rev = srv'[s.id].rev => s.shown = InputOf(srv'[s.id]))
      BY <3>2, ServedParts, SubmissionsStay
    <3>. QED BY <1>1, <2>1, <3>1, <3>3 DEF SubmitOK, Faithful, VersionOf, InputOf
  <2>5. lane' \in Seq(Op) /\ LaneOK'
    <3>1. lane \in Seq(Op)
      BY DEF CInv, TypeOK
    <3>2. \A i \in DOMAIN lane : lane[i].by = "auto"
      BY <1>1 DEF CInv, LaneOK
    <3>. QED BY <1>1, <2>1, <3>1, <3>2 DEF CInv, LaneOK
  <2>6. AttachmentsFitSender'
    BY <1>1 DEF CInv, AttachmentsFitSender
  <2>7. WriterSide'
    BY <1>1, <2>1, SideUnchanged DEF draftWriter
  <2>. QED BY <2>2, <2>3, <2>4, <2>5, <2>6, <2>7 DEF EditorOK
<1>. QED BY <1>2, <1>3

\* The panel is up only over an empty lane.
LEMMA PanelIsQuiet ==
  ASSUME CInv, busy = "none", saveError # "none"
  PROVE  lane = <<>> /\ wire = Idle
<1>1. lane \in Seq(Op)
  BY DEF CInv, TypeOK
<1>2. \A i \in DOMAIN lane : FALSE
  BY DEF CInv, LaneOK
<1>3. lane = <<>>
  BY <1>1, <1>2
<1>. QED BY <1>3 DEF CInv, WireOK

\* "Keep as copy": a new writer with nothing behind it.
LEMMA ClickKeepKeeps ==
  ASSUME CInv, Served, Commit, ClickKeep
  PROVE  EditorOK' /\ WriterSide'
<1>. DEFINE copy == [id |-> writer.id + 1, rev |-> 0, box |-> mailboxId,
                     body |-> payload, usable |-> FALSE]
<1>1. /\ draft' = copy /\ writer' = NewWriter(copy.id, copy) /\ saveError' = "none"
      /\ known' = None /\ busy = "none" /\ saveError # "none" /\ writer.id < MaxDrafts
      /\ busy' = busy /\ owner' = owner /\ pending' = pending /\ submit' = submit
      /\ payload' = payload /\ mailboxId' = mailboxId /\ saving' = saving
      /\ preview' = preview /\ lane' = lane /\ wire' = wire
  BY DEF ClickKeep, panelReady, NotOperating
<1>2. writer.id + 1 \in Drafts
  BY <1>1, WriterFields, ComposeBounds DEF Drafts
<1>3. copy \in MailDraft
  BY <1>2, BodyFields, ComposeBounds DEF MailDraft
<1>4. copy.id = writer.id + 1 /\ copy.rev = 0
  OBVIOUS
<1>. HIDE DEF copy
<1>5. /\ writer' \in Writer /\ writer'.snap = copy /\ writer'.id = copy.id
      /\ writer'.pinned = None
  BY <1>1, <1>2, <1>3, <1>4 DEF NewWriter, Writer
<1>6. WriterOK' /\ known' \in Body \cup {None}
  BY <1>1, <1>4, <1>5 DEF WriterOK
<1>7. lane = <<>> /\ wire = Idle
  BY <1>1, PanelIsQuiet
<1>8. UITypes'
  BY <1>1, <1>3, Parts DEF UITypes, CInv
<1>9. SubmitOK'
  BY <1>1, RequestsStay
<1>10. OwnerOK'
  BY <1>1, Free, OwnerNone
<1>11. lane' \in Seq(Op) /\ LaneOK'
  BY <1>1, <1>7, Waits
<1>12. AttachmentsFitSender'
  BY <1>1 DEF CInv, AttachmentsFitSender
<1>13. EditorOK'
  BY <1>8, <1>9, <1>10, <1>11, <1>12 DEF EditorOK
<1>14. WireOK' /\ wire' \in Wire
  BY <1>1, <1>7, WireIdle
<1>. QED BY <1>5, <1>6, <1>13, <1>14, SideParts

\* An action that has nothing in the lane begins or ends.
LEMMA ActionKeeps ==
  ASSUME CInv, Served, Commit, busy \notin {"save", "reload", "flush"},
         UNCHANGED <<draft, mailboxId, saveError, saving, lane>>,
         payload' \in Body, payload'.atts \subseteq {mailboxId},
         preview' \in Input \cup {None},
         pending' \in {pending, None}, submit' = submit \/ submit' = None,
         submit' # None => busy' = "submit",
         \/ owner' = None /\ busy' = "none"
         \/ owner' = Captured /\ busy' \in {"upload", "preview"}
  PROVE  EditorOK'
<1>1. /\ draft' = draft /\ mailboxId' = mailboxId /\ saveError' = saveError
      /\ saving' = saving /\ lane' = lane
  OBVIOUS
<1>2. OwnerOK' /\ owner' \in Owner \cup {None} /\ busy' \in {"none", "upload", "preview"}
  <2>1. CASE owner' = None /\ busy' = "none"
    BY <2>1, OwnerNone
  <2>2. CASE owner' = Captured /\ busy' \in {"upload", "preview"}
    BY <1>1, <2>2, OwnerCaptures DEF CInv
  <2>. QED BY <2>1, <2>2
<1>3. UITypes'
  BY <1>1, <1>2, Parts DEF UITypes, CInv
<1>4. SubmitOK'
  <2>1. submit' = None
    BY <1>2
  <2>2. CASE pending' = None
    BY <2>1, <2>2 DEF SubmitOK
  <2>3. CASE pending' # None
    <3>1. PICK s \in Submission : s = pending /\ pending' = s
      BY <2>3, Parts DEF UITypes, CInv
    <3>2. Faithful(s)
      BY <2>3, <3>1 DEF CInv, SubmitOK
    <3>3. s.rev <= srv'[s.id].rev /\ (s.rev = srv'[s.id].rev => s.shown = InputOf(srv'[s.id]))
      BY <3>2, ServedParts, SubmissionsStay
    <3>. QED BY <2>1, <3>1, <3>3 DEF SubmitOK, Faithful, VersionOf, InputOf
  <2>. QED BY <2>2, <2>3
<1>5. lane' \in Seq(Op) /\ LaneOK'
  <2>1. lane \in Seq(Op)
    BY DEF CInv, TypeOK
  <2>2. \A i \in DOMAIN lane : lane[i].by = "auto"
    BY DEF CInv, LaneOK
  <2>. QED BY <1>1, <2>1, <2>2 DEF CInv, LaneOK
<1>6. AttachmentsFitSender'
  BY <1>1 DEF AttachmentsFitSender
<1>. QED BY <1>2, <1>3, <1>4, <1>5, <1>6 DEF EditorOK

LEMMA OperationsKeep ==
  ASSUME CInv, Served, Commit, ClickUpload \/ ClickPreview \/ UploadEnds \/ PreviewEnds
  PROVE  EditorOK' /\ WriterSide'
<1>1. preview \in Input \cup {None} /\ payload \in Body /\ payload.atts \subseteq {mailboxId}
  BY BodyFields, Parts DEF CInv, UITypes
<1>2. CASE ClickUpload \/ ClickPreview
  <2>1. /\ busy = "none" /\ busy' \in {"upload", "preview"} /\ owner' = Captured
        /\ UNCHANGED <<draft, mailboxId, saveError, saving, lane>>
        /\ UNCHANGED draftWriter
        /\ payload' = payload /\ preview' = preview /\ pending' = pending /\ submit' = submit
    BY <1>2 DEF ClickUpload, ClickPreview, locked, draftWriter
  <2>2. submit = None
    BY <2>1, Free
  <2>. QED BY <1>1, <2>1, <2>2, ActionKeeps, SideUnchanged
<1>3. CASE PreviewEnds
  <2>1. /\ busy = "preview" /\ busy' = "none" /\ owner' = None
        /\ UNCHANGED <<draft, mailboxId, saveError, saving, lane>>
        /\ UNCHANGED draftWriter
        /\ payload' = payload /\ pending' = pending /\ submit' = submit
        /\ preview' = IF ownsSender /\ assertSendAllowed THEN owner.shown ELSE preview
    BY <1>3 DEF PreviewEnds, ActionEnds, draftWriter
  <2>2. submit = None /\ owner # None
    BY <2>1 DEF CInv, SubmitOK, OwnerOK
  <2>3. owner.shown \in Input
    BY <2>2, Parts DEF CInv, UITypes, Owner
  <2>4. preview' \in Input \cup {None}
    BY <1>1, <2>1, <2>3
  <2>. QED BY <1>1, <2>1, <2>2, <2>4, ActionKeeps, SideUnchanged
<1>4. CASE UploadEnds
  <2>1. /\ busy = "upload" /\ busy' = "none" /\ owner' = None
        /\ UNCHANGED <<draft, mailboxId, saveError, saving, lane>>
        /\ UNCHANGED draftWriter
        /\ pending' = pending /\ submit' = submit
    BY <1>4 DEF UploadEnds, ActionEnds, draftWriter
  <2>2. submit = None /\ owner # None
    BY <2>1 DEF CInv, SubmitOK, OwnerOK
  <2>3. CASE payload' = payload /\ preview' = preview
    BY <1>1, <2>1, <2>2, <2>3, ActionKeeps, SideUnchanged
  <2>4. CASE /\ ownsSender /\ preview' = None
             /\ payload' = [payload EXCEPT !.atts = owner.shown.body.atts \cup {owner.shown.box}]
    <3>1. owner.shown \in Input
      BY <2>2, Parts DEF CInv, UITypes, Owner
    <3>2. owner.shown.box = mailboxId /\ owner.shown.body.atts \subseteq {owner.shown.box}
      BY <2>2, <2>4 DEF ownsSender, CInv, OwnerOK
    <3>3. owner.shown.body.atts \cup {owner.shown.box} = {mailboxId}
      BY <3>2
    <3>4. payload' \in Body /\ payload'.atts = {mailboxId}
      BY <1>1, <2>4, <3>3, BodyFields DEF Body
    <3>. QED BY <2>1, <2>2, <2>4, <3>4, ActionKeeps, SideUnchanged
  <2>. QED BY <1>4, <2>3, <2>4 DEF UploadEnds
<1>. QED BY <1>2, <1>3, <1>4

\* Closing or leaving the page, and what happens around the editor.
LEMMA OutsideKeeps ==
  ASSUME CInv, Served, Commit,
         \/ Close \/ Unmount
         \/ StrayArrives \/ OtherTab \/ RightsChange \/ Revalidate \/ SessionChanges
  PROVE  EditorOK' /\ WriterSide'
<1>1. CASE Close
  <2>1. /\ writer' = [writer EXCEPT !.closed = TRUE] /\ lane' = lane /\ wire' = wire
        /\ known' = known /\ UNCHANGED <<lane, ui>>
    BY <1>1 DEF Close
  <2>2. /\ writer' \in Writer /\ writer'.id = writer.id /\ writer'.snap = writer.snap
        /\ writer'.pinned = writer.pinned
    BY <2>1, WriterFields DEF Writer
  <2>3. lane \in Seq(Op)
    BY DEF CInv, TypeOK
  <2>. QED BY <2>1, <2>2, <2>3, SideStays, UnchangedKeeps
<1>2. CASE Unmount \/ StrayArrives \/ OtherTab \/ RightsChange \/ Revalidate \/ SessionChanges
  <2>1. UNCHANGED <<lane, ui>> /\ UNCHANGED draftWriter
    BY <1>2 DEF Unmount, StrayArrives, OtherTab, RightsChange, Revalidate, SessionChanges,
                draftWriter
  <2>. QED BY <2>1, SideUnchanged, UnchangedKeeps
<1>. QED BY <1>1, <1>2

LEMMA SubmissionKeeps ==
  ASSUME CInv, Served, Commit, SubmitAnswered \/ SubmitLost
  PROVE  EditorOK' /\ WriterSide'
<1>1. /\ submit # None /\ submit' = None /\ busy' = "none" /\ owner' = None
      /\ UNCHANGED <<draft, mailboxId, saveError, saving, lane>>
      /\ payload' = payload /\ preview' = preview /\ pending' \in {pending, None}
      /\ lane' = lane /\ wire' = wire /\ known' = known
      /\ writer' = writer \/ writer' = [writer EXCEPT !.closed = TRUE]
  BY DEF SubmitAnswered, SubmitLost, ActionEnds, draftWriter
<1>2. busy = "submit"
  BY <1>1 DEF CInv, SubmitOK
<1>3. preview \in Input \cup {None} /\ payload \in Body /\ payload.atts \subseteq {mailboxId}
  BY BodyFields, Parts DEF CInv, UITypes
<1>4. EditorOK'
  BY <1>1, <1>2, <1>3, ActionKeeps
<1>5. /\ writer' \in Writer /\ writer'.id = writer.id /\ writer'.snap = writer.snap
      /\ writer'.pinned = writer.pinned
  BY <1>1, WriterFields DEF Writer
<1>6. lane' \in Seq(Op)
  BY <1>1 DEF CInv, TypeOK
<1>. QED BY <1>1, <1>4, <1>5, <1>6, SideStays

-----------------------------------------------------------------------------
(* What is around the editor, and the requests still on their way.         *)

LEMMA StraysKeep ==
  ASSUME CInv, Served, Step
  PROVE  /\ stray' \subseteq [kind : {"save"}, msg : Command] \cup
                             [kind : {"submit"}, msg : Submission]
         /\ StrayOK'
<1>. DEFINE Request == [kind : {"save"}, msg : Command] \cup [kind : {"submit"}, msg : Submission]
<1>1. stray \subseteq Request
  BY DEF CInv, TypeOK
<1>2. ASSUME NEW m \in Request,
             IF m.kind = "save" THEN Based(m.msg) ELSE Faithful(m.msg)
      PROVE  IF m.kind = "save"
             THEN m.msg.rev > 0 => /\ m.msg.rev <= srv'[m.msg.id].rev
                                   /\ m.msg.rev = srv'[m.msg.id].rev
                                      => m.msg.base = srv'[m.msg.id].body
             ELSE /\ m.msg.rev <= srv'[m.msg.id].rev
                  /\ m.msg.rev = srv'[m.msg.id].rev => m.msg.shown = InputOf(srv'[m.msg.id])
  <2>1. CASE m.kind = "save"
    BY <1>2, <2>1, CommandStays
  <2>2. CASE m.kind # "save"
    BY <1>2, <2>2, ServedParts, SubmissionsStay
  <2>. QED BY <2>1, <2>2
<1>3. ASSUME NEW m \in stray'
      PROVE  m \in Request /\ IF m.kind = "save" THEN Based(m.msg) ELSE Faithful(m.msg)
  <2>1. CASE m \in stray
    BY <1>1, <2>1 DEF CInv, StrayOK
  <2>2. CASE WriteLost /\ m \notin stray
    <3>1. m = [kind |-> "save", msg |-> wire.cmd]
      BY <1>3, <2>2 DEF WriteLost
    <3>2. wire.cmd \in Command /\ Based(wire.cmd)
      BY <2>2, WireFields DEF WriteLost
    <3>. QED BY <3>1, <3>2
  <2>3. CASE SubmitLost /\ m \notin stray
    <3>1. m = [kind |-> "submit", msg |-> submit]
      BY <1>3, <2>3 DEF SubmitLost
    <3>2. submit \in Submission /\ Faithful(submit)
      BY <2>3 DEF SubmitLost, CInv, TypeOK, SubmitOK
    <3>. QED BY <3>1, <3>2
  <2>4. CASE ~WriteLost /\ ~SubmitLost
    <3>1. CASE UserStep
      <4>1. ASSUME NEW t \in Texts, Type(t) PROVE stray' = stray
        BY <4>1 DEF Type, quiet
      <4>2. ASSUME NEW b \in Boxes, SelectMailbox(b) PROVE stray' = stray
        BY <4>2 DEF SelectMailbox, quiet
      <4>3. CASE PickTemplate \/ RemoveAttachment \/ ClickSave \/ Unpin \/ ClickSend
        BY <2>1, <4>3 DEF PickTemplate, RemoveAttachment, ClickSave, Unpin, ClickSend, quiet
      <4>4. CASE ClickReload \/ ClickKeep \/ ClickUpload \/ ClickPreview \/ Close \/ Unmount
        BY <2>1, <4>4 DEF ClickReload, ClickKeep, ClickUpload, ClickPreview, Close, Unmount, quiet
      <4>. QED BY <2>1, <3>1, <4>1, <4>2, <4>3, <4>4 DEF UserStep
    <3>2. CASE EditorStep
      BY <2>1, <3>2 DEF EditorStep, Autosave, LaneStart, quiet
    <3>3. CASE NetworkStep
      BY <2>1, <2>4, <3>3 DEF NetworkStep, WriteAnswered, WriteTurnedAway, Readback,
         ReloadAnswered, UploadEnds, PreviewEnds, SubmitAnswered, quiet
    <3>4. CASE WorldStep
      BY <2>1, <3>4 DEF WorldStep, StrayArrives, OtherTab, RightsChange, Revalidate, SessionChanges
    <3>. QED BY <3>1, <3>2, <3>3, <3>4 DEF Step
  <2>. QED BY <2>1, <2>2, <2>3, <2>4
<1>4. stray' \subseteq Request
  BY <1>3
<1>5. StrayOK'
  BY <1>2, <1>3 DEF StrayOK, Based, Faithful, VersionOf, InputOf
<1>. QED BY <1>4, <1>5

LEMMA SurroundingsKeep ==
  ASSUME CInv, Step
  PROVE  /\ grant' \in [Boxes -> BOOLEAN] /\ view' \in [Boxes -> BOOLEAN]
         /\ tmplOk' \in BOOLEAN /\ listed' \in BOOLEAN /\ mounted' \in BOOLEAN
         /\ session' \in BOOLEAN
<1>1. WorldTypes
  BY Parts DEF CInv
<1>2. ASSUME UNCHANGED <<rights, props, session>>, mounted' = mounted \/ mounted' = FALSE
      PROVE  /\ grant' \in [Boxes -> BOOLEAN] /\ view' \in [Boxes -> BOOLEAN]
             /\ tmplOk' \in BOOLEAN /\ listed' \in BOOLEAN /\ mounted' \in BOOLEAN
             /\ session' \in BOOLEAN
  BY <1>1, <1>2 DEF WorldTypes, rights, props
<1>3. ASSUME NEW t \in Texts, Type(t)
      PROVE  UNCHANGED <<rights, props, session>> /\ mounted' = mounted
  BY <1>3 DEF Type, quiet
<1>4. ASSUME NEW b \in Boxes, SelectMailbox(b)
      PROVE  UNCHANGED <<rights, props, session>> /\ mounted' = mounted
  BY <1>4 DEF SelectMailbox, quiet
<1>5. CASE PickTemplate \/ RemoveAttachment \/ ClickSave \/ Unpin \/ ClickSend
  BY <1>2, <1>5 DEF PickTemplate, RemoveAttachment, ClickSave, Unpin, ClickSend, quiet
<1>6. CASE ClickReload \/ ClickKeep \/ ClickUpload \/ ClickPreview \/ Close \/ Unmount
  BY <1>2, <1>6 DEF ClickReload, ClickKeep, ClickUpload, ClickPreview, Close, Unmount, quiet
<1>7. CASE EditorStep
  BY <1>2, <1>7 DEF EditorStep, Autosave, LaneStart, quiet
<1>8. CASE NetworkStep
  BY <1>2, <1>8 DEF NetworkStep, WriteAnswered, WriteTurnedAway, WriteLost, Readback,
     ReloadAnswered, UploadEnds, PreviewEnds, SubmitAnswered, SubmitLost, quiet
<1>9. CASE StrayArrives \/ OtherTab
  BY <1>2, <1>9 DEF StrayArrives, OtherTab
<1>10. CASE RightsChange \/ Revalidate \/ SessionChanges
  <2>1. CASE RightsChange
    <3>1. grant' \in [Boxes -> BOOLEAN] /\ tmplOk' \in BOOLEAN
      BY <1>1, <2>1 DEF RightsChange, WorldTypes
    <3>2. view' = view /\ listed' = listed /\ mounted' = mounted /\ session' = session
      BY <2>1 DEF RightsChange, props
    <3>. QED BY <1>1, <3>1, <3>2 DEF WorldTypes
  <2>2. CASE Revalidate \/ SessionChanges
    BY <1>1, <2>2 DEF Revalidate, SessionChanges, WorldTypes, rights, props
  <2>. QED BY <1>10, <2>1, <2>2
<1>11. CASE UserStep
  BY <1>2, <1>3, <1>4, <1>5, <1>6, <1>11 DEF UserStep
<1>. QED BY <1>7, <1>8, <1>9, <1>10, <1>11 DEF Step, WorldStep

\* One step per action: the parts of the invariant about editor and writer.
LEMMA StepKeeps ==
  ASSUME CInv, Served, Commit, Step
  PROVE  EditorOK' /\ WriterSide'
<1>1. CASE UserStep
  BY <1>1, EditsKeep, QueueingKeeps, ClickSendKeeps, ClickKeepKeeps, OperationsKeep, OutsideKeeps
  DEF UserStep
<1>2. CASE EditorStep
  BY <1>2, QueueingKeeps, LaneStartKeeps DEF EditorStep
<1>3. CASE NetworkStep
  BY <1>3, WriteAnsweredKeeps, WriteTurnedAwayKeeps, WriteLostKeeps, ReadbackKeeps,
     ReloadAnsweredKeeps, OperationsKeep, SubmissionKeeps DEF NetworkStep
<1>4. CASE WorldStep
  BY <1>4, OutsideKeeps DEF WorldStep
<1>. QED BY <1>1, <1>2, <1>3, <1>4 DEF Step

LEMMA NextKeeps ==
  ASSUME CInv, Next
  PROVE  CInv' /\ Served
<1>1. Step /\ Commit
  BY DEF Next, Step
<1>2. Served
  BY <1>1, StepServed
<1>3. EditorOK' /\ WriterSide'
  BY <1>1, <1>2, StepKeeps
<1>4. /\ stray' \subseteq [kind : {"save"}, msg : Command] \cup [kind : {"submit"}, msg : Submission]
      /\ StrayOK'
  BY <1>1, <1>2, StraysKeep
<1>5. /\ gen' \in [permission : Nat, sender : Nat] /\ autosave' \in {"off", "armed", "fired"}
      /\ withdrawn' \in [send : BOOLEAN, sender : BOOLEAN] /\ TimerOK'
  BY <1>1, CommitKeeps DEF CInv
<1>6. /\ grant' \in [Boxes -> BOOLEAN] /\ view' \in [Boxes -> BOOLEAN]
      /\ tmplOk' \in BOOLEAN /\ listed' \in BOOLEAN /\ mounted' \in BOOLEAN
      /\ session' \in BOOLEAN
  BY <1>1, SurroundingsKeep
<1>7. ServerTypes' /\ ServerOK'
  BY <1>2 DEF Served
<1>8. TypeOK'
  BY <1>3, <1>4, <1>5, <1>6, <1>7
  DEF TypeOK, EditorOK, WriterSide, UITypes, WriterTypes, ServerTypes
<1>. QED BY <1>2, <1>3, <1>4, <1>5, <1>7, <1>8 DEF CInv, EditorOK, WriterSide

LEMMA StutterKeeps ==
  ASSUME CInv, UNCHANGED vars
  PROVE  CInv'
<1>1. /\ UNCHANGED <<srv, receipts, jobs, grant, tmplOk, stray, view, listed, mounted, session>>
      /\ UNCHANGED <<draft, payload, mailboxId, saveError, saving, pending, busy, preview, owner, submit>>
      /\ UNCHANGED <<gen, withdrawn, autosave, writer, lane, wire, known>>
  BY DEF vars, server, rights, props, ui, draftWriter
<1>2. TypeOK'
  BY <1>1 DEF CInv, TypeOK
<1>3. ServerOK'
  BY <1>1 DEF CInv, ServerOK, OneJobPerDraft, JobIsWhatWasShown
<1>4. SubmitOK' /\ StrayOK'
  BY <1>1 DEF CInv, SubmitOK, StrayOK, Faithful, Based, VersionOf, InputOf
<1>5. WriterOK' /\ WireOK'
  BY <1>1 DEF CInv, WriterOK, WireOK, Based, VersionOf, InputOf, Idle
<1>6. LaneOK' /\ OwnerOK' /\ AttachmentsFitSender'
  BY <1>1 DEF CInv, LaneOK, OwnerOK, AttachmentsFitSender
<1>7. TimerOK'
  BY <1>1 DEF CInv, TimerOK, autosaveWanted, dirty, Editing, InputOf, senderAllowed
<1>. QED BY <1>2, <1>3, <1>4, <1>5, <1>6, <1>7 DEF CInv

LEMMA BlankBody == Blank \in Body /\ Blank.atts = {}
<1>1. (CHOOSE t \in Texts : TRUE) \in Texts
  BY ComposeBounds
<1>. QED BY <1>1 DEF Blank, Body

LEMMA InitKeeps ==
  ASSUME Init
  PROVE  CInv
<1>1. PICK stored \in BOOLEAN, b \in Boxes \ TemplateOnly :
    LET v == [id |-> 1, rev |-> IF stored THEN 1 ELSE 0, box |-> b,
              body |-> Blank, usable |-> TRUE] IN
    /\ srv = [d \in Drafts |->
               IF stored /\ d = 1
               THEN [NoDraft(d) EXCEPT !.state = "live", !.rev = 1, !.box = b]
               ELSE NoDraft(d)]
    /\ receipts = [d \in Drafts |->
                    IF stored /\ d = 1 THEN InputOf(v) ELSE None]
    /\ jobs = <<>> /\ stray = {}
    /\ grant = [x \in Boxes |-> TRUE] /\ tmplOk = TRUE
    /\ view = grant /\ listed = TRUE
    /\ mounted = TRUE /\ session = TRUE
    /\ draft = v /\ payload = v.body /\ mailboxId = b
    /\ saveError = "none" /\ saving = FALSE /\ pending = None
    /\ busy = "none" /\ preview = None /\ owner = None /\ submit = None
    /\ gen = NoMoves /\ withdrawn = Nothing /\ autosave = "off"
    /\ writer = NewWriter(1, v) /\ lane = <<>> /\ wire = Idle
    /\ known = IF stored THEN Blank ELSE None
  BY DEF Init
<1>. DEFINE r == IF stored THEN 1 ELSE 0
            v == [id |-> 1, rev |-> r, box |-> b, body |-> Blank, usable |-> TRUE]
<1>2. 1 \in Drafts /\ r \in 0 .. MaxRev /\ 1 \in 0 .. MaxRev /\ 0 \in 0 .. MaxRev
  BY ComposeBounds DEF Drafts
<1>3. v \in MailDraft
  BY <1>2, BlankBody DEF MailDraft
<1>4. v.id = 1 /\ v.rev = r /\ v.box = b /\ v.body = Blank /\ InputOf(v) = [box |-> b, body |-> Blank]
  BY DEF InputOf
<1>5. InputOf(v) \in Input
  BY <1>3, DraftFields
<1>6. ASSUME NEW d \in Drafts
      PROVE  /\ NoDraft(d) \in StoredDraft
             /\ [NoDraft(d) EXCEPT !.state = "live", !.rev = 1, !.box = b] \in StoredDraft
  <2>1. (CHOOSE x \in Boxes : TRUE) \in Boxes
    BY <1>1
  <2>. QED BY <1>1, <1>2, <2>1, BlankBody DEF NoDraft, StoredDraft
<1>7. ServerTypes
  <2>1. srv \in [Drafts -> StoredDraft]
    BY <1>1, <1>6
  <2>2. receipts = [d \in Drafts |-> IF stored /\ d = 1 THEN InputOf(v) ELSE None] /\ jobs = <<>>
    BY <1>1
  <2>. HIDE DEF v
  <2>3. receipts \in [Drafts -> Input \cup {None}] /\ jobs \in Seq(Job)
    BY <1>5, <2>2
  <2>. QED BY <2>1, <2>3 DEF ServerTypes
<1>8. /\ jobs = <<>> /\ stray = {} /\ grant = [x \in Boxes |-> TRUE] /\ tmplOk = TRUE
      /\ view = [x \in Boxes |-> TRUE] /\ listed = TRUE /\ mounted = TRUE /\ session = TRUE
      /\ saveError = "none" /\ saving = FALSE /\ pending = None /\ busy = "none"
      /\ preview = None /\ owner = None /\ submit = None /\ gen = NoMoves
      /\ withdrawn = Nothing /\ autosave = "off"
      /\ lane = <<>> /\ wire = Idle /\ mailboxId = b /\ b \in Boxes
  BY <1>1
<1>9. /\ draft = v /\ payload = Blank /\ writer = NewWriter(1, v)
      /\ known = IF stored THEN Blank ELSE None
  BY <1>1
<1>10. ASSUME NEW d \in Drafts
       PROVE  /\ stored /\ d = 1 => /\ srv[d].rev = 1 /\ srv[d].body = Blank /\ srv[d].box = b
                                    /\ srv[d].state = "live" /\ receipts[d] = InputOf(v)
              /\ ~(stored /\ d = 1) => /\ srv[d].rev = 0 /\ srv[d].body = Blank
                                       /\ srv[d].state = "none"
  <2>1. CASE stored /\ d = 1
    <3>1. srv[d] = [NoDraft(d) EXCEPT !.state = "live", !.rev = 1, !.box = b]
          /\ receipts[d] = InputOf(v)
      BY <1>1, <2>1
    <3>. QED BY <2>1, <3>1 DEF NoDraft
  <2>2. CASE ~(stored /\ d = 1)
    <3>1. srv[d] = NoDraft(d)
      BY <1>1, <2>2
    <3>. QED BY <2>2, <3>1 DEF NoDraft
  <2>. QED BY <2>1, <2>2
<1>11. r = IF stored THEN 1 ELSE 0
  OBVIOUS
<1>. HIDE DEF r, v
<1>12. ServerOK
  <2>1. ASSUME NEW d \in Drafts
        PROVE  /\ srv[d].state = "none" => srv[d].rev = 0
               /\ srv[d].state # "none" => srv[d].rev > 0 /\ receipts[d] # None
               /\ srv[d].body.atts \subseteq {srv[d].box}
    <3>1. CASE stored /\ d = 1
      BY <1>5, <1>10, <3>1, BlankBody, NotNone
    <3>2. CASE ~(stored /\ d = 1)
      BY <1>10, <3>2, BlankBody
    <3>. QED BY <3>1, <3>2
  <2>. QED BY <1>8, <2>1 DEF ServerOK, OneJobPerDraft, JobIsWhatWasShown
<1>13. writer \in Writer /\ writer.id = 1 /\ writer.snap = v /\ writer.pinned = None
  BY <1>2, <1>3, <1>9 DEF NewWriter, Writer
<1>14. WriterTypes
  <2>1. Idle \in Wire
    BY DEF Idle, Wire
  <2>. QED BY <1>8, <1>9, <1>13, <2>1, BlankBody DEF WriterTypes
<1>15. UITypes
  BY <1>3, <1>8, <1>9, BlankBody DEF UITypes
<1>16. TypeOK
  <2>1. gen \in [permission : Nat, sender : Nat] /\ withdrawn \in [send : BOOLEAN, sender : BOOLEAN]
    BY <1>8 DEF NoMoves, Nothing
  <2>. QED BY <1>7, <1>8, <1>14, <1>15, <2>1 DEF TypeOK, ServerTypes, WriterTypes, UITypes
<1>17. WriterOK
  <2>1. CASE stored
    <3>1. InputOf(srv[1]) = InputOf(v)
      BY <1>2, <1>4, <1>10, <2>1 DEF InputOf
    <3>. QED BY <1>2, <1>4, <1>9, <1>10, <1>11, <1>13, <2>1, <3>1 DEF WriterOK, VersionOf
  <2>2. CASE ~stored
    BY <1>4, <1>11, <1>13, <2>2 DEF WriterOK
  <2>. QED BY <2>1, <2>2
<1>18. SubmitOK /\ StrayOK /\ LaneOK /\ TimerOK /\ OwnerOK
  BY <1>8 DEF SubmitOK, StrayOK, LaneOK, TimerOK, OwnerOK
<1>19. WireOK /\ AttachmentsFitSender
  BY <1>8, <1>9, BlankBody DEF WireOK, Idle, AttachmentsFitSender
<1>. QED BY <1>12, <1>16, <1>17, <1>18, <1>19 DEF CInv

-----------------------------------------------------------------------------
(* The theorems.                                                           *)

\* Every command, submission and queued operation of the editor keeps its tie to
\* the version and the click it was made for.
THEOREM ComposeInvariant == Spec => []CInv
<1>1. Init => CInv
  BY InitKeeps
<1>2. CInv /\ [Next]_vars => CInv'
  BY NextKeeps, StutterKeeps
<1>. QED BY <1>1, <1>2, PTL DEF Spec

\* Every variable keeps its type.
THEOREM ComposeTypes == Spec => []TypeOK
<1>1. CInv => TypeOK
  BY DEF CInv
<1>. QED BY <1>1, ComposeInvariant, PTL

\* What is submitted from the editor is what was on the screen at the click on
\* "Send", whatever autosaves, retries, late requests and other tabs do meanwhile.
THEOREM SentAsShown == Spec => []JobIsWhatWasShown
<1>1. CInv => JobIsWhatWasShown
  BY DEF CInv, ServerOK
<1>. QED BY <1>1, ComposeInvariant, PTL

\* However often a submission is retried, delayed or repeated elsewhere, a draft
\* yields one job.
THEOREM SentOnce == Spec => []OneJobPerDraft
<1>1. CInv => OneJobPerDraft
  BY DEF CInv, ServerOK
<1>. QED BY <1>1, ComposeInvariant, PTL

\* The attachments on the screen were uploaded for the selected sender, even when an
\* upload ends after the sender was changed or the draft was reloaded.
THEOREM FilesFitSender == Spec => []AttachmentsFitSender
<1>1. CInv => AttachmentsFitSender
  BY DEF CInv
<1>. QED BY <1>1, ComposeInvariant, PTL

\* A save replaces content only if this editor wrote or loaded that content.
THEOREM NoBlindOverwrite == Spec => OverwritesOnlyWhatItSaw
<1>1. CInv /\ [Next]_vars =>
        [\A d \in Drafts :
           (srv'[d] # srv[d] /\ srv'[d].by = "editor" /\ srv'[d].state = "live"
            /\ srv'[d].rev > 1)
           => srv'[d].base = srv[d].body]_srv
  <2>1. CASE CInv /\ Next
    BY <2>1, NextKeeps DEF Served, Seen
  <2>2. CASE UNCHANGED vars
    BY <2>2 DEF vars, server
  <2>. QED BY <2>1, <2>2
<1>. QED BY <1>1, ComposeInvariant, PTL DEF Spec, OverwritesOnlyWhatItSaw

-----------------------------------------------------------------------------
(* What was withdrawn since a click, and what the click still does.        *)

\* The generations a click captured are the present ones only while nothing was
\* withdrawn: a restored right does not bring back the click that lost it.  An upload
\* needs the sender alone.
OwnershipOK ==
  /\ owner = None => withdrawn = Nothing
  /\ owner # None =>
       /\ owner.permission <= gen.permission
       /\ owner.sender = gen.sender => ~withdrawn.sender
       /\ ~withdrawn.sender => senderAllowed
       /\ busy # "upload" => /\ owner.permission = gen.permission => ~withdrawn.send
                             /\ ~withdrawn.send => sendAllowed

\* What a step does to the operation under way ...
OwnerEffect ==
  \/ owner' = None
  \/ owner' = owner /\ (busy' = busy \/ busy # "upload")
  \/ owner = None /\ owner' = Captured /\ senderAllowed /\ (busy' # "upload" => sendAllowed)

\* ... and what it may let out.
Result ==
  /\ \/ submit' \in {submit, None}
     \/ owner # None /\ busy # "upload" /\ assertSendAllowed
     \/ owner = None /\ sendAllowed
  /\ \/ preview' \in {preview, None}
     \/ owner # None /\ busy # "upload" /\ assertSendAllowed
  /\ busy = "upload" => payload'.atts = payload.atts \/ (owner # None /\ ownsSender)

LEMMA FailEffect ==
  ASSUME NEW e, OpFails(e)
  PROVE  OwnerEffect /\ Result
<1>1. /\ submit' = submit /\ preview' = preview /\ payload' = payload
      /\ (owner' = owner /\ busy' = busy) \/ owner' = None
  BY DEF OpFails, Rejected, ActionEnds
<1>. QED BY <1>1 DEF OwnerEffect, Result

LEMMA DoneEffect ==
  ASSUME CInv, lane # <<>>, NEW v, OpDone(v)
  PROVE  OwnerEffect /\ Result
<1>1. Head(lane) = lane[1] /\ (lane[1].by = "send" => owner # None /\ busy = "flush")
  BY HeadFacts
<1>2. preview' = preview /\ payload' = payload
  BY DEF OpDone, Resolved
<1>3. CASE lane[1].by = "auto"
  BY <1>1, <1>2, <1>3 DEF OpDone, Resolved, OwnerEffect, Result
<1>4. CASE lane[1].by # "auto" /\ lane[1].by = "send" /\ assertSendAllowed
  <2>1. owner' = owner
    BY <1>1, <1>4 DEF OpDone, Resolved
  <2>. QED BY <1>1, <1>2, <1>4, <2>1 DEF OwnerEffect, Result
<1>5. CASE lane[1].by # "auto" /\ ~(lane[1].by = "send" /\ assertSendAllowed)
  <2>1. submit' = submit /\ owner' = None
    BY <1>1, <1>5 DEF OpDone, Resolved, ActionEnds
  <2>. QED BY <1>2, <2>1 DEF OwnerEffect, Result
<1>. QED BY <1>3, <1>4, <1>5

LEMMA QuietEffect ==
  ASSUME owner' = owner, busy' = busy \/ busy # "upload", submit' = submit,
         preview' = preview \/ preview' = None,
         busy = "upload" => payload'.atts = payload.atts
  PROVE  OwnerEffect /\ Result
BY DEF OwnerEffect, Result

LEMMA OwnWriteEffect ==
  ASSUME CInv, lane # <<>>, NEW v, NEW c, OwnWrite(v, c)
  PROVE  OwnerEffect /\ Result
<1>1. OpDone(v) \/ OpFails("retry") \/ UNCHANGED <<lane, ui>>
  BY DEF OwnWrite
<1>. QED BY <1>1, DoneEffect, FailEffect, QuietEffect DEF ui

LEMMA AcknowledgeEffect ==
  ASSUME CInv, lane # <<>>, NEW v, Acknowledge(v)
  PROVE  OwnerEffect /\ Result
<1>1. OpDone(v) \/ OwnWrite(v, wire.cmd.body)
  BY DEF Acknowledge
<1>. QED BY <1>1, DoneEffect, OwnWriteEffect

LEMMA RefusedEffect ==
  ASSUME NEW code, WriteRefused(code)
  PROVE  OwnerEffect /\ Result
<1>1. UNCHANGED ui \/ \E e : OpFails(e)
  BY DEF WriteRefused
<1>. QED BY <1>1, FailEffect, QuietEffect DEF ui

\* The user cannot edit, and clicks nothing else, while an operation is under way.
LEMMA UserEffect ==
  ASSUME CInv, UserStep
  PROVE  OwnerEffect /\ Result
<1>1. ASSUME NEW t \in Texts, Type(t) PROVE OwnerEffect /\ Result
  <2>1. busy # "upload"
    BY <1>1 DEF Type, CanEditRecipients, CanEditVars, CanEditText, locked
  <2>. QED BY <1>1, <2>1, QuietEffect DEF Type, NotOperating, change
<1>2. ASSUME NEW b \in Boxes, SelectMailbox(b) PROVE OwnerEffect /\ Result
  BY <1>2, QuietEffect DEF SelectMailbox, NotOperating, change, locked
<1>3. CASE PickTemplate \/ RemoveAttachment
  BY <1>3, QuietEffect DEF PickTemplate, RemoveAttachment, NotOperating, change, locked
<1>4. CASE ClickSave
  BY <1>4, QuietEffect DEF ClickSave
<1>5. CASE Unpin
  BY <1>5, QuietEffect DEF Unpin, locked
<1>6. CASE ClickReload \/ ClickKeep
  BY <1>6, QuietEffect DEF ClickReload, ClickKeep, NotOperating, panelReady
<1>7. CASE ClickSend
  <2>1. /\ owner' = Captured /\ owner = None /\ preview' = preview /\ payload' = payload
        /\ busy = "none"
    BY <1>7, Free DEF ClickSend, sendEnabled
  <2>2. senderAllowed /\ sendAllowed
    BY <1>7 DEF ClickSend, sendEnabled, sendAllowed
  <2>. QED BY <2>1, <2>2 DEF OwnerEffect, Result
<1>8. CASE ClickUpload \/ ClickPreview
  <2>1. /\ owner' = Captured /\ owner = None /\ preview' = preview /\ payload' = payload
        /\ submit' = submit /\ senderAllowed
        /\ busy' # "upload" => sendAllowed
    BY <1>8, Free DEF ClickUpload, ClickPreview, locked, sendAllowed
  <2>. QED BY <2>1 DEF OwnerEffect, Result
<1>9. CASE Close \/ Unmount
  BY <1>9, QuietEffect DEF Close, Unmount, ui
<1>. QED BY <1>1, <1>2, <1>3, <1>4, <1>5, <1>6, <1>7, <1>8, <1>9 DEF UserStep

LEMMA StepEffect ==
  ASSUME CInv, Step
  PROVE  OwnerEffect /\ Result
<1>1. wire.pc # "idle" => lane # <<>>
  BY DEF CInv, WireOK
<1>2. CASE Autosave
  BY <1>2, QuietEffect DEF Autosave, NotOperating
<1>3. CASE LaneStart
  <2>1. lane # <<>> /\ (\/ \E e : OpFails(e)
                        \/ UNCHANGED ui
                        \/ OwnWrite(writer.snap, known))
    BY <1>3 DEF LaneStart
  <2>. QED BY <2>1, FailEffect, OwnWriteEffect, QuietEffect DEF ui
<1>4. CASE WriteAnswered
  <2>1. \/ OpFails("retry")
        \/ Acknowledge(SaveAnswer(wire.cmd).value)
        \/ WriteRefused(SaveAnswer(wire.cmd).code)
    BY <1>4 DEF WriteAnswered
  <2>2. lane # <<>>
    BY <1>1, <1>4 DEF WriteAnswered
  <2>. QED BY <2>1, <2>2, FailEffect, AcknowledgeEffect, RefusedEffect
<1>5. CASE WriteTurnedAway
  <2>1. OpFails("retry") \/ \E code : WriteRefused(code)
    BY <1>5 DEF WriteTurnedAway
  <2>. QED BY <2>1, FailEffect, RefusedEffect
<1>6. CASE WriteLost
  <2>1. OpFails("retry") \/ UNCHANGED ui
    BY <1>6 DEF WriteLost
  <2>. QED BY <2>1, FailEffect, QuietEffect DEF ui
<1>7. CASE Readback
  <2>1. \/ OpFails("retry") \/ OpFails("latched")
        \/ \E v : Acknowledge(v)
    BY <1>7 DEF Readback
  <2>2. lane # <<>>
    BY <1>1, <1>7 DEF Readback
  <2>. QED BY <2>1, <2>2, FailEffect, AcknowledgeEffect
<1>8. CASE ReloadAnswered
  <2>1. OpFails("retry") \/ (submit' = submit /\ preview' = None /\ owner' = None)
    BY <1>8 DEF ReloadAnswered, ActionEnds
  <2>2. busy # "upload"
    <3>1. lane # <<>> /\ lane[1].kind = "reload"
      BY <1>1, <1>8 DEF ReloadAnswered, CInv, WireOK
    <3>. QED BY <3>1, HeadFacts
  <2>. QED BY <2>1, <2>2, FailEffect DEF OwnerEffect, Result
<1>9. CASE UploadEnds
  <2>1. owner # None /\ owner' = None /\ submit' = submit
    BY <1>9 DEF UploadEnds, ActionEnds, CInv, OwnerOK
  <2>2. preview' \in {preview, None} /\ (payload' = payload \/ ownsSender)
    BY <1>9 DEF UploadEnds
  <2>. QED BY <2>1, <2>2 DEF OwnerEffect, Result
<1>10. CASE PreviewEnds
  <2>1. owner # None /\ owner' = None /\ submit' = submit /\ payload' = payload /\ busy = "preview"
    BY <1>10 DEF PreviewEnds, ActionEnds, CInv, OwnerOK
  <2>2. preview' = preview \/ assertSendAllowed
    BY <1>10 DEF PreviewEnds
  <2>. QED BY <2>1, <2>2 DEF OwnerEffect, Result
<1>11. CASE SubmitAnswered \/ SubmitLost
  <2>1. /\ submit' = None /\ owner' = None /\ preview' = preview
        /\ payload' = payload
    BY <1>11 DEF SubmitAnswered, SubmitLost, ActionEnds
  <2>. QED BY <2>1 DEF OwnerEffect, Result
<1>12. CASE WorldStep
  BY <1>12, QuietEffect
  DEF WorldStep, StrayArrives, OtherTab, RightsChange, Revalidate, SessionChanges, ui
<1>. QED BY <1>2, <1>3, <1>4, <1>5, <1>6, <1>7, <1>8, <1>9, <1>10, <1>11, <1>12, UserEffect
     DEF Step, EditorStep, NetworkStep

\* The commit counts a move whenever it observes a withdrawal.
LEMMA OwnershipKeeps ==
  ASSUME CInv, OwnershipOK, Next
  PROVE  OwnershipOK'
<1>1. Commit /\ OwnerEffect /\ TypeOK /\ OwnerOK
  BY StepEffect DEF Next, Step, CInv
<1>2. CASE owner' = None
  BY <1>1, <1>2 DEF Commit, OwnershipOK
<1>3. CASE owner' # None
  <2>1. /\ withdrawn'.send <=> withdrawn.send \/ ~sendAllowed'
        /\ withdrawn'.sender <=> withdrawn.sender \/ ~senderAllowed'
        /\ gen'.permission = gen.permission + (IF sendRevoked THEN 1 ELSE 0)
        /\ gen'.sender = gen.sender + (IF senderMoved THEN 1 ELSE 0)
    BY <1>1, <1>3 DEF Commit
  <2>2. gen.permission \in Nat /\ gen.sender \in Nat
    BY <1>1 DEF TypeOK
  <2>3. CASE owner = None /\ owner' = Captured
    <3>1. owner'.permission = gen.permission /\ owner'.sender = gen.sender
      BY <2>3 DEF Captured
    <3>2. ~withdrawn.send /\ ~withdrawn.sender
      BY <2>3 DEF OwnershipOK, Nothing
    <3>3. senderAllowed /\ (busy' # "upload" => sendAllowed)
      BY <1>1, <1>3, <2>3 DEF OwnerEffect
    <3>4. withdrawn'.sender => senderMoved
      BY <2>1, <3>2, <3>3 DEF senderMoved
    <3>5. busy' # "upload" /\ withdrawn'.send => sendRevoked
      BY <2>1, <3>2, <3>3 DEF sendRevoked
    <3>. QED BY <1>3, <2>1, <2>2, <3>1, <3>4, <3>5 DEF OwnershipOK
  <2>4. CASE owner' = owner /\ (busy' = busy \/ busy # "upload")
    <3>1. /\ owner.permission <= gen.permission
          /\ owner.sender = gen.sender => ~withdrawn.sender
          /\ ~withdrawn.sender => senderAllowed
          /\ busy # "upload" => /\ owner.permission = gen.permission => ~withdrawn.send
                                /\ ~withdrawn.send => sendAllowed
          /\ owner.sender <= gen.sender
      BY <1>1, <1>3, <2>4 DEF OwnershipOK, OwnerOK
    <3>2. owner.permission \in Nat /\ owner.sender \in Nat
      BY <1>1, <1>3, <2>4 DEF TypeOK, Owner
    <3>3. withdrawn'.sender /\ ~withdrawn.sender => senderMoved
      BY <2>1, <3>1 DEF senderMoved
    <3>4. busy' # "upload" /\ withdrawn'.send /\ ~withdrawn.send => sendRevoked
      BY <2>1, <2>4, <3>1 DEF sendRevoked
    <3>5. owner'.sender = gen'.sender => ~withdrawn'.sender
      BY <2>1, <2>2, <2>4, <3>1, <3>2, <3>3
    <3>6. busy' # "upload" /\ owner'.permission = gen'.permission => ~withdrawn'.send
      BY <2>1, <2>2, <2>4, <3>1, <3>2, <3>4
    <3>7. owner'.permission <= gen'.permission
      BY <2>1, <2>2, <2>4, <3>1, <3>2
    <3>. QED BY <1>3, <2>1, <3>5, <3>6, <3>7 DEF OwnershipOK
  <2>. QED BY <1>1, <1>3, <2>3, <2>4 DEF OwnerEffect
<1>. QED BY <1>2, <1>3

LEMMA OwnershipStutters ==
  ASSUME OwnershipOK, UNCHANGED vars
  PROVE  OwnershipOK'
<1>1. /\ UNCHANGED <<view, listed, draft, payload, mailboxId, busy, owner, gen, withdrawn>>
  BY DEF vars, props, ui
<1>2. senderAllowed' = senderAllowed
  BY <1>1 DEF senderAllowed
<1>3. sendAllowed' = sendAllowed
  BY <1>1, <1>2 DEF sendAllowed, invalidVersion, version, resolvedPin
<1>. QED BY <1>1, <1>2, <1>3 DEF OwnershipOK

\* A submission or a preview comes out, and an uploaded file is added, only while the
\* right it needs was never withdrawn since the click, however it was restored.
THEOREM RevocationStops == Spec => NothingAfterRevocation
<1>1. Init => OwnershipOK
  <2>1. Init => owner = None /\ withdrawn = Nothing
    BY DEF Init
  <2>. QED BY <2>1 DEF OwnershipOK
<1>2. CInv /\ OwnershipOK /\ [Next]_vars => OwnershipOK'
  BY OwnershipKeeps, OwnershipStutters
<1>3. CInv /\ OwnershipOK /\ [Next]_vars =>
        [/\ (submit' # None /\ submit = None) \/ preview' \notin {None, preview}
               => sendAllowed /\ ~withdrawn.send
         /\ busy = "upload" /\ payload'.atts # payload.atts
               => senderAllowed /\ ~withdrawn.sender]_vars
  <2>1. SUFFICES ASSUME CInv, OwnershipOK, Next
                 PROVE  /\ (submit' # None /\ submit = None) \/ preview' \notin {None, preview}
                             => sendAllowed /\ ~withdrawn.send
                        /\ busy = "upload" /\ payload'.atts # payload.atts
                             => senderAllowed /\ ~withdrawn.sender
    OBVIOUS
  <2>2. Result
    BY <2>1, StepEffect DEF Next, Step
  <2>3. owner # None /\ busy # "upload" /\ assertSendAllowed => sendAllowed /\ ~withdrawn.send
    BY <2>1 DEF assertSendAllowed, OwnershipOK
  <2>4. owner = None => ~withdrawn.send
    BY <2>1 DEF OwnershipOK, Nothing
  <2>5. owner # None /\ ownsSender => senderAllowed /\ ~withdrawn.sender
    BY <2>1 DEF ownsSender, OwnershipOK
  <2>. QED BY <2>2, <2>3, <2>4, <2>5 DEF Result
<1>. QED BY <1>1, <1>2, <1>3, ComposeInvariant, PTL DEF Spec, NothingAfterRevocation
=============================================================================

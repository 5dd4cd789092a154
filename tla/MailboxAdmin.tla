---------------------------- MODULE MailboxAdmin ----------------------------
(***************************************************************************)
(* The administrator's mailbox page (features/company/mailbox-admin.tsx):  *)
(* one selected mailbox with three forms over it, the grant editor         *)
(* (components/company/grants.tsx), the lifecycle editor                   *)
(* (mailbox-lifecycle.tsx) and the send policy form (send-policy.tsx).  On *)
(* the server the three write one row under one revision                   *)
(* (claimMailboxRevision); on the page each has its own idea of the        *)
(* revision it was filled from.  A behaviour follows one of the forms: to  *)
(* it the other two, like other administrators, are writers of the row     *)
(* (Rival) and reasons for the list to be read again (Revalidate).         *)
(***************************************************************************)
EXTENDS PageAction

CONSTANT Rights \* the checkboxes of the grant editor

VARIABLES
  box,    \* server: the mailbox row, with one member's grant
  dflt,   \* server: the company's default send policy
  boxes,  \* the selected mailbox as the page's list shows it
  g,      \* the grant editor
  l,      \* the lifecycle editor
  p,      \* the send policy form
  acked   \* the newest revision the form got a write acknowledged for

vars == <<box, dflt, boxes, form, g, l, p, run, net, stray, acked,
          moves, calls, rivals, lost>>
server == <<box, dflt>>
forms == <<boxes, form, g, l, p, run, acked, moves, calls>>

Forms == {"grant", "lifecycle", "policy"}
People == {"owner", "member"}

-----------------------------------------------------------------------------
(* The server: one revision for grants, policy and lifecycle.              *)

Seen(b, d) == [rev |-> b.rev, kind |-> b.kind, owner |-> b.owner, override |-> b.policy,
               send_policy |-> IF b.policy = "" THEN d ELSE b.policy]
Snapshot == Seen(box, dflt)
GrantSnapshot == [rev |-> box.rev, right |-> box.grant]

SetWorkGrant(m) ==
  /\ m.kind = "grant" /\ m.rev = box.rev /\ box.owner # "member"
  /\ box' = [box EXCEPT !.rev = @ + 1, !.grant = m.right]
SetWorkMailboxSendPolicy(m) ==
  /\ m.kind = "policy" /\ m.rev = box.rev
  /\ box' = [box EXCEPT !.rev = @ + 1, !.policy = m.choice]
TransferWorkMailbox(m) ==
  /\ m.kind = "handover" /\ m.rev = box.rev /\ box.kind = "personal"
  /\ box' = [box EXCEPT !.rev = @ + 1, !.owner = m.to,
                        !.grant = IF box.owner = "member" THEN {} ELSE @]
ConvertSharedMailbox(m) ==
  /\ m.kind = "convert" /\ m.rev = box.rev /\ box.kind = "legacy"
  /\ box' = [box EXCEPT !.rev = @ + 1, !.kind = "shared"]

Writes == {"grant", "policy", "handover", "convert"}
Accept(m) ==
  /\ \/ SetWorkGrant(m) \/ SetWorkMailboxSendPolicy(m)
     \/ TransferWorkMailbox(m) \/ ConvertSharedMailbox(m)
  /\ UNCHANGED dflt

Serve ==
  /\ Unanswered
  /\ LET m == net.cmd IN
     \/ m.kind = "boxes" /\ Reply(Yes(Snapshot)) /\ UNCHANGED server
     \/ m.kind = "grants" /\ Reply(Yes(GrantSnapshot)) /\ UNCHANGED server
     \/ m.kind \in Writes /\ Accept(m) /\ Reply(Yes(None))
     \/ /\ m.kind \in Writes /\ m.rev # box.rev
        /\ Reply(Conflict) /\ UNCHANGED server
     \/ /\ m.kind = "grant" /\ m.rev = box.rev /\ box.owner = "member"
        /\ Reply(No) /\ UNCHANGED server
  /\ UNCHANGED <<forms, stray, rivals, lost>>

\* The request fails for its caller: a lock is busy, the connection drops
\* before or after the server acted, or the body of the answer is cut short.
Lose ==
  /\ Unanswered /\ lost < MaxLost /\ lost' = lost + 1
  /\ LET m == net.cmd IN
     \/ UNCHANGED <<server, stray>> /\ Reply(No)
     \/ m.kind \in Writes /\ UNCHANGED <<server, stray>> /\ Reply(Conflict)
     \/ \E a \in {No, Garbled} : Accept(m) /\ UNCHANGED stray /\ Reply(a)
     \/ /\ m.kind \in Writes /\ stray' = stray \cup {m}
        /\ UNCHANGED server /\ Reply(No)
  /\ UNCHANGED <<forms, rivals>>

ServeStray ==
  /\ \E m \in stray : /\ stray' = stray \ {m}
                      /\ Accept(m) \/ (m.rev # box.rev /\ UNCHANGED server)
  /\ UNCHANGED <<forms, net, rivals, lost>>

\* Another administrator, or an offboarding, changes the mailbox; a company
\* default changes its effective policy without touching its revision.
Rival ==
  /\ rivals < MaxRivals /\ rivals' = rivals + 1
  /\ \/ \E k \in Rights : Accept([kind |-> "grant", rev |-> box.rev, right |-> {k} \ box.grant])
     \/ Accept([kind |-> "policy", rev |-> box.rev, choice |-> "disabled"])
     \/ \E u \in People \ {box.owner} : Accept([kind |-> "handover", rev |-> box.rev, to |-> u])
     \/ dflt' = "template_required" /\ UNCHANGED box
  /\ UNCHANGED <<forms, net, stray, lost>>

-----------------------------------------------------------------------------
(* What the forms derive from the list whenever the page renders.          *)

signature(b) == <<b.rev, b.kind, b.owner>>
lcurrent(f, b) == IF f.dirty THEN f.snap ELSE b
lstale(f, b) == LET v == lcurrent(f, b) IN
  v.rev < Max2(f.high, b.rev) \/ (v.rev = b.rev /\ signature(v) # signature(b))
Lifecycle(f, b) == LET h == [f EXCEPT !.high = Max2(@, b.rev)] IN
  [h EXCEPT !.required = @ \/ (h.dirty /\ lstale(h, b))]

\* An explicit read outranks the list until the list catches up or changes.
pcurrent(f, b) == IF /\ f.reviewed # None
                     /\ \/ f.reviewed.value.rev > b.rev
                        \/ f.reviewed.value.rev = b.rev /\ f.reviewed.parent = b
                  THEN f.reviewed.value ELSE b
PolicyForm(f, b) == [f EXCEPT !.high = Max2(@, pcurrent(f, b).rev)]
pstale == p.required # None \/ p.rev # pcurrent(p, boxes).rev \/ p.rev < p.high

\* One render: the list shows b, the forms hold fl and fp, the action r runs.
Render(b, fl, fp, r) ==
  /\ boxes' = b
  /\ l' = IF form = "lifecycle" THEN Lifecycle(fl, b) ELSE l
  /\ p' = IF form = "policy" THEN PolicyForm(fp, b) ELSE p
  /\ run' = IF r # None /\ signature(b) # signature(boxes)
            THEN [r EXCEPT !.steady = FALSE] ELSE r

ReadBoxes == Send([kind |-> "boxes"])
ReadGrants == Send([kind |-> "grants"])
Away == UNCHANGED <<server, form, stray, rivals, lost>>

\* The list is revalidated; a failed refresh keeps the data it had.
Fresh == IF Got.ok THEN Got.data ELSE boxes
Refreshing == net # None /\ net.cmd.kind = "boxes"
Revalidate ==
  /\ IF form = "grant"
     THEN /\ g.data # GrantSnapshot /\ UNCHANGED <<boxes, l, p, run>>
          /\ g' = [g EXCEPT !.data = GrantSnapshot, !.high = Max2(@, box.rev)]
     ELSE ~Refreshing /\ boxes # Snapshot /\ Render(Snapshot, l, p, run) /\ UNCHANGED g
  /\ UNCHANGED <<acked, net, moves, calls>> /\ Away

-----------------------------------------------------------------------------
(* The grant editor.                                                       *)

NoGrant(d) == [data |-> d, draft |-> None, base |-> None, rev |-> None, conflict |-> None,
               saved |-> None, error |-> FALSE, high |-> d.rev]
orZero(n) == IF n = None THEN 0 ELSE n
gstale == g.conflict # None \/ g.saved # None \/ (g.rev # None /\ g.data.rev # g.rev)
readReady == ~g.error
KeepG == UNCHANGED <<boxes, l, p, calls, acked>> /\ Away

Needs(k) == IF k = "can_organize" THEN {"can_read"}
            ELSE IF k = "template_only" THEN {"can_send"} ELSE {}
toggle(s, k) == IF k \in s THEN s \ ({k} \cup {j \in s : k \in Needs(j)})
                ELSE s \cup {k} \cup Needs(k)

selectMember ==
  /\ Move /\ boxes.owner # "member"
  /\ g' = [g EXCEPT !.draft = g.data.right, !.base = g.data.right,
                    !.rev = IF readReady THEN g.data.rev ELSE None]
  /\ run' = Edited /\ UNCHANGED net /\ KeepG

checkRight ==
  /\ g.draft # None /\ Move
  /\ \E k \in Rights : g' = [g EXCEPT !.draft = toggle(@, k)]
  /\ run' = Edited /\ UNCHANGED net /\ KeepG

reloadGrants ==
  /\ Idle
  /\ g' = [g EXCEPT !.error = FALSE]
  /\ run' = Start("gread", [minimum |->
       Max2(Max2(orZero(g.rev), orZero(g.conflict)), Max2(orZero(g.saved), g.high))])
  /\ ReadGrants /\ UNCHANGED moves /\ KeepG

saveGrant ==
  /\ Idle /\ Call
  /\ ~gstale /\ readReady /\ g.rev # None /\ g.draft # None
  /\ run' = Start("gput", [rev |-> g.rev])
  /\ Send([kind |-> "grant", rev |-> g.rev, right |-> g.draft,
           seen |-> g.base])
  /\ UNCHANGED <<boxes, g, l, p, moves, acked>> /\ Away

\* readSnapshot: an explicit read at or above everything seen.
confirmed(a, minimum) == a.ok /\ a.data.rev >= Max2(minimum, g.high)
Adopt(f, a) == [f EXCEPT !.data = a.data, !.high = Max2(@, a.data.rev)]

GrantsRead ==
  /\ Doing("gread")
  /\ IF confirmed(Got, run.minimum)
     THEN g' = Adopt(g, Got) /\ run' = Step("grefresh") /\ ReadBoxes
     ELSE g' = [g EXCEPT !.error = TRUE] /\ run' = Stop /\ Hang
  /\ UNCHANGED moves /\ KeepG

\* MUTANT: the reviewed form keeps its rights under the revision just read.
Rebased(f) == [NoGrant(f.data) EXCEPT !.draft = f.draft, !.base = f.base, !.high = f.high,
                                      !.rev = IF f.draft = None THEN None ELSE f.data.rev]
Released(f) == [NoGrant(f.data) EXCEPT !.high = f.high]
GrantsReviewed ==
  /\ Doing("grefresh") /\ Hang
  /\ g' = [Released(g) EXCEPT !.error = g.error]
  /\ Render(Fresh, l, p, Stop)
  /\ UNCHANGED <<acked, moves, calls>> /\ Away

GrantPut ==
  /\ Doing("gput")
  /\ LET a == Got
         r == run IN
     IF a.ok
     THEN /\ g' = [g EXCEPT !.saved = Max2(r.rev + 1, g.high),
                            !.draft = IF r.mine THEN None ELSE @,
                            !.rev = IF r.mine THEN None ELSE @]
          /\ acked' = r.rev
          /\ run' = Start("gback", [minimum |-> Max2(r.rev + 1, g.high)])
          /\ ReadGrants
     ELSE /\ g' = [g EXCEPT !.conflict = IF a.conflict \/ a.garbled THEN r.rev ELSE @,
                            !.error = @ \/ a.garbled]
          /\ run' = Stop /\ Hang /\ UNCHANGED acked
  /\ UNCHANGED <<boxes, l, p, moves, calls>> /\ Away

GrantReadBack ==
  /\ Doing("gback")
  /\ IF confirmed(Got, run.minimum)
     THEN g' = Adopt(g, Got) /\ run' = Step("gshown") /\ ReadBoxes
     ELSE g' = [g EXCEPT !.error = TRUE] /\ run' = Stop /\ Hang
  /\ UNCHANGED moves /\ KeepG

GrantShown ==
  /\ Doing("gshown") /\ Hang
  /\ g' = [g EXCEPT !.saved = None, !.error = FALSE]
  /\ Render(Fresh, l, p, Stop)
  /\ UNCHANGED <<acked, moves, calls>> /\ Away

-----------------------------------------------------------------------------
(* The lifecycle editor: hand over a personal mailbox, convert a legacy one. *)

Untouched(b) == [snap |-> b, dirty |-> FALSE, next |-> "", reason |-> FALSE, required |-> FALSE,
                 reviewed |-> FALSE, ack |-> FALSE, high |-> b.rev]
lcur == lcurrent(l, boxes)
personal == lcur.kind = "personal"
canSubmit ==
  /\ lcur.kind \in {"personal", "legacy"} /\ Idle
  /\ ~lstale(l, boxes) /\ ~l.required /\ (l.reviewed => l.ack) /\ l.reason
  /\ personal => l.next \in People \ {lcur.owner}
KeepL == UNCHANGED <<g, calls>> /\ Away
Pinned(f) == IF f.dirty THEN f ELSE [f EXCEPT !.snap = boxes, !.dirty = TRUE]

editLifecycle ==
  /\ lcur.kind \in {"personal", "legacy"} /\ Move
  /\ \/ /\ personal
        /\ \E u \in People \ {lcur.owner, l.next} :
             Render(boxes, [Pinned(l) EXCEPT !.next = u], p, Edited)
     \/ Render(boxes, [Pinned(l) EXCEPT !.reason = ~@], p, Edited)
  /\ UNCHANGED <<acked, net>> /\ KeepL

acknowledge ==
  /\ l.reviewed /\ ~l.ack /\ Idle /\ ~lstale(l, boxes) /\ ~l.required /\ Move
  /\ Render(boxes, [l EXCEPT !.ack = TRUE], p, run)
  /\ UNCHANGED <<acked, net>> /\ KeepL

reload ==
  /\ Idle /\ Move
  /\ Render(boxes, [l EXCEPT !.required = TRUE, !.ack = FALSE], p,
            Start("lread", [minimum |-> Max2(l.high, boxes.rev)]))
  /\ ReadBoxes /\ UNCHANGED acked /\ KeepL

Reloaded ==
  /\ Doing("lread") /\ Hang
  /\ LET a == Got
         r == run
         taken == [l EXCEPT !.snap = a.data, !.high = a.data.rev, !.dirty = TRUE,
                            !.required = FALSE, !.reviewed = TRUE,
                            !.next = IF @ = a.data.owner THEN "" ELSE @] IN
     Render(boxes, IF a.ok /\ r.steady /\ r.mine /\ a.data.rev >= r.minimum THEN taken ELSE l,
            p, Stop)
  /\ UNCHANGED <<acked, moves>> /\ KeepL

submit ==
  /\ canSubmit /\ Call
  /\ run' = Start("lpost", [basis |-> lcur])
  /\ Send([kind |-> IF personal THEN "handover" ELSE "convert", form |-> "lifecycle",
           rev |-> lcur.rev, to |-> l.next, seen |-> lcur])
  /\ UNCHANGED <<boxes, g, l, p, moves, acked>> /\ Away

Submitted ==
  /\ Doing("lpost")
  /\ LET r == run
         latched == [l EXCEPT !.snap = r.basis, !.dirty = TRUE, !.required = TRUE, !.ack = FALSE] IN
     IF Got.ok
     THEN /\ Render(boxes, [latched EXCEPT !.high = Max2(@, r.basis.rev + 1),
                                           !.next = IF r.mine THEN "" ELSE @,
                                           !.reason = IF r.mine THEN FALSE ELSE @],
                    p, Step("lrefresh"))
          /\ acked' = r.basis.rev /\ ReadBoxes
     ELSE Render(boxes, latched, p, Stop) /\ Hang /\ UNCHANGED acked
  /\ UNCHANGED moves /\ KeepL

LifecycleShown ==
  /\ Doing("lrefresh") /\ Hang
  /\ Render(Fresh, l, p, Stop)
  /\ UNCHANGED <<acked, moves>> /\ KeepL

-----------------------------------------------------------------------------
(* The send policy form.                                                   *)

NoChoice(b) == [choice |-> "", rev |-> b.rev, required |-> None, reviewed |-> None, high |-> b.rev]
policySnapshot(b, minimum, newerThan) == b.rev >= minimum /\ b.rev > newerThan
Took(f, v) == [f EXCEPT !.reviewed = [value |-> v, parent |-> boxes], !.rev = v.rev,
                        !.required = None]

choose ==
  /\ ~(~Idle /\ p.required # None) /\ Move
  /\ \E v \in {"", "disabled"} \ {p.choice} : Render(boxes, l, [p EXCEPT !.choice = v], run)
  /\ UNCHANGED <<acked, net>> /\ KeepL

\* A changed list is reviewed as shown; a conflict or an unconfirmed write
\* always takes a read.
review ==
  /\ pstale /\ Idle /\ Move
  /\ IF p.required = None /\ pcurrent(p, boxes).rev >= Max2(p.rev, p.high)
     THEN /\ Render(boxes, l, [p EXCEPT !.choice = "", !.rev = pcurrent(p, boxes).rev], run)
          /\ UNCHANGED net
     ELSE /\ Render(boxes, l, p, Start("pread", [rev |-> p.rev]))
          /\ ReadBoxes
  /\ UNCHANGED acked /\ KeepL

Reviewed ==
  /\ Doing("pread") /\ Hang
  /\ LET a == Got
         minimum == Max2(IF p.required = None THEN p.rev ELSE p.required.minimum, p.high)
         newer == IF p.required = None THEN 0 ELSE p.required.newer IN
     Render(boxes, l, IF a.ok /\ policySnapshot(a.data, minimum, newer)
                      THEN [Took(p, a.data) EXCEPT !.choice = ""] ELSE p, Stop)
  /\ UNCHANGED <<acked, moves>> /\ KeepL

savePolicy ==
  /\ Idle /\ ~pstale /\ Call
  /\ run' = Start("pput", [rev |-> p.rev])
  /\ Send([kind |-> "policy", rev |-> p.rev, choice |-> p.choice,
           seen |-> pcurrent(p, boxes)])
  /\ UNCHANGED <<boxes, g, l, p, moves, acked>> /\ Away

\* MUTANT: an acknowledged write needs no confirmation.
Unlatched(f, rev, wrote) == f
\* MUTANT: the confirmation must be newer than the write itself.
TooNew(f, rev, wrote) ==
  [f EXCEPT !.required = [minimum |-> Max2(rev, f.high), newer |-> IF wrote THEN rev + 1 ELSE 0]]
Latched(f, rev, wrote) ==
  [f EXCEPT !.required = [minimum |-> Max2(rev, f.high), newer |-> IF wrote THEN rev ELSE 0]]

PolicyPut ==
  /\ Doing("pput")
  /\ LET a == Got
         r == run.rev IN
     IF a.ok \/ a.conflict
     THEN /\ Render(boxes, l, Latched(p, r, a.ok), Step(IF a.ok THEN "pconfirm" ELSE "pshow"))
          /\ acked' = IF a.ok THEN r ELSE acked
          /\ ReadBoxes
     ELSE Render(boxes, l, p, Stop) /\ Hang /\ UNCHANGED acked
  /\ UNCHANGED moves /\ KeepL

\* The refreshed list confirms the write when it is newer; mutate() may hand
\* back the old list after a failed read, which never does.
PolicyShown ==
  /\ Doing("pconfirm") \/ Doing("pshow")
  /\ Hang
  /\ LET b == Fresh
         r == run IN
     Render(b, l, IF r.op = "pconfirm" /\ policySnapshot(b, Max2(r.rev, p.high), r.rev)
                  THEN Took(p, b) ELSE p, Stop)
  /\ UNCHANGED <<acked, moves>> /\ KeepL

-----------------------------------------------------------------------------
\* Another mailbox is selected or the session changes: the editors start over
\* with what the list holds, and answers under way are dropped.
Remount ==
  /\ Move
  /\ stray' = stray \cup (IF Unanswered /\ net.cmd.kind \in Writes THEN {net.cmd} ELSE {})
  /\ net' = None /\ run' = None
  /\ g' = NoGrant(g.data) /\ l' = Untouched(boxes) /\ p' = NoChoice(boxes)
  /\ acked' = 0
  /\ UNCHANGED <<server, boxes, form, calls, rivals, lost>>

-----------------------------------------------------------------------------
Init ==
  /\ \E k \in {"personal", "legacy"} :
       box = [rev |-> 1, kind |-> k, owner |-> IF k = "personal" THEN "owner" ELSE "",
              policy |-> "", grant |-> {}]
  /\ dflt = "free" /\ form \in Forms
  /\ boxes = Snapshot /\ g = NoGrant(GrantSnapshot) /\ l = Untouched(boxes) /\ p = NoChoice(boxes)
  /\ acked = 0 /\ Quiet

User == \/ form = "grant" /\ (selectMember \/ checkRight \/ reloadGrants \/ saveGrant)
        \/ form = "lifecycle" /\ (editLifecycle \/ acknowledge \/ reload \/ submit)
        \/ form = "policy" /\ (choose \/ review \/ savePolicy)
        \/ Remount
Answers == \/ GrantsRead \/ GrantsReviewed \/ GrantPut \/ GrantReadBack \/ GrantShown
           \/ Reloaded \/ Submitted \/ LifecycleShown
           \/ Reviewed \/ PolicyPut \/ PolicyShown
Next == \/ User \/ Answers \/ Revalidate \/ Rival \/ ServeStray
        \/ Serve \/ Lose
Spec == Init /\ [][Next]_vars

-----------------------------------------------------------------------------
(* What the console's properties say of this page.                         *)

Outstanding == stray \cup (IF Unanswered THEN {net.cmd} ELSE {})

\* A write of a form that the server accepts replaces what that form showed
\* when it was filled in: no refresh, review or reply moves a filled form to a
\* newer revision unseen.
OverwritesSeen ==
  \A m \in Outstanding :
    (/\ m.kind \in Writes /\ m \notin Outstanding'
     /\ rivals' = rivals /\ box' # box /\ box.rev = m.rev)
    => CASE m.kind = "grant" -> box.grant = m.seen
         [] m.kind = "policy" -> box.policy = m.seen.override
         [] OTHER -> box.owner = m.seen.owner /\ box.kind = m.seen.kind

\* Once a form's write is acknowledged, the form sends nothing for that
\* revision again, although the reread that would show the result can fail and
\* the list may still hold the old state.
SavedOnce ==
  run # None /\ run.op \in {"gput", "lpost", "pput"} => net.cmd.rev > acked

\* A review always gets its form going again: an explicit read that returns the
\* server's present state, with nothing typed or changed meanwhile, releases it.
Blocked == CASE form = "grant" -> g.conflict # None \/ g.saved # None
             [] form = "lifecycle" -> l.required
             [] form = "policy" -> p.required # None
Releases ==
  (/\ run # None /\ run.op \in {"grefresh", "lread", "pread"} /\ run' = None
   /\ Answered /\ Got.ok /\ Got.data.rev = box.rev
   /\ run.mine /\ run.steady /\ moves' = moves)
  => ~Blocked'
=============================================================================

------------------------------ MODULE PageForm ------------------------------
(***************************************************************************)
(* The steps the console's pages are made of.  A page keeps what the       *)
(* server holds in `srv` and what the browser shows in `ui`; the server's  *)
(* handlers are given as the set of outcomes a request can have.           *)
(***************************************************************************)
EXTENDS PageAction

VARIABLES srv, ui

vars == <<form, run, net, stray, moves, calls, rivals, lost, srv, ui>>
Here == UNCHANGED <<form, srv, stray, rivals, lost>>

\* What the user does: type (a new intent), look around, read, write.
Type(u) == Move /\ ui' = u /\ run' = Edited /\ UNCHANGED <<net, calls>> /\ Here
Look(u) == Move /\ ui' = u /\ UNCHANGED <<run, net, calls>> /\ Here
Read(op, data, m, u) ==
  Idle /\ Move /\ run' = Start(op, data) /\ Send(m) /\ ui' = u /\ UNCHANGED calls /\ Here
Write(op, data, m, u) ==
  Idle /\ Call /\ run' = Start(op, data) /\ Send(m) /\ ui' = u /\ UNCHANGED moves /\ Here

\* What the running action does with an answer: ask on, or finish.
Then(op, m, u) == run' = Step(op) /\ Send(m) /\ ui' = u /\ UNCHANGED <<moves, calls>> /\ Here
End(u) == run' = Stop /\ Hang /\ ui' = u /\ UNCHANGED <<moves, calls>> /\ Here

\* A cache of the page is read again in the background.
Refresh(u) == ui' = u /\ run' = Moved /\ UNCHANGED <<net, moves, calls>> /\ Here

\* The background read fails, which the page shows as an error.
RefreshFails(u) ==
  /\ lost < MaxLost /\ lost' = lost + 1 /\ ui' = u /\ run' = Moved
  /\ UNCHANGED <<form, srv, stray, net, moves, calls, rivals>>

\* The page is left and entered again, or the session changes: requests under
\* way lose their reader, not their effect.
Dropped(writes) == IF Unanswered /\ net.cmd.kind \in writes THEN {net.cmd} ELSE {}
Abandon(u, writes) ==
  /\ ui' = u /\ net' = None /\ run' = None
  /\ LET dropped == Dropped(writes) IN
     /\ stray' = stray \cup dropped
     /\ IF dropped = {} THEN UNCHANGED lost ELSE lost < MaxLost /\ lost' = lost + 1
  /\ UNCHANGED <<form, srv, calls, rivals>>
Reenter(u, writes) == Move /\ Abandon(u, writes)

Out(s, a) == [srv |-> s, a |-> a]
ServeBy(outs) ==
  /\ Unanswered
  /\ \E o \in outs : srv' = o.srv /\ Reply(o.a)
  /\ UNCHANGED <<form, run, ui, stray, moves, calls, rivals, lost>>

\* The request fails for the page: before the server acted, after it, with an
\* unreadable body, or while it still travels.
LoseBy(outs, writes) ==
  /\ Unanswered /\ lost < MaxLost /\ lost' = lost + 1
  /\ \/ Reply(No) /\ UNCHANGED <<srv, stray>>
     \/ \E o \in outs, a \in {No, Garbled} :
          o.srv # srv /\ srv' = o.srv /\ Reply(a) /\ UNCHANGED stray
     \/ /\ net.cmd.kind \in writes /\ stray' = stray \cup {net.cmd}
        /\ Reply(No) /\ UNCHANGED srv
  /\ UNCHANGED <<form, run, ui, moves, calls, rivals>>

StrayBy(m, outs) ==
  /\ stray' = stray \ {m} /\ \E o \in outs : srv' = o.srv
  /\ UNCHANGED <<form, run, net, ui, moves, calls, rivals, lost>>

Others(s) ==
  /\ rivals < MaxRivals /\ rivals' = rivals + 1 /\ s # srv /\ srv' = s
  /\ UNCHANGED <<form, run, net, stray, ui, moves, calls, lost>>
=============================================================================

----------------------------- MODULE PageAction -----------------------------
(***************************************************************************)
(* What the forms of the company console share: a page runs one action at  *)
(* a time (useAction, components/company/common.tsx), an action is a chain *)
(* of requests with a step of the page between them, and an answer may be  *)
(* lost after the server acted, before it, or while the request still      *)
(* travels.  `mine` says that nothing was typed since the action started,  *)
(* `steady` that what the page had read has not changed since.             *)
(***************************************************************************)
EXTENDS Integers, TLC

CONSTANTS None,
          MaxMoves,  \* selections, edits and reads by the user
          MaxCalls,  \* writes started by the user
          MaxRivals, \* changes by others
          MaxLost    \* answers that are lost

ASSUME PageBounds == {MaxMoves, MaxCalls, MaxRivals, MaxLost} \subseteq Nat

VARIABLES
  form,   \* the form the user works with
  run,    \* the running action, or None
  net,    \* the request it waits for, or None
  stray,  \* writes whose answer was given up but which may still be served
  moves, calls, rivals, lost

Max2(a, b) == IF a >= b THEN a ELSE b

Yes(data) == [ok |-> TRUE, conflict |-> FALSE, garbled |-> FALSE, data |-> data]
No == [ok |-> FALSE, conflict |-> FALSE, garbled |-> FALSE, data |-> None]
Conflict == [No EXCEPT !.conflict = TRUE]
Garbled == [No EXCEPT !.garbled = TRUE]  \* a SyntaxError: the status was read, the body was not

Unanswered == net # None /\ net.answer = None
Answered == net # None /\ net.answer # None
Got == net.answer
Reply(a) == net' = [net EXCEPT !.answer = a]

\* The fields of h, except where f has its own.
Over(f, h) == [k \in DOMAIN f \cup DOMAIN h |-> IF k \in DOMAIN f THEN f[k] ELSE h[k]]
\* f, with v for k.
With(f, k, v) == [x \in DOMAIN f \cup {k} |-> IF x = k THEN v ELSE f[x]]
Start(op, data) == Over(data, [op |-> op, mine |-> TRUE, steady |-> TRUE])
Step(op) == [run EXCEPT !.op = op]
Stop == None
Send(m) == net' = [cmd |-> m, answer |-> None]
Hang == net' = None
Idle == run = None
Doing(op) == run # None /\ run.op = op /\ Answered
Move == moves < MaxMoves /\ moves' = moves + 1
Call == calls < MaxCalls /\ calls' = calls + 1
\* Every edit is a new intent, which a running action did not submit.
Edited == IF run = None THEN None ELSE [run EXCEPT !.mine = FALSE]
\* What the page had read is replaced under a running action.
Moved == IF run = None THEN None ELSE [run EXCEPT !.steady = FALSE]

Quiet == /\ run = None /\ net = None /\ stray = {}
         /\ moves = 0 /\ calls = 0 /\ rivals = 0 /\ lost = 0
=============================================================================

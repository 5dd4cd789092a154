---------------------------- MODULE RecoveryDesk ----------------------------
(***************************************************************************)
(* The platform administrator's recovery page                              *)
(* (app/(dashboard)/company/recovery/page.tsx) with what it works on: a    *)
(* receipt of accepted mail that the ingest workers deliver target by      *)
(* target (internal/ingest/recovery.go, store/postgres/ingress.go), and    *)
(* outbound jobs with recipients whose outcome is not known.  Both are     *)
(* inspected first and then changed under the version that was inspected.  *)
(***************************************************************************)
EXTENDS PageForm, FiniteSets

Forms == {"inbound", "outbound"}
Boxes == {"b1", "b2", "b3"}  \* the targets of the receipt
Jobs == {"j1", "j2"}
Addresses == {"u", "w"}
Completions == {"accepted", "temporary"}
MaxClaims == 2               \* bound: claims since a receipt was last queued

-----------------------------------------------------------------------------
(* The receipt and the workers that hold, or held, a claim on it.          *)

\* What a worker reads after its claim: the targets it still has to serve.
todo(s) == {b \in Boxes : s.targets[b] = "pending"}
Touched(s, state) == [s EXCEPT !.st = state, !.ver = @ + 1]

\* A waiting receipt, or one whose lease ran out, is claimed under a new token.
ClaimIngress(s) ==
  IF s.st \notin {"pending", "retry", "processing"} \/ s.claims >= MaxClaims THEN {}
  ELSE {[Touched(s, "processing") EXCEPT !.claims = @ + 1, !.token = s.ver + 1,
           !.workers = @ \cup {[token |-> s.ver + 1, left |-> todo(s)]}]}

lockIngress(s, w) == s.st = "processing" /\ s.token = w.token
Left(s, w, b) == [s EXCEPT !.workers = (@ \ {w}) \cup {[w EXCEPT !.left = @ \ {b}]}]
DeliverIngress(s, w, b) == [Left(s, w, b) EXCEPT !.targets[b] = "delivered", !.copies[b] = @ + 1]
HoldIngressTarget(s, w, b) == [Left(s, w, b) EXCEPT !.targets[b] = "held"]

\* One target after the other: delivered, held for review, or left for a retry.
TargetOutcomes(s, w, b) ==
  {Left(s, w, b)} \cup
  (IF s.targets[b] = "pending" THEN {DeliverIngress(s, w, b), HoldIngressTarget(s, w, b)} ELSE {})
processReceipt(s) ==
  UNION {UNION {TargetOutcomes(s, w, b) : b \in w.left} : w \in {x \in s.workers : lockIngress(s, x)}}

\* The mark at the end decides over the ledger as it is then.
\* MUTANT: a receipt is closed when nothing waits, held targets or not.
closesHeld(s) == IF todo(s) = {} THEN "done" ELSE IF s.claims >= MaxClaims THEN "dead" ELSE "retry"
Verdict(s) ==
  IF \A b \in Boxes : s.targets[b] = "delivered" THEN "done"
  ELSE IF todo(s) = {} \/ s.claims >= MaxClaims THEN "dead" ELSE "retry"
FinishIngress(s) ==
  {[Touched(s, Verdict(s)) EXCEPT
      !.token = 0, !.workers = @ \ {w},
      !.targets = [b \in Boxes |-> IF Verdict(s) = "dead" /\ @[b] = "pending" THEN "held" ELSE @[b]]] :
   w \in {x \in s.workers : x.left = {} /\ lockIngress(s, x)}}

\* A worker stops at any point: a crash, a cancelled context, a refused fence.
Stops(s) == {[s EXCEPT !.workers = @ \ {w}] : w \in s.workers}

Ingest ==
  /\ form = "inbound"
  /\ srv' \in ClaimIngress(srv) \cup processReceipt(srv) \cup FinishIngress(srv) \cup Stops(srv)
  /\ UNCHANGED <<form, run, net, stray, ui, moves, calls, rivals, lost>>

-----------------------------------------------------------------------------
(* The handlers.  A row lock held by a worker answers as a conflict, too.  *)

InspectRecoveryReceipt(s) == Out(s, Yes([st |-> s.st, ver |-> s.ver, targets |-> s.targets]))
\* MUTANT: the retry is applied whatever happened since the inspection.
anyVersion(s, m) == s.st \notin {"processing", "done"}
unchanged(s, m) == s.st \notin {"processing", "done"} /\ s.ver = m.ver
RetryRecoveryReceipt(s, m) ==
  IF ~unchanged(s, m) \/ \E b \in m.targets : s.targets[b] = "delivered" THEN Out(s, Conflict)
  ELSE Out([Touched(s, "pending") EXCEPT
              !.claims = 0, !.token = 0,
              !.targets = [b \in Boxes |-> IF b \in m.targets THEN "pending" ELSE @[b]]], Yes(None))

InspectOutbound(s, m) == Out(s, Yes(Over([id |-> m.id], s.jobs[m.id])))
\* Every outcome known: sent, or failed until somebody retries explicitly.
AfterReconciliation(st, rcpt) ==
  IF \E a \in Addresses : rcpt[a] = "uncertain" THEN st
  ELSE IF \A a \in Addresses : rcpt[a] = "accepted" THEN "sent" ELSE "failed"
ReconcileOutbound(s, m) ==
  LET j == s.jobs[m.id]
      rcpt == Over(m.results, j.rcpt) IN
  IF j.st = "processing" \/ j.ver # m.ver \/ \E a \in DOMAIN m.results : j.rcpt[a] # "uncertain"
  THEN Out(s, Conflict)
  ELSE Out([s EXCEPT !.jobs[m.id] = [st |-> AfterReconciliation(j.st, rcpt), ver |-> j.ver + 1, rcpt |-> rcpt]],
           Yes(None))

Writes == {"retry", "reconcile"}
Handle(s, m) ==
  CASE m.kind = "queue" -> {Out(s, Yes(s.st # "done"))}
    [] m.kind = "inspect" -> {InspectRecoveryReceipt(s)}
    [] m.kind = "retry" -> {RetryRecoveryReceipt(s, m), Out(s, Conflict)}
    [] m.kind = "job" -> {InspectOutbound(s, m)}
    [] m.kind = "reconcile" -> {ReconcileOutbound(s, m), Out(s, Conflict)}
Serve == ServeBy(Handle(srv, net.cmd))
Lose == LoseBy(Handle(srv, net.cmd), Writes)
ServeStray == \E m \in stray : StrayBy(m, Handle(srv, m))

\* Another operator reconciles; a sender takes a job that is retried.
Rival ==
  /\ form = "outbound"
  /\ \E id \in Jobs, st \in {"failed", "processing"} :
       Others([srv EXCEPT !.jobs[id].st = st, !.jobs[id].ver = @ + 1,
                          !.jobs[id].rcpt["u"] = IF st = "failed" THEN "accepted" ELSE @])

-----------------------------------------------------------------------------
(* The inbound half of the page.                                           *)

inspect == ui.queue /\ Read("inspect", <<>>, [kind |-> "inspect"], ui)
Inspected ==
  /\ Doing("inspect")
  /\ End(IF Got.ok THEN [ui EXCEPT !.inspection = Got.data, !.targets = {}, !.review = FALSE] ELSE ui)

checkTarget ==
  /\ ui.inspection # None /\ Idle
  /\ \E b \in Boxes : /\ ui.inspection.targets[b] # "delivered"
                      /\ Look([ui EXCEPT !.targets = IF b \in @ THEN @ \ {b} ELSE @ \cup {b}])

retryTargets ==
  /\ ui.inspection # None /\ ui.targets # {} /\ ui.inspection.st # "processing"
  /\ Write("retry", <<>>, [kind |-> "retry", ver |-> ui.inspection.ver, targets |-> ui.targets,
                           seen |-> ui.inspection.targets], ui)
Retried ==
  /\ Doing("retry")
  /\ CASE Got.ok -> Then("queue", [kind |-> "queue"], [ui EXCEPT !.inspection = None])
       [] Got.conflict -> End([ui EXCEPT !.inspection = None, !.targets = {}, !.review = TRUE])
       [] OTHER -> End(ui)
QueueRead == Doing("queue") /\ End(IF Got.ok THEN [ui EXCEPT !.queue = Got.data] ELSE ui)

-----------------------------------------------------------------------------
(* The outbound half.                                                      *)

editJob ==
  \E id \in Jobs \ {ui.jobId} :
    Type([ui EXCEPT !.jobId = id, !.job = None, !.outcomes = <<>>, !.review = FALSE])
inspectJob ==
  ui.jobId # "" /\ Read("job", [id |-> ui.jobId], [kind |-> "job", id |-> ui.jobId],
                        [ui EXCEPT !.job = None, !.outcomes = <<>>])

\* MUTANT: the reply is shown for whatever job is named by now.
anyReply(r) == TRUE
sameVersion(r) == r.mine
\* parseOutboundInspection refuses the answer for another job.
JobInspected ==
  /\ Doing("job")
  /\ End(IF Got.ok /\ sameVersion(run) /\ Got.data.id = run.id
         THEN [ui EXCEPT !.job = Got.data, !.review = FALSE] ELSE ui)

setOutcome ==
  /\ ui.job # None
  /\ \E a \in Addresses, o \in Completions \cup {""} :
       /\ ui.job.rcpt[a] = "uncertain" /\ (a \in DOMAIN ui.outcomes => ui.outcomes[a] # o)
       /\ Look([ui EXCEPT !.outcomes = With(@, a, o)])
results(u) == [a \in {x \in DOMAIN u.outcomes : u.outcomes[x] # ""} |-> u.outcomes[a]]
reconcile ==
  /\ ui.job # None /\ DOMAIN results(ui) # {}
  /\ Write("reconcile", <<>>, [kind |-> "reconcile", id |-> ui.job.id, ver |-> ui.job.ver,
                               results |-> results(ui), seen |-> ui.job.rcpt, shown |-> ui.jobId], ui)
ReconcileDone ==
  /\ Doing("reconcile")
  /\ End(CASE Got.ok -> [ui EXCEPT !.job = None]
           [] Got.conflict /\ sameVersion(run) ->
                [ui EXCEPT !.job = None, !.outcomes = <<>>, !.review = TRUE]
           [] OTHER -> ui)

-----------------------------------------------------------------------------
Revalidate == form = "inbound" /\ ui.queue # (srv.st # "done") /\ Refresh([ui EXCEPT !.queue = ~@])

Blank == IF form = "inbound" THEN [queue |-> srv.st # "done", inspection |-> None, targets |-> {}, review |-> FALSE]
         ELSE [jobId |-> "", job |-> None, outcomes |-> <<>>, review |-> FALSE]
Remount == Reenter(Blank, Writes)

Init ==
  /\ form \in Forms /\ Quiet
  /\ srv = IF form = "inbound"
           THEN [st |-> "dead", ver |-> 1, token |-> 0, claims |-> 0, workers |-> {},
                 targets |-> [b \in Boxes |-> IF b = "b3" THEN "delivered" ELSE "held"],
                 copies |-> [b \in Boxes |-> IF b = "b3" THEN 1 ELSE 0]]
           ELSE [jobs |-> [id \in Jobs |-> [st |-> "dead", ver |-> 1,
                   rcpt |-> [a \in Addresses |-> IF id = "j2" /\ a = "w" THEN "accepted" ELSE "uncertain"]]]]
  /\ ui = Blank

Next == \/ form = "inbound" /\ (inspect \/ checkTarget \/ retryTargets)
        \/ form = "outbound" /\ (editJob \/ inspectJob \/ setOutcome \/ reconcile)
        \/ Inspected \/ Retried \/ QueueRead \/ JobInspected \/ ReconcileDone
        \/ Revalidate \/ Remount \/ Rival \/ Ingest
        \/ Serve \/ Lose \/ ServeStray
Spec == Init /\ [][Next]_vars

-----------------------------------------------------------------------------
(* What the console's properties say of this page.                         *)

InFlight == stray \cup Dropped(Writes)
\* A retry requeues, and a reconciliation decides, what the inspection on the
\* screen showed: nothing happened to those targets or recipients since, and
\* the job was the one named in the page's field.
AsConfirmed ==
  \A m \in InFlight : m \notin InFlight' /\ rivals' = rivals /\ srv' # srv =>
    /\ m.kind = "retry" => \A b \in m.targets : srv.targets[b] = m.seen[b]
    /\ m.kind = "reconcile" => srv.jobs[m.id].rcpt = m.seen /\ m.shown = m.id
\* Accepted mail reaches a target at most once, is never taken back, and a
\* receipt is closed only when every target has it; no target waits in a
\* receipt that no worker will claim again.
DeliveredOnce ==
  form = "inbound" =>
    /\ \A b \in Boxes : srv.copies[b] = IF srv.targets[b] = "delivered" THEN 1 ELSE 0
    /\ srv.st = "done" => \A b \in Boxes : srv.copies[b] = 1
    /\ srv.st \in {"dead", "done"} => todo(srv) = {}
\* The outbound inspection on the screen is of the job in the field.
OwnInspection == form = "outbound" /\ ui.job # None => ui.job.id = ui.jobId
=============================================================================

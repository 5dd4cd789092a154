-------------------------- MODULE OutboundDelivery --------------------------
(***************************************************************************)
(* The outbound delivery path of TabMail: the outbound_jobs rows and their *)
(* recipient ledger (outbound_recipients), the workers that claim a job    *)
(* under a lease and a fresh delivery token, send one SMTP transaction per *)
(* recipient and finalize the job, and the administrators who inspect,     *)
(* reconcile, retry and cancel jobs at the same time.                      *)
(*                                                                         *)
(* Every database statement (or transaction) and every network call of a   *)
(* worker is one step, so that crashes, lapsed leases, lost commit replies *)
(* and administrator actions fall between any two of them.  Jobs start as  *)
(* rows inserted by a submission, or as rows that migration 00014 put on   *)
(* hold.  Time is a set of countdown timers, one tick long.                *)
(***************************************************************************)
EXTENDS Integers, FiniteSets

CONSTANTS
    Jobs,           \* outbound_jobs rows
    LegacyJobs,     \* those held by the recipient-ledger migration
    Departing,      \* those submitted by the employee being offboarded
    Workers,        \* goroutines running the outbound workqueue
    Operators,      \* administrators reconciling uncertain sends
    NumRecipients,  \* envelope size; recipients are numbered in address order
    MaxAttempts,    \* outbound_jobs.max_attempts
    StartTicks,     \* longest delay from the claim to the start of the handler
    HandlerTicks,   \* the handler's context.WithTimeout
    LeaseTicks,     \* lease_until - claimed_at
    RetryTicks,     \* next_attempt_at - now after a retry mark
    MaxFaults,      \* bound: crashes, failed calls, lost replies, lapsed leases
    MaxRequeues     \* bound: manual retries

\* One minute of handler in a lease of five (outbound.go:425-427): what is
\* left over is the time the claim's reply may take to reach the worker.
ASSUME TimingAssumption ==
    /\ StartTicks \in Nat
    /\ HandlerTicks \in Nat \ {0}
    /\ LeaseTicks \in Nat
    /\ RetryTicks \in Nat
    /\ StartTicks + HandlerTicks <= LeaseTicks

ASSUME BoundsAssumption ==
    /\ NumRecipients \in Nat \ {0}
    /\ MaxAttempts \in Nat
    /\ MaxFaults \in Nat
    /\ MaxRequeues \in Nat
    /\ Jobs # {}
    /\ LegacyJobs \subseteq Jobs
    /\ Departing \subseteq Jobs

Recipients == 1..NumRecipients

AnyJob == CHOOSE j \in Jobs : TRUE

\* outbound_jobs.in_flight_domain: '' , 'rcpt:<address>', or the migration's
\* 'legacy:review-required'.
NoMarker == 0
LegacyMarker == NumRecipients + 1
Markers == {NoMarker, LegacyMarker} \cup Recipients

\* outbound_jobs.delivery_token: NULL or a UUID no claim has had before.
NoToken == 0

JobStates == {"pending", "retry", "processing", "sent", "failed", "dead", "cancelled"}
Queued == {"pending", "retry", "processing"}
RecipientStates == {"pending", "accepted", "temporary", "permanent", "uncertain"}
Completions == {"accepted", "temporary", "permanent"}
Settled == {"accepted", "permanent"}

VARIABLES
    state, attempts, token, lease, wait, marker,  \* outbound_jobs
    ledger,                                       \* outbound_recipients.state
    authorized,       \* ValidateJobAuthorization would pass now
    pc, job, held, snap, cursor, event, timer,    \* a worker's locals
    issued,           \* delivery tokens generated so far
    copies,           \* copies the next hop has accepted
    inspected, seen, current,                     \* an operator's inspection
    faults, requeues  \* used up of MaxFaults and MaxRequeues

jobVars == <<state, attempts, token, lease, wait, marker>>
locals == <<job, held, snap, cursor, event, timer>>
workerVars == <<pc, locals>>
operatorVars == <<inspected, seen, current>>
vars == <<jobVars, ledger, authorized, workerVars, issued, copies,
          operatorVars, faults, requeues>>

---------------------------------------------------------------------------
(* The state policy of package delivery                                     *)

\* The states a recipient may leave for target.
RecipientSources(target) ==
    CASE target = "uncertain" -> {"pending", "temporary"}
      [] target \in Completions -> {"uncertain"}

\* MUTANT: a retry mark ignores the in-flight marker.
FinalStateRetries(e, inFlight) ==
    CASE e = "sent" -> "sent"
      [] e = "retry" -> "retry"
      [] e = "failed" -> "failed"
      [] e = "dead" -> "dead"

\* The state a finalization mark leaves the job in: a retry of a job with an
\* unresolved network operation becomes an operator hold.
FinalState(e, inFlight) ==
    CASE e = "sent" -> "sent"
      [] e = "retry" -> IF inFlight THEN "failed" ELSE "retry"
      [] e = "failed" -> "failed"
      [] e = "dead" -> "dead"

\* MUTANT: the job is released although some outcome is still unknown.
ResolvedEarly(states) == states \cap Completions # {}

\* AfterReconciliation's second result: every outcome is known.
Resolved(states) == states # {} /\ "uncertain" \notin states

\* MUTANT: the job is given a recipient's state.
ReconciledStateName(states) == IF states = {"accepted"} THEN "accepted" ELSE "failed"

\* AfterReconciliation's first result.
ReconciledState(states) == IF states = {"accepted"} THEN "sent" ELSE "failed"

\* ExponentialCappedBackoff.Dead on the job's post-claim attempt count.
Dead(n) == MaxAttempts <= 0 \/ n >= MaxAttempts - 1

---------------------------------------------------------------------------
(* Helpers                                                                  *)

Uncertain(j) == {r \in Recipients : ledger[j][r] = "uncertain"}

\* A send whose outcome is unknown and that no worker may touch.
OnHold(j) == marker[j] # NoMarker /\ state[j] # "processing"

InHandler(w) == pc[w] \in {"auth", "list", "loop", "begin", "net", "complete", "mark"}

Busy(w) == InHandler(w) \/ pc[w] \in {"claimed", "error"}

\* MUTANT: any worker's mark is taken while the claim is live.
LeaseOwnedAnyToken(w) == state[job[w]] = "processing" /\ lease[job[w]] > 0

\* The fencing predicate of every worker write: my token, a claimed job, a
\* live lease.
LeaseOwned(w) ==
    /\ token[job[w]] = held[w]
    /\ state[job[w]] = "processing"
    /\ lease[job[w]] > 0

\* The write to outbound_jobs sets updated_at: every earlier inspection of j is
\* out of date from here on.
Touch(js) == current' = [o \in Operators |-> current[o] /\ inspected[o] \notin js]

\* One of the bounded number of faults happens in this step.
Fault == faults < MaxFaults /\ faults' = faults + 1

\* A call made under the handler's context: it fails once the context is done,
\* and otherwise only by a fault.
CallFails(w) ==
    \/ /\ timer[w] = 0 \/ ~LeaseOwned(w)
       /\ UNCHANGED faults
    \/ timer[w] > 0 /\ LeaseOwned(w) /\ Fault

Goto(w, label) == pc' = [pc EXCEPT ![w] = label]

\* A commit whose reply is lost is applied, and looks like a failure.
Reply(w, label) ==
    \/ Goto(w, label) /\ UNCHANGED faults
    \/ Goto(w, "error") /\ Fault

\* processOne returns and its locals are gone.
Return(w) ==
    /\ pc' = [pc EXCEPT ![w] = "idle"]
    /\ job' = [job EXCEPT ![w] = AnyJob]
    /\ held' = [held EXCEPT ![w] = NoToken]
    /\ snap' = [snap EXCEPT ![w] = [r \in Recipients |-> "pending"]]
    /\ cursor' = [cursor EXCEPT ![w] = 1]
    /\ event' = [event EXCEPT ![w] = "failed"]
    /\ timer' = [timer EXCEPT ![w] = 0]

---------------------------------------------------------------------------
(* Claiming: ClaimOutboundJobs is two statements                            *)

Expired(j) == state[j] = "processing" /\ lease[j] = 0

\* First statement: expired claims with a network operation under way are held
\* for review, never handed to another sender.
HoldExpired(w) ==
    LET lost == {j \in Jobs : Expired(j) /\ marker[j] # NoMarker} IN
    /\ pc[w] = "idle"
    /\ Goto(w, "claim")
    /\ state' = [j \in Jobs |-> IF j \in lost THEN "failed" ELSE state[j]]
    /\ token' = [j \in Jobs |-> IF j \in lost THEN NoToken ELSE token[j]]
    /\ Touch(lost)
    /\ UNCHANGED <<attempts, lease, wait, marker, ledger, authorized, job, held,
                   snap, cursor, event, timer, issued, copies, inspected, seen,
                   faults, requeues>>

\* Second statement's WHERE clause.
Claimable(j) ==
    /\ marker[j] = NoMarker
    /\ \/ state[j] \in {"pending", "retry"} /\ wait[j] = 0
       \/ Expired(j)

Claim(w, j) ==
    /\ pc[w] = "claim"
    /\ Claimable(j)
    /\ Goto(w, "claimed")
    /\ job' = [job EXCEPT ![w] = j]
    /\ state' = [state EXCEPT ![j] = "processing"]
    /\ attempts' = [attempts EXCEPT ![j] = @ + 1]
    /\ issued' = issued + 1
    /\ token' = [token EXCEPT ![j] = issued']
    /\ held' = [held EXCEPT ![w] = issued']
    /\ lease' = [lease EXCEPT ![j] = LeaseTicks]
    /\ timer' = [timer EXCEPT ![w] = StartTicks]
    /\ Touch({j})
    /\ UNCHANGED <<wait, marker, ledger, authorized, snap, cursor, event, copies,
                   inspected, seen, faults, requeues>>

NothingToClaim(w) ==
    /\ pc[w] = "claim"
    /\ \A j \in Jobs : ~Claimable(j)
    /\ Goto(w, "idle")
    /\ UNCHANGED <<jobVars, ledger, authorized, locals, issued, copies, operatorVars, faults, requeues>>

---------------------------------------------------------------------------
(* The handler: processOne and deliverRecipients                            *)

\* context.WithTimeout(ctx, time.Minute)
HandlerTimeout == HandlerTicks

StartHandler(w) ==
    /\ pc[w] = "claimed"
    /\ Goto(w, "auth")
    /\ timer' = [timer EXCEPT ![w] = HandlerTimeout]
    /\ UNCHANGED <<jobVars, ledger, authorized, job, held, snap, cursor, event,
                   issued, copies, operatorVars, faults, requeues>>

\* ValidateJobAuthorization, then MIME and DKIM: a refusal fails the job, any
\* other error is retried.
Authorize(w) ==
    /\ pc[w] = "auth"
    /\ timer[w] > 0
    /\ \/ /\ authorized[job[w]]
          /\ \E next \in {"list", "error"} : pc' = [pc EXCEPT ![w] = next]
          /\ UNCHANGED event
       \/ /\ ~authorized[job[w]]
          /\ Goto(w, "mark")
          /\ event' = [event EXCEPT ![w] = "failed"]
    /\ UNCHANGED <<jobVars, ledger, authorized, job, held, snap, cursor, timer,
                   issued, copies, operatorVars, faults, requeues>>

\* ListOutboundRecipients: the loop works on this snapshot.
List(w) ==
    /\ pc[w] = "list"
    /\ timer[w] > 0
    /\ Goto(w, "loop")
    /\ snap' = [snap EXCEPT ![w] = ledger[job[w]]]
    /\ cursor' = [cursor EXCEPT ![w] = 1]
    /\ UNCHANGED <<jobVars, ledger, authorized, job, held, event, timer, issued,
                   copies, operatorVars, faults, requeues>>

AtRecipient(w) == pc[w] = "loop" /\ cursor[w] \in Recipients

SkipSettled(w) ==
    /\ AtRecipient(w)
    /\ snap[w][cursor[w]] \in Settled
    /\ cursor' = [cursor EXCEPT ![w] = @ + 1]
    /\ UNCHANGED <<jobVars, ledger, authorized, pc, job, held, snap, event, timer,
                   issued, copies, operatorVars, faults, requeues>>

\* Authority is read again before every recipient.  An uncertain outcome in the
\* snapshot, or a refusal, fails the job.
Recheck(w) ==
    LET refused == snap[w][cursor[w]] = "uncertain" \/ ~authorized[job[w]] IN
    /\ AtRecipient(w)
    /\ snap[w][cursor[w]] \notin Settled
    /\ timer[w] > 0
    /\ pc' = [pc EXCEPT ![w] = IF refused THEN "mark" ELSE "begin"]
    /\ event' = [event EXCEPT ![w] = IF refused THEN "failed" ELSE @]
    /\ UNCHANGED <<jobVars, ledger, authorized, job, held, snap, cursor, timer,
                   issued, copies, operatorVars, faults, requeues>>

\* MUTANT: the marker is not recorded before the network is used.
BegunMarkerUnset(r) == NoMarker

\* in_flight_domain = 'rcpt:<address>'
BegunMarker(r) == r

\* BeginOutboundRecipient: uncertainty is recorded before the network is used.
Begin(w) ==
    LET j == job[w]
        r == cursor[w] IN
    /\ pc[w] = "begin"
    /\ timer[w] > 0
    /\ LeaseOwned(w)
    /\ marker[j] = NoMarker
    /\ ledger[j][r] \in RecipientSources("uncertain")
    /\ ledger' = [ledger EXCEPT ![j][r] = "uncertain"]
    /\ marker' = [marker EXCEPT ![j] = BegunMarker(r)]
    /\ Touch({j})
    /\ Reply(w, "net")
    /\ UNCHANGED <<state, attempts, token, lease, wait, authorized, job, held, snap,
                   cursor, event, timer, issued, copies, inspected, seen, requeues>>

\* MUTANT: a final reply that was never read is taken for a rejection.
OutcomeGuessed(reply) == IF reply = "none" THEN "temporary" ELSE reply

\* What the worker makes of the next hop's answer: only a 4xx or 5xx reply, or a
\* failure before the end of DATA, proves that the mail was not accepted.
Outcome(reply) == IF reply = "none" THEN "uncertain" ELSE reply

\* The suppression check and adapter.Deliver.  The next hop takes the mail or
\* not, and its final reply may be lost.  Past the handler's deadline the call
\* ends before the next hop has the message.
Deliver(w) ==
    LET j == job[w]
        r == cursor[w] IN
    /\ pc[w] = "net"
    /\ \E taken \in BOOLEAN, reply \in Completions \cup {"none"} :
          /\ taken => timer[w] > 0 /\ reply \in {"accepted", "none"}
          /\ reply = "accepted" => taken
          /\ copies' = [copies EXCEPT ![j][r] = IF taken THEN @ + 1 ELSE @]
          /\ snap' = [snap EXCEPT ![w][r] = Outcome(reply)]
          /\ Goto(w, IF Outcome(reply) = "uncertain" THEN "mark" ELSE "complete")
    /\ event' = [event EXCEPT ![w] = "failed"]
    /\ UNCHANGED <<jobVars, ledger, authorized, job, held, cursor, timer, issued,
                   operatorVars, faults, requeues>>

\* CompleteOutboundRecipient
Complete(w) ==
    LET j == job[w]
        r == cursor[w] IN
    /\ pc[w] = "complete"
    /\ timer[w] > 0
    /\ LeaseOwned(w)
    /\ marker[j] = r
    /\ ledger[j][r] \in RecipientSources(snap[w][r])
    /\ marker' = [marker EXCEPT ![j] = NoMarker]
    /\ ledger' = [ledger EXCEPT ![j][r] = snap[w][r]]
    /\ cursor' = [cursor EXCEPT ![w] = @ + 1]
    /\ Touch({j})
    /\ Reply(w, "loop")
    /\ UNCHANGED <<state, attempts, token, lease, wait, authorized, job, held, snap,
                   event, timer, issued, copies, inspected, seen, requeues>>

\* MUTANT: rejected recipients do not count against the job.
VerdictSent(outcomes) == "sent"

\* The mark deliverRecipients ends with, when no recipient is left to retry.
Verdict(outcomes) == IF "permanent" \in outcomes THEN "failed" ELSE "sent"

\* The loop has ended; the snapshot now holds each recipient's outcome.
Conclude(w) ==
    LET outcomes == {snap[w][r] : r \in Recipients} IN
    /\ pc[w] = "loop"
    /\ cursor[w] > NumRecipients
    /\ IF "temporary" \in outcomes
       THEN Goto(w, "error") /\ UNCHANGED event
       ELSE /\ Goto(w, "mark")
            /\ event' = [event EXCEPT ![w] = Verdict(outcomes)]
    /\ UNCHANGED <<jobVars, ledger, authorized, job, held, snap, cursor, timer,
                   issued, copies, operatorVars, faults, requeues>>

\* Any call of the handler may fail: its error goes to the retry policy.
HandlerFails(w) ==
    /\ \/ pc[w] \in {"auth", "list", "begin", "complete", "mark"}
       \/ AtRecipient(w) /\ snap[w][cursor[w]] \notin Settled
    /\ CallFails(w)
    /\ Goto(w, "error")
    /\ UNCHANGED <<jobVars, ledger, authorized, locals, issued, copies, operatorVars, requeues>>

---------------------------------------------------------------------------
(* Finalization                                                             *)

\* finalizeOutbound: one guarded UPDATE.
Finalize(w, e) ==
    LET j == job[w] IN
    /\ LeaseOwned(w)
    /\ e = "sent" => marker[j] = NoMarker
    /\ state' = [state EXCEPT ![j] = FinalState(e, marker[j] # NoMarker)]
    /\ token' = [token EXCEPT ![j] = NoToken]
    /\ lease' = [lease EXCEPT ![j] = 0]
    /\ wait' = [wait EXCEPT ![j] = IF e = "retry" THEN RetryTicks ELSE @]
    /\ Touch({j})
    /\ UNCHANGED <<attempts, marker, ledger, authorized, issued, copies, inspected,
                   seen, requeues>>

\* MarkOutboundJobSent or MarkOutboundJobFailed from inside the handler.
Mark(w) ==
    /\ pc[w] = "mark"
    /\ timer[w] > 0
    /\ Finalize(w, event[w])
    /\ \/ Return(w) /\ UNCHANGED faults
       \/ Goto(w, "error") /\ Fault /\ UNCHANGED locals

\* The workqueue's mark of a failed handler, under the runner's own context.
MarkError(w) ==
    /\ pc[w] = "error"
    /\ Finalize(w, IF Dead(attempts[job[w]]) THEN "dead" ELSE "retry")
    /\ Return(w)
    /\ UNCHANGED faults

\* The same mark after the lease was lost: logged and skipped.
MarkErrorLost(w) ==
    /\ pc[w] = "error"
    /\ ~LeaseOwned(w)
    /\ Return(w)
    /\ UNCHANGED <<jobVars, ledger, authorized, issued, copies, operatorVars, faults,
                   requeues>>

\* The process is killed, its runner is cancelled (no mark is made then), or
\* the workqueue's own mark fails.
Crash(w) ==
    /\ Busy(w)
    /\ Fault
    /\ Return(w)
    /\ UNCHANGED <<jobVars, ledger, authorized, issued, copies, operatorVars, requeues>>

---------------------------------------------------------------------------
(* Administrators                                                           *)

\* InspectOutboundRecovery gives the job's version; the operator also learns
\* from the next hop which recipients have the mail.
Inspect(o, j) ==
    /\ inspected' = [inspected EXCEPT ![o] = j]
    /\ seen' = [seen EXCEPT ![o] = {r \in Recipients : copies[j][r] > 0}]
    /\ current' = [current EXCEPT ![o] = TRUE]
    /\ UNCHANGED <<jobVars, ledger, authorized, workerVars, issued, copies, faults,
                   requeues>>

\* MUTANT: the outcomes are applied whatever happened since the inspection.
VersionUnchecked(o) == TRUE

\* updated.Equal(version)
VersionMatches(o) == current[o]

\* The ledger of j with the operator's results written over it.
Reconciled(j, chosen, result) ==
    [r \in Recipients |-> IF r \in chosen THEN result[r] ELSE ledger[j][r]]

\* ReconcileOutbound: explicit outcomes, true to what was seen, for some of the
\* uncertain recipients of a job no worker is processing.
Reconciles(o, j, chosen, result) ==
    LET after == Reconciled(j, chosen, result)
        states == {after[r] : r \in Recipients} IN
    /\ inspected[o] = j
    /\ chosen # {}
    /\ \A r \in chosen : result[r] = "accepted" <=> r \in seen[o]
    /\ state[j] # "processing"
    /\ VersionMatches(o)
    /\ ledger' = [ledger EXCEPT ![j] = after]
    /\ IF Resolved(states)
       THEN /\ marker' = [marker EXCEPT ![j] = NoMarker]
            /\ state' = [state EXCEPT ![j] = ReconciledState(states)]
       ELSE UNCHANGED <<marker, state>>
    /\ Touch({j})
    /\ UNCHANGED <<attempts, token, lease, wait, authorized, workerVars, issued,
                   copies, inspected, seen, faults, requeues>>

Reconcile(o) ==
    \E j \in Jobs : \E chosen \in SUBSET Uncertain(j) :
    \E result \in [chosen -> Completions] : Reconciles(o, j, chosen, result)

\* RequeueOutboundJobAuthorized: attempts are kept.
Requeue(j) ==
    /\ requeues < MaxRequeues
    /\ requeues' = requeues + 1
    /\ state[j] \in {"dead", "failed"}
    /\ marker[j] = NoMarker
    /\ authorized[j]
    /\ Uncertain(j) = {}
    /\ state' = [state EXCEPT ![j] = "pending"]
    /\ wait' = [wait EXCEPT ![j] = 0]
    /\ lease' = [lease EXCEPT ![j] = 0]
    /\ token' = [token EXCEPT ![j] = NoToken]
    /\ Touch({j})
    /\ UNCHANGED <<attempts, marker, ledger, authorized, workerVars, issued, copies,
                   inspected, seen, faults>>

\* Anything ValidateJobAuthorization reads changes: user, key, mailbox, zone...
ChangeAuthority(j) ==
    /\ authorized' = [authorized EXCEPT ![j] = ~@]
    /\ UNCHANGED <<jobVars, ledger, workerVars, issued, copies, operatorVars, faults,
                   requeues>>

\* What applyOffboarding cancels: queued work with no unresolved outcome.
Cancellable(j) ==
    /\ state[j] \in {"pending", "retry"}
    /\ marker[j] = NoMarker
    /\ Uncertain(j) = {}

\* applyOffboarding, as far as it concerns the queue.
Offboard ==
    LET cancelled == {j \in Departing : Cancellable(j)} IN
    /\ \E j \in Departing : authorized[j]
    /\ state' = [j \in Jobs |-> IF j \in cancelled THEN "cancelled" ELSE state[j]]
    /\ token' = [j \in Jobs |-> IF j \in cancelled THEN NoToken ELSE token[j]]
    /\ lease' = [j \in Jobs |-> IF j \in cancelled THEN 0 ELSE lease[j]]
    /\ authorized' = [j \in Jobs |-> authorized[j] /\ j \notin Departing]
    /\ Touch(cancelled)
    /\ UNCHANGED <<attempts, wait, marker, ledger, workerVars, issued, copies,
                   inspected, seen, faults, requeues>>

---------------------------------------------------------------------------
(* Time                                                                     *)

CountDown(f) == [x \in DOMAIN f |-> IF f[x] > 0 THEN f[x] - 1 ELSE 0]

\* The lease of a worker still at its job runs out: one of the faults.
Lapses == \E w \in Workers : Busy(w) /\ LeaseOwned(w) /\ lease[job[w]] = 1

\* The claim's reply reaches the worker within StartTicks.
Tick ==
    /\ \E j \in Jobs : lease[j] > 0 \/ wait[j] > 0
    /\ \A w \in Workers : pc[w] = "claimed" => timer[w] > 0
    /\ lease' = CountDown(lease)
    /\ wait' = CountDown(wait)
    /\ timer' = CountDown(timer)
    /\ IF Lapses THEN Fault ELSE UNCHANGED faults
    /\ UNCHANGED <<state, attempts, token, marker, ledger, authorized, pc, job, held,
                   snap, cursor, event, issued, copies, operatorVars, requeues>>

---------------------------------------------------------------------------
(* Specification                                                            *)

\* A row inserted by enqueueOutboundJobValidated.
FreshJob(j) ==
    /\ state[j] = "pending"
    /\ marker[j] = NoMarker
    /\ attempts[j] = 0
    /\ \A r \in Recipients : ledger[j][r] = "pending" /\ copies[j][r] = 0

\* A row migration 00014 held: what was delivered is known per recipient, or not.
HeldLegacyJob(j) ==
    /\ state[j] \in {"failed", "dead", "cancelled"}
    /\ marker[j] = LegacyMarker
    /\ attempts[j] = 1
    /\ \A r \in Recipients :
          /\ ledger[j][r] \in {"accepted", "uncertain"}
          /\ ledger[j][r] = "accepted" => copies[j][r] = 1

Init ==
    /\ state \in [Jobs -> {"pending", "failed", "dead", "cancelled"}]
    /\ attempts \in [Jobs -> 0..1]
    /\ marker \in [Jobs -> {NoMarker, LegacyMarker}]
    /\ ledger \in [Jobs -> [Recipients -> {"pending", "accepted", "uncertain"}]]
    /\ copies \in [Jobs -> [Recipients -> 0..1]]
    /\ \A j \in Jobs : IF j \in LegacyJobs THEN HeldLegacyJob(j) ELSE FreshJob(j)
    /\ token = [j \in Jobs |-> NoToken]
    /\ lease = [j \in Jobs |-> 0]
    /\ wait = [j \in Jobs |-> 0]
    /\ authorized = [j \in Jobs |-> TRUE]
    /\ pc = [w \in Workers |-> "idle"]
    /\ job = [w \in Workers |-> AnyJob]
    /\ held = [w \in Workers |-> NoToken]
    /\ snap = [w \in Workers |-> [r \in Recipients |-> "pending"]]
    /\ cursor = [w \in Workers |-> 1]
    /\ event = [w \in Workers |-> "failed"]
    /\ timer = [w \in Workers |-> 0]
    /\ issued = 0
    /\ inspected = [o \in Operators |-> AnyJob]
    /\ seen = [o \in Operators |-> {}]
    /\ current = [o \in Operators |-> FALSE]
    /\ faults = 0
    /\ requeues = 0

Worker(w) ==
    \/ HoldExpired(w)
    \/ \E j \in Jobs : Claim(w, j)
    \/ NothingToClaim(w)
    \/ StartHandler(w)
    \/ Authorize(w)
    \/ List(w)
    \/ SkipSettled(w)
    \/ Recheck(w)
    \/ Begin(w)
    \/ Deliver(w)
    \/ Complete(w)
    \/ Conclude(w)
    \/ HandlerFails(w)
    \/ Mark(w)
    \/ MarkError(w)
    \/ MarkErrorLost(w)

Administrator ==
    \/ \E o \in Operators, j \in Jobs : Inspect(o, j)
    \/ \E o \in Operators : Reconcile(o)
    \/ \E j \in Jobs : Requeue(j) \/ ChangeAuthority(j)
    \/ Offboard

Next ==
    \/ \E w \in Workers : Worker(w) \/ Crash(w)
    \/ Administrator
    \/ Tick

Spec == Init /\ [][Next]_vars

\* A runner polls, and a handler runs, for as long as the process lives; the
\* database clock advances.  Nothing obliges an administrator or a fault.
FairSpec == Spec /\ (\A w \in Workers : WF_vars(Worker(w))) /\ WF_vars(Tick)

---------------------------------------------------------------------------
(* Properties                                                               *)

TypeOK ==
    /\ state \in [Jobs -> JobStates]
    /\ attempts \in [Jobs -> Nat]
    /\ token \in [Jobs -> Nat]
    /\ lease \in [Jobs -> Nat]
    /\ wait \in [Jobs -> Nat]
    /\ marker \in [Jobs -> Markers]
    /\ ledger \in [Jobs -> [Recipients -> RecipientStates]]
    /\ authorized \in [Jobs -> BOOLEAN]
    /\ pc \in [Workers -> {"idle", "claim", "claimed", "auth", "list", "loop", "begin",
                           "net", "complete", "mark", "error"}]
    /\ job \in [Workers -> Jobs]
    /\ held \in [Workers -> Nat]
    /\ snap \in [Workers -> [Recipients -> RecipientStates]]
    /\ cursor \in [Workers -> 1..(NumRecipients + 1)]
    /\ event \in [Workers -> {"sent", "failed"}]
    /\ timer \in [Workers -> Nat]
    /\ issued \in Nat
    /\ copies \in [Jobs -> [Recipients -> Nat]]
    /\ inspected \in [Operators -> Jobs]
    /\ seen \in [Operators -> SUBSET Recipients]
    /\ current \in [Operators -> BOOLEAN]
    /\ faults \in Nat
    /\ requeues \in Nat

\* No recipient gets a second copy of a message, whatever crashes, lapses,
\* retries and reconciliations happen (BeginOutboundRecipient, ClaimOutboundJobs
\* and ReconcileOutbound together).
AtMostOneCopy == \A j \in Jobs, r \in Recipients : copies[j][r] <= 1

\* The ledger never claims what the next hop did not do: an accepted recipient
\* has the mail, a pending, temporary or permanent one has not.
LedgerIsTrue ==
    \A j \in Jobs, r \in Recipients :
       /\ ledger[j][r] = "accepted" => copies[j][r] = 1
       /\ ledger[j][r] \in {"pending", "temporary", "permanent"} => copies[j][r] = 0

\* A job reported as sent has reached every recipient exactly once
\* (finalizeOutbound with FinishSent, AfterReconciliation).
SentIsDelivered ==
    \A j \in Jobs : state[j] = "sent" => \A r \in Recipients : copies[j][r] = 1

\* in_flight_domain and the ledger agree: no marker, no unknown outcome; a
\* recipient's marker, that one unknown outcome and no other.
MarkerMatchesLedger ==
    \A j \in Jobs :
       /\ marker[j] = NoMarker => Uncertain(j) = {}
       /\ marker[j] \in Recipients => Uncertain(j) = {marker[j]}

\* While a worker may still hand mail to the network, the job is its own: no
\* other claim, hold, cancellation or reconciliation has got in between
\* (one-minute handler within the five-minute lease).
SenderOwnsJob ==
    \A w \in Workers :
       pc[w] = "net" /\ timer[w] > 0 => LeaseOwned(w) /\ marker[job[w]] = cursor[w]

HoldEndsWithEvidence ==
    \A j \in Jobs :
       OnHold(j) /\ ~OnHold(j)' =>
          /\ state'[j] \in {"sent", "failed"}
          /\ \A r \in Recipients : ledger'[j][r] # "uncertain"

\* A job on hold leaves it only with every outcome known, and then into sent or
\* failed: no claim, retry or offboarding releases it.
HoldNeedsEvidence == [][HoldEndsWithEvidence]_vars

ClaimEndsWithOwner ==
    \A j \in Jobs :
       state[j] = "processing" /\ lease[j] > 0 /\ token'[j] # token[j] =>
          \E w \in Workers : held[w] = token[j] /\ pc'[w] # pc[w]

\* A live claim is ended only by the worker that holds its token: a worker that
\* was fenced out writes nothing.
LiveClaimIsFenced == [][ClaimEndsWithOwner]_vars

---------------------------------------------------------------------------
(* The inductive invariant                                                  *)

\* No two workers hold the same delivery token.
ClaimsDistinct ==
    /\ \A w \in Workers : held[w] <= issued
    /\ \A v, w \in Workers : Busy(v) /\ Busy(w) /\ held[v] = held[w] => v = w

\* As long as a worker's context is live, so is its lease.
ContextWithinLease(w) ==
    /\ pc[w] = "claimed" =>
          LeaseOwned(w) /\ lease[job[w]] >= timer[w] + HandlerTicks
    /\ InHandler(w) /\ timer[w] > 0 =>
          LeaseOwned(w) /\ lease[job[w]] >= timer[w]

\* What a worker believes of the ledger, while its context is live.
SnapshotIsCurrent(w) ==
    /\ pc[w] \in {"begin", "net", "complete"} => cursor[w] \in Recipients
    /\ timer[w] > 0 =>
       /\ pc[w] \in {"loop", "begin"} =>
             \A r \in Recipients : snap[w][r] = ledger[job[w]][r]
       /\ pc[w] \in {"net", "complete"} =>
             \A r \in Recipients \ {cursor[w]} : snap[w][r] = ledger[job[w]][r]
       /\ pc[w] \in {"loop", "begin", "net", "complete"} =>
             \A r \in Recipients : r < cursor[w] => snap[w][r] \in Completions
       /\ pc[w] = "net" =>
             marker[job[w]] = cursor[w] /\ copies[job[w]][cursor[w]] = 0
       /\ pc[w] = "complete" =>
             /\ marker[job[w]] = cursor[w]
             /\ snap[w][cursor[w]] \in Completions
             /\ snap[w][cursor[w]] = "accepted" <=> copies[job[w]][cursor[w]] = 1
       /\ pc[w] = "mark" /\ event[w] = "sent" =>
             \A r \in Recipients : ledger[job[w]][r] = "accepted"

SentIsAccepted ==
    \A j \in Jobs : state[j] = "sent" => \A r \in Recipients : ledger[j][r] = "accepted"

\* An inspection of a job at rest tells the truth until the job is written.
EvidenceIsCurrent(o) ==
    current[o] /\ state[inspected[o]] # "processing" =>
       \A r \in Recipients : r \in seen[o] <=> copies[inspected[o]][r] = 1

\* The inductive invariant behind the safety properties above: it ties what each
\* worker and operator believes to the ledger and to the next hop.
IInv ==
    /\ TypeOK
    /\ ClaimsDistinct
    /\ \A w \in Workers : ContextWithinLease(w)
    /\ \A w \in Workers : SnapshotIsCurrent(w)
    /\ MarkerMatchesLedger
    /\ LedgerIsTrue
    /\ AtMostOneCopy
    /\ SentIsAccepted
    /\ \A o \in Operators : EvidenceIsCurrent(o)

---------------------------------------------------------------------------
(* Refinement, disagreements with the documentation, and liveness           *)

\* The detailed protocol keeps the promise of RecipientOutcome.
Promise == INSTANCE RecipientOutcome WITH Jobs <- Jobs, Recipients <- Recipients,
                                          ledger <- ledger, copies <- copies
KeepsPromise == Promise!Spec

\* A job dies only when its attempts are used up: "A job is dead once the next
\* attempt would exceed MaxAttempts" (workqueue/worker.go:119-120).
DeadWhenExhausted ==
    [][\A j \in Jobs :
          state[j] # "dead" /\ state'[j] = "dead" => attempts[j] + 1 > MaxAttempts]_vars

\* A held failure can be lifted by reconciling an unknown outcome: the marker
\* forbids a retry "until the existing audited operator reconciliation confirms
\* the outcomes" (migration 00014, lines 29-31).
HoldCanBeReconciled ==
    \A j \in Jobs : OnHold(j) /\ state[j] = "failed" => Uncertain(j) # {}

\* Once faults and manual retries have stopped, every queued job settles.
QueuedJobsSettle ==
    \A j \in Jobs : state[j] \in Queued ~> state[j] \in JobStates \ Queued
=============================================================================

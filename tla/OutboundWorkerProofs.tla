------------------------ MODULE OutboundWorkerProofs ------------------------
(***************************************************************************)
(* Proofs about the outbound worker: about OutboundDelivery, for any jobs, *)
(* recipients, workers, operators, bounds and lease length that            *)
(* TimingAssumption and BoundsAssumption allow, and about WorkerLifecycle, *)
(* for any runners, stoppers, generations and jobs per batch.  One lemma   *)
(* per conjunct of IInv says that every step of a delivery preserves it,   *)
(* one lemma per group of actions that a step of the lifecycle preserves   *)
(* LInv; the theorems follow from these two invariants.                    *)
(***************************************************************************)
EXTENDS OutboundDelivery, WorkerLifecycle, TLAPS

\* A cursor at a recipient, and the one after it, are positions of the loop.
LEMMA CursorRange ==
    ASSUME NEW c \in Recipients
    PROVE  c \in 1..(NumRecipients + 1) /\ c + 1 \in 1..(NumRecipients + 1)
  BY BoundsAssumption DEF Recipients

\* An attempt starts from pending or temporary, and ends an uncertain outcome.
LEMMA AttemptSources ==
    /\ RecipientSources("uncertain") = {"pending", "temporary"}
    /\ \A s \in Completions : RecipientSources(s) = {"uncertain"}
  BY DEF RecipientSources, Completions

\* The job an idle worker's local names is a job.
LEMMA AnyJobInJobs == AnyJob \in Jobs
  BY BoundsAssumption DEF AnyJob

---------------------------------------------------------------------------
(* One lemma per conjunct of the invariant                                  *)

\* Every step keeps the types.
LEMMA TypeStep ==
    ASSUME IInv, [Next]_vars
    PROVE  TypeOK'
<1>1. TypeOK /\ \A w \in Workers : SnapshotIsCurrent(w)
  BY DEF IInv
<1>2. ASSUME NEW w \in Workers, HoldExpired(w) PROVE TypeOK'
  BY <1>1, <1>2 DEF TypeOK, JobStates, NoToken, HoldExpired, Touch, Goto, Expired
<1>3. ASSUME NEW w \in Workers, NEW j \in Jobs, Claim(w, j) PROVE TypeOK'
  BY <1>1, <1>3, TimingAssumption
  DEF TypeOK, JobStates, Claim, Touch, Goto, Claimable, Expired
<1>4. ASSUME NEW w \in Workers, NothingToClaim(w) PROVE TypeOK'
  BY <1>1, <1>4 DEF TypeOK, NothingToClaim, Goto, jobVars, locals, operatorVars
<1>5. ASSUME NEW w \in Workers, StartHandler(w) PROVE TypeOK'
  BY <1>1, <1>5, TimingAssumption
  DEF TypeOK, StartHandler, Goto, HandlerTimeout, jobVars, operatorVars
<1>6. ASSUME NEW w \in Workers, Authorize(w) PROVE TypeOK'
  BY <1>1, <1>6 DEF TypeOK, Authorize, Goto, jobVars, operatorVars
<1>7. ASSUME NEW w \in Workers, List(w) PROVE TypeOK'
  BY <1>1, <1>7, BoundsAssumption DEF TypeOK, List, Goto, jobVars, operatorVars
<1>8. ASSUME NEW w \in Workers, SkipSettled(w) PROVE TypeOK'
  BY <1>1, <1>8, CursorRange DEF TypeOK, SkipSettled, AtRecipient, jobVars, operatorVars
<1>9. ASSUME NEW w \in Workers, Recheck(w) PROVE TypeOK'
  BY <1>1, <1>9 DEF TypeOK, Recheck, AtRecipient, jobVars, operatorVars
<1>10. ASSUME NEW w \in Workers, Begin(w) PROVE TypeOK'
  <2>1. cursor[w] \in Recipients /\ job[w] \in Jobs
    BY <1>1, <1>10 DEF TypeOK, SnapshotIsCurrent, Begin
  <2>2. ledger' \in [Jobs -> [Recipients -> RecipientStates]]
    BY <1>1, <1>10, <2>1 DEF TypeOK, Begin, RecipientStates
  <2>3. marker' \in [Jobs -> Markers]
    BY <1>1, <1>10, <2>1 DEF TypeOK, Begin, BegunMarker, Markers
  <2>4. current' \in [Operators -> BOOLEAN]
    BY <1>1, <1>10 DEF TypeOK, Begin, Touch
  <2>5. Reply(w, "net")
    BY <1>10 DEF Begin
  <2>6. pc' \in [Workers -> {"idle", "claim", "claimed", "auth", "list", "loop", "begin",
                            "net", "complete", "mark", "error"}]
    BY <1>1, <2>5 DEF TypeOK, Reply, Goto
  <2>7. faults' \in Nat
    BY <1>1, <2>5 DEF TypeOK, Reply, Fault
  <2>. QED
    BY <1>1, <1>10, <2>2, <2>3, <2>4, <2>6, <2>7 DEF TypeOK, Begin
<1>11. ASSUME NEW w \in Workers, Deliver(w) PROVE TypeOK'
  <2>1. cursor[w] \in Recipients /\ job[w] \in Jobs
    BY <1>1, <1>11 DEF TypeOK, SnapshotIsCurrent, Deliver
  <2>2. copies' \in [Jobs -> [Recipients -> Nat]]
    BY <1>1, <1>11, <2>1 DEF TypeOK, Deliver
  <2>3. snap' \in [Workers -> [Recipients -> RecipientStates]]
    BY <1>1, <1>11, <2>1 DEF TypeOK, Deliver, Outcome, Completions, RecipientStates
  <2>4. pc' \in [Workers -> {"idle", "claim", "claimed", "auth", "list", "loop", "begin",
                            "net", "complete", "mark", "error"}]
    BY <1>1, <1>11 DEF TypeOK, Deliver, Goto
  <2>. QED
    BY <1>1, <1>11, <2>2, <2>3, <2>4 DEF TypeOK, Deliver, jobVars, operatorVars
<1>12. ASSUME NEW w \in Workers, Complete(w) PROVE TypeOK'
  <2>1. cursor[w] \in Recipients /\ job[w] \in Jobs
    BY <1>1, <1>12 DEF TypeOK, SnapshotIsCurrent, Complete
  <2>2. ledger' \in [Jobs -> [Recipients -> RecipientStates]]
    BY <1>1, <1>12, <2>1 DEF TypeOK, Complete
  <2>3. marker' \in [Jobs -> Markers] /\ cursor' \in [Workers -> 1..(NumRecipients + 1)]
    BY <1>1, <1>12, <2>1, CursorRange DEF TypeOK, Complete, Markers
  <2>4. current' \in [Operators -> BOOLEAN]
    BY <1>1, <1>12 DEF TypeOK, Complete, Touch
  <2>5. Reply(w, "loop")
    BY <1>12 DEF Complete
  <2>6. pc' \in [Workers -> {"idle", "claim", "claimed", "auth", "list", "loop", "begin",
                            "net", "complete", "mark", "error"}]
    BY <1>1, <2>5 DEF TypeOK, Reply, Goto
  <2>7. faults' \in Nat
    BY <1>1, <2>5 DEF TypeOK, Reply, Fault
  <2>. QED
    BY <1>1, <1>12, <2>2, <2>3, <2>4, <2>6, <2>7 DEF TypeOK, Complete
<1>13. ASSUME NEW w \in Workers, Conclude(w) PROVE TypeOK'
  BY <1>1, <1>13 DEF TypeOK, Conclude, Goto, Verdict, jobVars, operatorVars
<1>14. ASSUME NEW w \in Workers, HandlerFails(w) PROVE TypeOK'
  BY <1>1, <1>14
  DEF TypeOK, HandlerFails, AtRecipient, CallFails, Fault, Goto, jobVars, locals,
      operatorVars
<1>15. ASSUME NEW w \in Workers, Mark(w) PROVE TypeOK'
  <2>1. job[w] \in Jobs
    BY <1>1 DEF TypeOK
  <2>2. state' \in [Jobs -> JobStates] /\ token' \in [Jobs -> Nat]
    BY <1>1, <1>15, <2>1 DEF TypeOK, Mark, Finalize, FinalState, JobStates, NoToken
  <2>3. lease' \in [Jobs -> Nat] /\ wait' \in [Jobs -> Nat]
    BY <1>1, <1>15, <2>1, TimingAssumption DEF TypeOK, Mark, Finalize
  <2>4. CASE Return(w) /\ UNCHANGED faults
    BY <1>1, <1>15, <2>2, <2>3, <2>4, AnyJobInJobs, BoundsAssumption
    DEF TypeOK, Mark, Finalize, Touch, Return, NoToken, RecipientStates
  <2>5. CASE Goto(w, "error") /\ Fault /\ UNCHANGED locals
    BY <1>1, <1>15, <2>2, <2>3, <2>5 DEF TypeOK, Mark, Finalize, Touch, Goto, Fault, locals
  <2>. QED BY <1>15, <2>4, <2>5 DEF Mark
<1>16. ASSUME NEW w \in Workers, MarkError(w) PROVE TypeOK'
  BY <1>1, <1>16, BoundsAssumption, TimingAssumption, AnyJobInJobs
  DEF TypeOK, JobStates, NoToken, RecipientStates, MarkError, Finalize, Touch, Return,
      FinalState
<1>17. ASSUME NEW w \in Workers, MarkErrorLost(w) PROVE TypeOK'
  BY <1>1, <1>17, BoundsAssumption, AnyJobInJobs
  DEF TypeOK, NoToken, RecipientStates, MarkErrorLost, Return, jobVars, operatorVars
<1>18. ASSUME NEW w \in Workers, Crash(w) PROVE TypeOK'
  BY <1>1, <1>18, BoundsAssumption, AnyJobInJobs
  DEF TypeOK, NoToken, RecipientStates, Crash, Fault, Return, jobVars, operatorVars
<1>19. ASSUME NEW o \in Operators, NEW j \in Jobs, Inspect(o, j) PROVE TypeOK'
  BY <1>1, <1>19 DEF TypeOK, Inspect, jobVars, workerVars, locals
<1>20. ASSUME NEW o \in Operators, Reconcile(o) PROVE TypeOK'
  <2>1. PICK j \in Jobs : \E chosen \in SUBSET Uncertain(j) :
           \E result \in [chosen -> Completions] : Reconciles(o, j, chosen, result)
    BY <1>20 DEF Reconcile
  <2>2. PICK chosen \in SUBSET Uncertain(j) :
           \E result \in [chosen -> Completions] : Reconciles(o, j, chosen, result)
    BY <2>1
  <2>3. PICK result \in [chosen -> Completions] : Reconciles(o, j, chosen, result)
    BY <2>2
  <2>4. ledger' \in [Jobs -> [Recipients -> RecipientStates]]
    BY <1>1, <2>3 DEF TypeOK, RecipientStates, Completions, Reconciles, Reconciled
  <2>5. marker' \in [Jobs -> Markers] /\ state' \in [Jobs -> JobStates]
    BY <1>1, <2>3 DEF TypeOK, Markers, JobStates, ReconciledState, Reconciles
  <2>6. current' \in [Operators -> BOOLEAN]
    BY <1>1, <2>3 DEF TypeOK, Touch, Reconciles
  <2>. QED
    BY <1>1, <2>3, <2>4, <2>5, <2>6 DEF TypeOK, Reconciles, workerVars, locals
<1>21. ASSUME NEW j \in Jobs, Requeue(j) PROVE TypeOK'
  BY <1>1, <1>21 DEF TypeOK, JobStates, NoToken, Requeue, Touch, workerVars, locals
<1>22. ASSUME NEW j \in Jobs, ChangeAuthority(j) PROVE TypeOK'
  BY <1>1, <1>22 DEF TypeOK, ChangeAuthority, jobVars, workerVars, operatorVars, locals
<1>23. ASSUME Offboard PROVE TypeOK'
  BY <1>1, <1>23 DEF TypeOK, JobStates, NoToken, Offboard, Touch, workerVars, locals
<1>24. ASSUME Tick PROVE TypeOK'
  BY <1>1, <1>24 DEF TypeOK, Tick, CountDown, Fault, operatorVars
<1>25. ASSUME UNCHANGED vars PROVE TypeOK'
  BY <1>1, <1>25 DEF TypeOK, vars, jobVars, workerVars, locals, operatorVars
<1>. QED
  BY <1>2, <1>3, <1>4, <1>5, <1>6, <1>7, <1>8, <1>9, <1>10, <1>11, <1>12, <1>13, <1>14,
     <1>15, <1>16, <1>17, <1>18, <1>19, <1>20, <1>21, <1>22, <1>23, <1>24, <1>25
  DEF Next, Worker, Administrator

\* A claim's token is new; nothing else changes who holds which token.
LEMMA ClaimsStep ==
    ASSUME IInv, [Next]_vars
    PROVE  ClaimsDistinct'
<1>1. TypeOK /\ ClaimsDistinct
  BY DEF IInv
<1>2. ASSUME NEW w \in Workers, HoldExpired(w) PROVE ClaimsDistinct'
  BY <1>1, <1>2
  DEF TypeOK, ClaimsDistinct, Busy, InHandler, HoldExpired, Touch, Goto, Expired
<1>3. ASSUME NEW w \in Workers, NEW j \in Jobs, Claim(w, j) PROVE ClaimsDistinct'
  BY <1>1, <1>3
  DEF TypeOK, ClaimsDistinct, Busy, InHandler, Claim, Touch, Goto, Claimable, Expired
<1>4. ASSUME NEW w \in Workers, NothingToClaim(w) PROVE ClaimsDistinct'
  BY <1>1, <1>4
  DEF TypeOK, ClaimsDistinct, Busy, InHandler, NothingToClaim, Goto, jobVars, locals,
      operatorVars
<1>5. ASSUME NEW w \in Workers, StartHandler(w) PROVE ClaimsDistinct'
  BY <1>1, <1>5
  DEF TypeOK, ClaimsDistinct, Busy, InHandler, StartHandler, Goto, HandlerTimeout,
      jobVars, operatorVars
<1>6. ASSUME NEW w \in Workers, Authorize(w) PROVE ClaimsDistinct'
  BY <1>1, <1>6
  DEF TypeOK, ClaimsDistinct, Busy, InHandler, Authorize, Goto, jobVars, operatorVars
<1>7. ASSUME NEW w \in Workers, List(w) PROVE ClaimsDistinct'
  BY <1>1, <1>7
  DEF TypeOK, ClaimsDistinct, Busy, InHandler, List, Goto, jobVars, operatorVars
<1>8. ASSUME NEW w \in Workers, SkipSettled(w) PROVE ClaimsDistinct'
  BY <1>1, <1>8
  DEF TypeOK, ClaimsDistinct, Busy, InHandler, SkipSettled, AtRecipient, jobVars,
      operatorVars
<1>9. ASSUME NEW w \in Workers, Recheck(w) PROVE ClaimsDistinct'
  BY <1>1, <1>9
  DEF TypeOK, ClaimsDistinct, Busy, InHandler, Recheck, AtRecipient, jobVars,
      operatorVars
<1>10. ASSUME NEW w \in Workers, Begin(w) PROVE ClaimsDistinct'
  <2>1. Busy(w) /\ UNCHANGED <<held, issued>> /\ \A v \in Workers \ {w} : pc'[v] = pc[v]
    BY <1>1, <1>10 DEF TypeOK, Busy, InHandler, Begin, Reply, Goto
  <2>. QED BY <1>1, <2>1 DEF ClaimsDistinct, Busy, InHandler
<1>11. ASSUME NEW w \in Workers, Deliver(w) PROVE ClaimsDistinct'
  BY <1>1, <1>11
  DEF TypeOK, ClaimsDistinct, Busy, InHandler, Deliver, Goto, Outcome, Completions,
      jobVars, operatorVars
<1>12. ASSUME NEW w \in Workers, Complete(w) PROVE ClaimsDistinct'
  <2>1. Busy(w) /\ UNCHANGED <<held, issued>> /\ \A v \in Workers \ {w} : pc'[v] = pc[v]
    BY <1>1, <1>12 DEF TypeOK, Busy, InHandler, Complete, Reply, Goto
  <2>. QED BY <1>1, <2>1 DEF ClaimsDistinct, Busy, InHandler
<1>13. ASSUME NEW w \in Workers, Conclude(w) PROVE ClaimsDistinct'
  <2>1. Busy(w) /\ UNCHANGED <<held, issued>> /\ \A v \in Workers \ {w} : pc'[v] = pc[v]
    BY <1>1, <1>13 DEF TypeOK, Busy, InHandler, Conclude, Goto
  <2>. QED BY <1>1, <2>1 DEF ClaimsDistinct, Busy, InHandler
<1>14. ASSUME NEW w \in Workers, HandlerFails(w) PROVE ClaimsDistinct'
  BY <1>1, <1>14
  DEF TypeOK, ClaimsDistinct, Busy, InHandler, HandlerFails, AtRecipient, CallFails,
      Fault, Goto, jobVars, locals, operatorVars
<1>15. ASSUME NEW w \in Workers, Mark(w) PROVE ClaimsDistinct'
  <2>1. Busy(w) /\ UNCHANGED issued /\ \A v \in Workers \ {w} : pc'[v] = pc[v] /\ held'[v] = held[v]
    BY <1>1, <1>15 DEF TypeOK, Busy, InHandler, Mark, Finalize, Return, Goto, locals
  <2>2. CASE Return(w) /\ UNCHANGED faults
    <3>1. held'[w] = 0 /\ pc'[w] = "idle"
      BY <1>1, <2>2 DEF TypeOK, Return, NoToken
    <3>2. issued \in Nat
      BY <1>1 DEF TypeOK
    <3>3. \A v \in Workers : held'[v] <= issued'
      BY <1>1, <2>1, <3>1, <3>2 DEF ClaimsDistinct
    <3>4. \A v \in Workers : Busy(v)' => v # w /\ Busy(v) /\ held'[v] = held[v]
      BY <2>1, <3>1 DEF Busy, InHandler
    <3>. QED BY <1>1, <3>3, <3>4 DEF ClaimsDistinct
  <2>3. CASE Goto(w, "error") /\ Fault /\ UNCHANGED locals
    BY <1>1, <2>1, <2>3 DEF TypeOK, ClaimsDistinct, Busy, InHandler, Goto, locals
  <2>. QED BY <1>15, <2>2, <2>3 DEF Mark
<1>16. ASSUME NEW w \in Workers, MarkError(w) PROVE ClaimsDistinct'
  BY <1>1, <1>16
  DEF TypeOK, ClaimsDistinct, Busy, InHandler, NoToken, MarkError, Finalize, Touch,
      Return, FinalState
<1>17. ASSUME NEW w \in Workers, MarkErrorLost(w) PROVE ClaimsDistinct'
  BY <1>1, <1>17
  DEF TypeOK, ClaimsDistinct, Busy, InHandler, NoToken, MarkErrorLost, Return, jobVars,
      operatorVars
<1>18. ASSUME NEW w \in Workers, Crash(w) PROVE ClaimsDistinct'
  BY <1>1, <1>18
  DEF TypeOK, ClaimsDistinct, Busy, InHandler, NoToken, Crash, Fault, Return, jobVars,
      operatorVars
<1>19. ASSUME NEW o \in Operators, NEW j \in Jobs, Inspect(o, j) PROVE ClaimsDistinct'
  BY <1>1, <1>19
  DEF TypeOK, ClaimsDistinct, Busy, InHandler, Inspect, jobVars, workerVars, locals
<1>20. ASSUME NEW o \in Operators, Reconcile(o) PROVE ClaimsDistinct'
  BY <1>1, <1>20
  DEF ClaimsDistinct, Busy, InHandler, Reconcile, Reconciles, workerVars, locals
<1>21. ASSUME NEW j \in Jobs, Requeue(j) PROVE ClaimsDistinct'
  BY <1>1, <1>21
  DEF TypeOK, ClaimsDistinct, Busy, InHandler, Requeue, Touch, workerVars, locals
<1>22. ASSUME NEW j \in Jobs, ChangeAuthority(j) PROVE ClaimsDistinct'
  BY <1>1, <1>22
  DEF TypeOK, ClaimsDistinct, Busy, InHandler, ChangeAuthority, jobVars, workerVars,
      operatorVars, locals
<1>23. ASSUME Offboard PROVE ClaimsDistinct'
  BY <1>1, <1>23
  DEF TypeOK, ClaimsDistinct, Busy, InHandler, Offboard, Touch, workerVars, locals
<1>24. ASSUME Tick PROVE ClaimsDistinct'
  BY <1>1, <1>24
  DEF TypeOK, ClaimsDistinct, Busy, InHandler, Tick, CountDown, Fault, operatorVars
<1>25. ASSUME UNCHANGED vars PROVE ClaimsDistinct'
  BY <1>1, <1>25
  DEF TypeOK, ClaimsDistinct, Busy, InHandler, vars, jobVars, workerVars, locals,
      operatorVars
<1>. QED
  BY <1>2, <1>3, <1>4, <1>5, <1>6, <1>7, <1>8, <1>9, <1>10, <1>11, <1>12, <1>13, <1>14,
     <1>15, <1>16, <1>17, <1>18, <1>19, <1>20, <1>21, <1>22, <1>23, <1>24, <1>25
  DEF Next, Worker, Administrator

\* Two workers never own the same job.
LEMMA SoleOwner ==
    ASSUME ClaimsDistinct, NEW v \in Workers, NEW w \in Workers, Busy(v), Busy(w),
           LeaseOwned(v), LeaseOwned(w), job[v] = job[w]
    PROVE  v = w
  BY DEF ClaimsDistinct, LeaseOwned

\* A worker's context ends before its lease does, and until then only that
\* worker's own mark ends its claim.
LEMMA ContextStep ==
    ASSUME IInv, [Next]_vars
    PROVE  \A u \in Workers : ContextWithinLease(u)'
<1>1. TypeOK /\ ClaimsDistinct /\ \A u \in Workers : ContextWithinLease(u)
  BY DEF IInv
<1>2. ASSUME NEW w \in Workers, HoldExpired(w)
      PROVE  \A u \in Workers : ContextWithinLease(u)'
  BY <1>1, <1>2, TimingAssumption
  DEF TypeOK, ContextWithinLease, LeaseOwned, InHandler, HoldExpired, Touch, Goto,
      Expired
<1>3. ASSUME NEW w \in Workers, NEW j \in Jobs, Claim(w, j)
      PROVE  \A u \in Workers : ContextWithinLease(u)'
  BY <1>1, <1>3, TimingAssumption
  DEF TypeOK, ContextWithinLease, LeaseOwned, InHandler, Claim, Touch, Goto, Claimable,
      Expired
<1>4. ASSUME NEW w \in Workers, NothingToClaim(w)
      PROVE  \A u \in Workers : ContextWithinLease(u)'
  BY <1>1, <1>4, TimingAssumption
  DEF TypeOK, ContextWithinLease, LeaseOwned, InHandler, NothingToClaim, Goto, jobVars,
      locals, operatorVars
<1>5. ASSUME NEW w \in Workers, StartHandler(w)
      PROVE  \A u \in Workers : ContextWithinLease(u)'
  BY <1>1, <1>5, TimingAssumption
  DEF TypeOK, ContextWithinLease, LeaseOwned, InHandler, StartHandler, Goto,
      HandlerTimeout, jobVars, operatorVars
<1>6. ASSUME NEW w \in Workers, Authorize(w) PROVE \A u \in Workers : ContextWithinLease(u)'
  BY <1>1, <1>6, TimingAssumption
  DEF TypeOK, ContextWithinLease, LeaseOwned, InHandler, Authorize, Goto, jobVars,
      operatorVars
<1>7. ASSUME NEW w \in Workers, List(w) PROVE \A u \in Workers : ContextWithinLease(u)'
  BY <1>1, <1>7, TimingAssumption
  DEF TypeOK, ContextWithinLease, LeaseOwned, InHandler, List, Goto, jobVars,
      operatorVars
<1>8. ASSUME NEW w \in Workers, SkipSettled(w)
      PROVE  \A u \in Workers : ContextWithinLease(u)'
  BY <1>1, <1>8, TimingAssumption
  DEF TypeOK, ContextWithinLease, LeaseOwned, InHandler, SkipSettled, AtRecipient,
      jobVars, operatorVars
<1>9. ASSUME NEW w \in Workers, Recheck(w) PROVE \A u \in Workers : ContextWithinLease(u)'
  BY <1>1, <1>9, TimingAssumption
  DEF TypeOK, ContextWithinLease, LeaseOwned, InHandler, Recheck, AtRecipient, jobVars,
      operatorVars
<1>10. ASSUME NEW w \in Workers, Begin(w) PROVE \A u \in Workers : ContextWithinLease(u)'
  BY <1>1, <1>10, TimingAssumption
  DEF TypeOK, ContextWithinLease, LeaseOwned, InHandler, Begin, Touch, Reply, Goto,
      Fault, RecipientSources, BegunMarker
<1>11. ASSUME NEW w \in Workers, Deliver(w) PROVE \A u \in Workers : ContextWithinLease(u)'
  BY <1>1, <1>11, TimingAssumption
  DEF TypeOK, ContextWithinLease, LeaseOwned, InHandler, Deliver, Goto, Outcome,
      Completions, jobVars, operatorVars
<1>12. ASSUME NEW w \in Workers, Complete(w) PROVE \A u \in Workers : ContextWithinLease(u)'
  BY <1>1, <1>12, TimingAssumption
  DEF TypeOK, ContextWithinLease, LeaseOwned, InHandler, Complete, Touch, Reply, Goto,
      Fault, RecipientSources
<1>13. ASSUME NEW w \in Workers, Conclude(w) PROVE \A u \in Workers : ContextWithinLease(u)'
  BY <1>1, <1>13, TimingAssumption
  DEF TypeOK, ContextWithinLease, LeaseOwned, InHandler, Conclude, Goto, Verdict,
      jobVars, operatorVars
<1>14. ASSUME NEW w \in Workers, HandlerFails(w)
       PROVE  \A u \in Workers : ContextWithinLease(u)'
  BY <1>1, <1>14, TimingAssumption
  DEF TypeOK, ContextWithinLease, LeaseOwned, InHandler, HandlerFails, AtRecipient,
      CallFails, Fault, Goto, jobVars, locals, operatorVars
<1>15. ASSUME NEW w \in Workers, Mark(w) PROVE \A u \in Workers : ContextWithinLease(u)'
  <2>. SUFFICES ASSUME NEW u \in Workers PROVE ContextWithinLease(u)'
    OBVIOUS
  <2>1. LeaseOwned(w) /\ Busy(w) /\ job[w] \in Jobs /\ job[u] \in Jobs
    BY <1>1, <1>15 DEF TypeOK, Mark, Finalize, Busy, InHandler
  <2>2. CASE u = w
    BY <1>1, <1>15, <2>2 DEF TypeOK, ContextWithinLease, InHandler, Mark, Return, Goto
  <2>3. CASE u # w
    <3>1. pc'[u] = pc[u] /\ job'[u] = job[u] /\ held'[u] = held[u] /\ timer'[u] = timer[u]
      BY <1>1, <1>15, <2>3 DEF TypeOK, Mark, Return, Goto, locals
    <3>2. Busy(u) /\ LeaseOwned(u) => job[u] # job[w]
      BY <1>1, <2>1, <2>3, SoleOwner
    <3>3. job[u] # job[w] =>
             /\ state'[job[u]] = state[job[u]]
             /\ token'[job[u]] = token[job[u]]
             /\ lease'[job[u]] = lease[job[u]]
      BY <1>1, <1>15, <2>1 DEF TypeOK, Mark, Finalize
    <3>. QED
      BY <1>1, <3>1, <3>2, <3>3 DEF ContextWithinLease, InHandler, Busy, LeaseOwned
  <2>. QED BY <2>2, <2>3
<1>16. ASSUME NEW w \in Workers, MarkError(w)
       PROVE  \A u \in Workers : ContextWithinLease(u)'
  BY <1>1, <1>16, TimingAssumption
  DEF TypeOK, ContextWithinLease, LeaseOwned, InHandler, NoToken, Busy, ClaimsDistinct,
      MarkError, Finalize, Touch, Return, FinalState
<1>17. ASSUME NEW w \in Workers, MarkErrorLost(w)
       PROVE  \A u \in Workers : ContextWithinLease(u)'
  BY <1>1, <1>17, TimingAssumption
  DEF TypeOK, ContextWithinLease, LeaseOwned, InHandler, NoToken, MarkErrorLost, Return,
      jobVars, operatorVars
<1>18. ASSUME NEW w \in Workers, Crash(w) PROVE \A u \in Workers : ContextWithinLease(u)'
  BY <1>1, <1>18, TimingAssumption
  DEF TypeOK, ContextWithinLease, LeaseOwned, InHandler, NoToken, Crash, Fault, Return,
      jobVars, operatorVars
<1>19. ASSUME NEW o \in Operators, NEW j \in Jobs, Inspect(o, j)
       PROVE  \A u \in Workers : ContextWithinLease(u)'
  BY <1>1, <1>19, TimingAssumption
  DEF TypeOK, ContextWithinLease, LeaseOwned, InHandler, Inspect, jobVars, workerVars,
      locals
<1>20. ASSUME NEW o \in Operators, Reconcile(o)
       PROVE  \A u \in Workers : ContextWithinLease(u)'
  BY <1>1, <1>20, TimingAssumption
  DEF TypeOK, ContextWithinLease, LeaseOwned, InHandler, Reconcile, Reconciles, Touch,
      Resolved, ReconciledState, Uncertain, Completions, VersionMatches, workerVars,
      locals
<1>21. ASSUME NEW j \in Jobs, Requeue(j) PROVE \A u \in Workers : ContextWithinLease(u)'
  BY <1>1, <1>21, TimingAssumption
  DEF TypeOK, ContextWithinLease, LeaseOwned, InHandler, Requeue, Touch, workerVars,
      locals
<1>22. ASSUME NEW j \in Jobs, ChangeAuthority(j)
       PROVE  \A u \in Workers : ContextWithinLease(u)'
  BY <1>1, <1>22, TimingAssumption
  DEF TypeOK, ContextWithinLease, LeaseOwned, InHandler, ChangeAuthority, jobVars,
      workerVars, operatorVars, locals
<1>23. ASSUME Offboard PROVE \A u \in Workers : ContextWithinLease(u)'
  BY <1>1, <1>23, TimingAssumption
  DEF TypeOK, ContextWithinLease, LeaseOwned, InHandler, Cancellable, Offboard, Touch,
      workerVars, locals
<1>24. ASSUME Tick PROVE \A u \in Workers : ContextWithinLease(u)'
  BY <1>1, <1>24, TimingAssumption
  DEF TypeOK, ContextWithinLease, LeaseOwned, InHandler, Tick, CountDown, Fault,
      operatorVars
<1>25. ASSUME UNCHANGED vars PROVE \A u \in Workers : ContextWithinLease(u)'
  BY <1>1, <1>25
  DEF TypeOK, ContextWithinLease, LeaseOwned, InHandler, vars, jobVars, workerVars,
      locals, operatorVars
<1>. QED
  BY <1>2, <1>3, <1>4, <1>5, <1>6, <1>7, <1>8, <1>9, <1>10, <1>11, <1>12, <1>13, <1>14,
     <1>15, <1>16, <1>17, <1>18, <1>19, <1>20, <1>21, <1>22, <1>23, <1>24, <1>25
  DEF Next, Worker, Administrator

\* A step that changes neither a worker's locals nor, while its context is live,
\* its job's rows leaves its beliefs true.
LEMMA SnapshotFrame ==
    ASSUME NEW u \in Workers, SnapshotIsCurrent(u),
           pc'[u] = pc[u], job'[u] = job[u], snap'[u] = snap[u], cursor'[u] = cursor[u],
           event'[u] = event[u], timer'[u] = timer[u],
           InHandler(u) /\ timer[u] > 0 =>
              /\ ledger'[job[u]] = ledger[job[u]]
              /\ marker'[job[u]] = marker[job[u]]
              /\ copies'[job[u]] = copies[job[u]]
    PROVE  SnapshotIsCurrent(u)'
  BY DEF SnapshotIsCurrent, InHandler

\* What a worker with a live context believes stays true: no other worker and no
\* administrator writes its job.
LEMMA SnapshotStep ==
    ASSUME IInv, [Next]_vars
    PROVE  \A u \in Workers : SnapshotIsCurrent(u)'
<1>1. TypeOK /\ ClaimsDistinct
  BY DEF IInv
<1>2. \A u \in Workers : ContextWithinLease(u) /\ SnapshotIsCurrent(u)
  BY DEF IInv
<1>3. MarkerMatchesLedger /\ LedgerIsTrue /\ AtMostOneCopy
  BY DEF IInv
<1>4. ASSUME NEW w \in Workers, HoldExpired(w)
      PROVE  \A u \in Workers : SnapshotIsCurrent(u)'
  BY <1>1, <1>2, <1>3, <1>4 DEF TypeOK, SnapshotIsCurrent, HoldExpired, Touch, Goto, Expired
<1>5. ASSUME NEW w \in Workers, NEW j \in Jobs, Claim(w, j)
      PROVE  \A u \in Workers : SnapshotIsCurrent(u)'
  BY <1>1, <1>2, <1>3, <1>5
  DEF TypeOK, SnapshotIsCurrent, Claim, Touch, Goto, Claimable, Expired
<1>6. ASSUME NEW w \in Workers, NothingToClaim(w)
      PROVE  \A u \in Workers : SnapshotIsCurrent(u)'
  BY <1>1, <1>2, <1>3, <1>6
  DEF TypeOK, SnapshotIsCurrent, NothingToClaim, Goto, jobVars, locals, operatorVars
<1>7. ASSUME NEW w \in Workers, StartHandler(w)
      PROVE  \A u \in Workers : SnapshotIsCurrent(u)'
  BY <1>1, <1>2, <1>3, <1>7
  DEF TypeOK, SnapshotIsCurrent, StartHandler, Goto, HandlerTimeout, jobVars,
      operatorVars
<1>8. ASSUME NEW w \in Workers, Authorize(w) PROVE \A u \in Workers : SnapshotIsCurrent(u)'
  BY <1>1, <1>2, <1>3, <1>8
  DEF TypeOK, SnapshotIsCurrent, Authorize, Goto, jobVars, operatorVars
<1>9. ASSUME NEW w \in Workers, List(w) PROVE \A u \in Workers : SnapshotIsCurrent(u)'
  <2>. SUFFICES ASSUME NEW u \in Workers PROVE SnapshotIsCurrent(u)'
    OBVIOUS
  <2>1. CASE u # w
    <3>1. /\ pc'[u] = pc[u] /\ job'[u] = job[u] /\ snap'[u] = snap[u]
          /\ cursor'[u] = cursor[u] /\ event'[u] = event[u] /\ timer'[u] = timer[u]
      BY <1>1, <1>2, <1>3, <1>9, <2>1 DEF TypeOK, List, Goto, locals
    <3>2. UNCHANGED <<ledger, marker, copies>>
      BY <1>9 DEF List, jobVars
    <3>. QED BY <1>1, <1>2, <1>3, <3>1, <3>2, SnapshotFrame
  <2>2. CASE u = w
    <3>1. pc'[w] = "loop" /\ job'[w] = job[w] /\ cursor'[w] = 1 /\ snap'[w] = ledger[job[w]] /\ ledger' = ledger
      BY <1>1, <1>2, <1>3, <1>9 DEF TypeOK, List, Goto
    <3>. QED BY <2>2, <3>1 DEF SnapshotIsCurrent, Recipients
  <2>. QED BY <2>1, <2>2
<1>10. ASSUME NEW w \in Workers, SkipSettled(w)
       PROVE  \A u \in Workers : SnapshotIsCurrent(u)'
  <2>. SUFFICES ASSUME NEW u \in Workers PROVE SnapshotIsCurrent(u)'
    OBVIOUS
  <2>1. CASE u # w
    <3>1. /\ pc'[u] = pc[u] /\ job'[u] = job[u] /\ snap'[u] = snap[u]
          /\ cursor'[u] = cursor[u] /\ event'[u] = event[u] /\ timer'[u] = timer[u]
      BY <1>1, <1>2, <1>3, <1>10, <2>1 DEF TypeOK, SkipSettled, locals
    <3>2. UNCHANGED <<ledger, marker, copies>>
      BY <1>10 DEF SkipSettled, jobVars
    <3>. QED BY <1>1, <1>2, <1>3, <3>1, <3>2, SnapshotFrame
  <2>2. CASE u = w
    <3>1. /\ pc[w] = "loop" /\ pc' = pc /\ job' = job /\ snap' = snap /\ timer' = timer
          /\ cursor'[w] = cursor[w] + 1 /\ UNCHANGED <<ledger, marker, copies>>
          /\ cursor[w] \in Recipients /\ snap[w][cursor[w]] \in Completions
      BY <1>1, <1>2, <1>3, <1>10
      DEF TypeOK, SkipSettled, AtRecipient, Settled, Completions, jobVars
    <3>2. \A r \in Recipients : r < cursor[w] + 1 => r < cursor[w] \/ r = cursor[w]
      BY <3>1 DEF Recipients
    <3>. QED BY <1>1, <1>2, <1>3, <2>2, <3>1, <3>2 DEF SnapshotIsCurrent
  <2>. QED BY <2>1, <2>2
<1>11. ASSUME NEW w \in Workers, Recheck(w) PROVE \A u \in Workers : SnapshotIsCurrent(u)'
  BY <1>1, <1>2, <1>3, <1>11
  DEF TypeOK, SnapshotIsCurrent, Recheck, AtRecipient, jobVars, operatorVars
<1>12. ASSUME NEW w \in Workers, Begin(w) PROVE \A u \in Workers : SnapshotIsCurrent(u)'
  <2>. SUFFICES ASSUME NEW u \in Workers PROVE SnapshotIsCurrent(u)'
    OBVIOUS
  <2>1. CASE u # w
    <3>1. /\ pc'[u] = pc[u] /\ job'[u] = job[u] /\ snap'[u] = snap[u]
          /\ cursor'[u] = cursor[u] /\ event'[u] = event[u] /\ timer'[u] = timer[u]
      BY <1>1, <1>2, <1>3, <1>12, <2>1 DEF TypeOK, Begin, Reply, Goto
    <3>2. ASSUME InHandler(u), timer[u] > 0
          PROVE  /\ ledger'[job[u]] = ledger[job[u]]
                 /\ marker'[job[u]] = marker[job[u]]
                 /\ copies'[job[u]] = copies[job[u]]
      <4>1. LeaseOwned(u) /\ Busy(u) /\ Busy(w) /\ job[u] \in Jobs /\ job[w] \in Jobs
        BY <1>1, <1>2, <1>3, <1>12, <3>2
        DEF TypeOK, ContextWithinLease, Busy, InHandler, Begin
      <4>2. LeaseOwned(w)
        BY <1>12 DEF Begin
      <4>3. job[u] # job[w]
        BY <1>1, <1>2, <1>3, <2>1, <4>1, <4>2, SoleOwner
      <4>. QED BY <1>1, <1>2, <1>3, <1>12, <4>1, <4>3 DEF TypeOK, Begin
    <3>. QED BY <1>1, <1>2, <1>3, <3>1, <3>2, SnapshotFrame
  <2>2. CASE u = w
    <3>1. /\ pc[w] = "begin" /\ pc'[w] \in {"net", "error"} /\ job' = job /\ snap' = snap
          /\ timer' = timer /\ cursor' = cursor /\ copies' = copies /\ timer[w] > 0
          /\ cursor[w] \in Recipients /\ job[w] \in Jobs
      BY <1>1, <1>2, <1>3, <1>12 DEF TypeOK, SnapshotIsCurrent, Begin, Reply, Goto
    <3>2. marker'[job[w]] = cursor[w]
      BY <1>1, <1>2, <1>3, <1>12, <3>1 DEF TypeOK, Begin, BegunMarker
    <3>3. copies[job[w]][cursor[w]] = 0
      BY <1>1, <1>2, <1>3, <1>12, <3>1, AttemptSources DEF LedgerIsTrue, Begin
    <3>4. \A r \in Recipients \ {cursor[w]} : ledger'[job[w]][r] = ledger[job[w]][r]
      BY <1>1, <1>2, <1>3, <1>12, <3>1 DEF TypeOK, Begin
    <3>. QED BY <1>1, <1>2, <1>3, <2>2, <3>1, <3>2, <3>3, <3>4 DEF SnapshotIsCurrent
  <2>. QED BY <2>1, <2>2
<1>13. ASSUME NEW w \in Workers, Deliver(w) PROVE \A u \in Workers : SnapshotIsCurrent(u)'
  <2>. SUFFICES ASSUME NEW u \in Workers PROVE SnapshotIsCurrent(u)'
    OBVIOUS
  <2>1. CASE u # w
    <3>1. /\ pc'[u] = pc[u] /\ job'[u] = job[u] /\ snap'[u] = snap[u]
          /\ cursor'[u] = cursor[u] /\ event'[u] = event[u] /\ timer'[u] = timer[u]
      BY <1>1, <1>2, <1>3, <1>13, <2>1 DEF TypeOK, Deliver, Goto
    <3>2. ASSUME InHandler(u), timer[u] > 0
          PROVE  /\ ledger'[job[u]] = ledger[job[u]]
                 /\ marker'[job[u]] = marker[job[u]]
                 /\ copies'[job[u]] = copies[job[u]]
      <4>1. LeaseOwned(u) /\ Busy(u) /\ Busy(w) /\ job[u] \in Jobs /\ job[w] \in Jobs
        BY <1>1, <1>2, <1>3, <1>13, <3>2
        DEF TypeOK, ContextWithinLease, Busy, InHandler, Deliver
      <4>2. CASE timer[w] > 0
        <5>1. LeaseOwned(w)
          BY <1>1, <1>2, <1>3, <1>13, <4>2 DEF ContextWithinLease, InHandler, Deliver
        <5>2. job[u] # job[w]
          BY <1>1, <1>2, <1>3, <2>1, <4>1, <5>1, SoleOwner
        <5>. QED BY <1>1, <1>2, <1>3, <1>13, <4>1, <5>2 DEF TypeOK, Deliver, jobVars
      <4>3. CASE ~(timer[w] > 0)
        BY <1>1, <1>2, <1>3, <1>13, <4>1, <4>3 DEF TypeOK, Deliver, jobVars
      <4>. QED BY <4>2, <4>3
    <3>. QED BY <1>1, <1>2, <1>3, <3>1, <3>2, SnapshotFrame
  <2>2. CASE u = w
    <3>1. PICK taken \in BOOLEAN, reply \in Completions \cup {"none"} :
             /\ taken => timer[w] > 0 /\ reply \in {"accepted", "none"}
             /\ reply = "accepted" => taken
             /\ copies' = [copies EXCEPT ![job[w]][cursor[w]] = IF taken THEN @ + 1 ELSE @]
             /\ snap' = [snap EXCEPT ![w][cursor[w]] = Outcome(reply)]
             /\ Goto(w, IF Outcome(reply) = "uncertain" THEN "mark" ELSE "complete")
      BY <1>13 DEF Deliver
    <3>2. /\ pc[w] = "net" /\ job' = job /\ cursor' = cursor /\ timer' = timer
          /\ UNCHANGED <<ledger, marker>> /\ event'[w] = "failed"
          /\ cursor[w] \in Recipients /\ job[w] \in Jobs
      BY <1>1, <1>2, <1>3, <1>13 DEF TypeOK, SnapshotIsCurrent, Deliver, jobVars
    <3>3. /\ \A r \in Recipients \ {cursor[w]} : snap'[w][r] = snap[w][r]
          /\ snap'[w][cursor[w]] = Outcome(reply)
      BY <1>1, <1>2, <1>3, <3>1, <3>2 DEF TypeOK
    <3>4. CASE Outcome(reply) = "uncertain"
      <4>1. pc'[w] = "mark"
        BY <1>1, <1>2, <1>3, <3>1, <3>4 DEF TypeOK, Goto
      <4>. QED BY <2>2, <3>2, <4>1 DEF SnapshotIsCurrent
    <3>5. CASE Outcome(reply) # "uncertain"
      <4>1. pc'[w] = "complete" /\ Outcome(reply) = reply /\ reply \in Completions
        BY <1>1, <1>2, <1>3, <3>1, <3>5 DEF TypeOK, Goto, Outcome
      <4>2. timer[w] > 0 => (reply = "accepted" <=> copies'[job[w]][cursor[w]] = 1)
        <5>1. taken <=> reply = "accepted"
          BY <3>1, <4>1 DEF Completions
        <5>2. timer[w] > 0 => copies[job[w]][cursor[w]] = 0
          BY <1>1, <1>2, <1>3, <3>2 DEF SnapshotIsCurrent
        <5>3. copies'[job[w]][cursor[w]] =
                 IF taken THEN copies[job[w]][cursor[w]] + 1 ELSE copies[job[w]][cursor[w]]
          BY <1>1, <1>2, <1>3, <3>1, <3>2 DEF TypeOK
        <5>. QED BY <5>1, <5>2, <5>3
      <4>3. \A r \in Recipients : r < cursor[w] => r # cursor[w]
        BY <3>2 DEF Recipients
      <4>. QED BY <1>1, <1>2, <1>3, <2>2, <3>2, <3>3, <4>1, <4>2, <4>3 DEF SnapshotIsCurrent
    <3>. QED BY <3>4, <3>5
  <2>. QED BY <2>1, <2>2
<1>14. ASSUME NEW w \in Workers, Complete(w) PROVE \A u \in Workers : SnapshotIsCurrent(u)'
  <2>. SUFFICES ASSUME NEW u \in Workers PROVE SnapshotIsCurrent(u)'
    OBVIOUS
  <2>1. CASE u # w
    <3>1. /\ pc'[u] = pc[u] /\ job'[u] = job[u] /\ snap'[u] = snap[u]
          /\ cursor'[u] = cursor[u] /\ event'[u] = event[u] /\ timer'[u] = timer[u]
      BY <1>1, <1>2, <1>3, <1>14, <2>1 DEF TypeOK, Complete, Reply, Goto
    <3>2. ASSUME InHandler(u), timer[u] > 0
          PROVE  /\ ledger'[job[u]] = ledger[job[u]]
                 /\ marker'[job[u]] = marker[job[u]]
                 /\ copies'[job[u]] = copies[job[u]]
      <4>1. LeaseOwned(u) /\ Busy(u) /\ Busy(w) /\ job[u] \in Jobs /\ job[w] \in Jobs
        BY <1>1, <1>2, <1>3, <1>14, <3>2
        DEF TypeOK, ContextWithinLease, Busy, InHandler, Complete
      <4>2. LeaseOwned(w)
        BY <1>14 DEF Complete
      <4>3. job[u] # job[w]
        BY <1>1, <1>2, <1>3, <2>1, <4>1, <4>2, SoleOwner
      <4>. QED BY <1>1, <1>2, <1>3, <1>14, <4>1, <4>3 DEF TypeOK, Complete
    <3>. QED BY <1>1, <1>2, <1>3, <3>1, <3>2, SnapshotFrame
  <2>2. CASE u = w
    <3>1. /\ pc[w] = "complete" /\ pc'[w] \in {"loop", "error"} /\ job' = job /\ snap' = snap
          /\ timer' = timer /\ timer[w] > 0 /\ cursor'[w] = cursor[w] + 1
          /\ cursor[w] \in Recipients /\ job[w] \in Jobs
      BY <1>1, <1>2, <1>3, <1>14 DEF TypeOK, SnapshotIsCurrent, Complete, Reply, Goto
    <3>2. \A r \in Recipients : ledger'[job[w]][r] = snap[w][r]
      BY <1>1, <1>2, <1>3, <1>14, <3>1 DEF TypeOK, SnapshotIsCurrent, Complete
    <3>3. snap[w][cursor[w]] \in Completions
      BY <1>1, <1>2, <1>3, <3>1 DEF SnapshotIsCurrent
    <3>4. \A r \in Recipients : r < cursor[w] + 1 => r < cursor[w] \/ r = cursor[w]
      BY <3>1 DEF Recipients
    <3>. QED BY <1>1, <1>2, <1>3, <2>2, <3>1, <3>2, <3>3, <3>4 DEF SnapshotIsCurrent
  <2>. QED BY <2>1, <2>2
<1>15. ASSUME NEW w \in Workers, Conclude(w) PROVE \A u \in Workers : SnapshotIsCurrent(u)'
  <2>. SUFFICES ASSUME NEW u \in Workers PROVE SnapshotIsCurrent(u)'
    OBVIOUS
  <2>1. CASE u # w
    <3>1. /\ pc'[u] = pc[u] /\ job'[u] = job[u] /\ snap'[u] = snap[u]
          /\ cursor'[u] = cursor[u] /\ event'[u] = event[u] /\ timer'[u] = timer[u]
      BY <1>1, <1>2, <1>3, <1>15, <2>1 DEF TypeOK, Conclude, Goto, locals
    <3>2. UNCHANGED <<ledger, marker, copies>>
      BY <1>15 DEF Conclude, jobVars
    <3>. QED BY <1>1, <1>2, <1>3, <3>1, <3>2, SnapshotFrame
  <2>2. CASE u = w
    <3>1. /\ pc[w] = "loop" /\ cursor[w] > NumRecipients /\ timer' = timer /\ job' = job
          /\ ledger' = ledger /\ pc'[w] \in {"error", "mark"}
      BY <1>1, <1>2, <1>3, <1>15 DEF TypeOK, Conclude, Goto
    <3>2. ASSUME timer[w] > 0, pc'[w] = "mark", event'[w] = "sent"
          PROVE  \A r \in Recipients : ledger[job[w]][r] = "accepted"
      <4>1. "temporary" \notin {snap[w][r] : r \in Recipients} /\ "permanent" \notin {snap[w][r] : r \in Recipients}
        BY <1>1, <1>2, <1>3, <1>15, <3>2 DEF TypeOK, Conclude, Goto, Verdict
      <4>2. \A r \in Recipients : r < cursor[w]
        BY <1>1, <1>2, <1>3, <3>1, BoundsAssumption DEF Recipients, TypeOK
      <4>3. \A r \in Recipients : snap[w][r] \in Completions /\ snap[w][r] = ledger[job[w]][r]
        BY <1>1, <1>2, <1>3, <3>1, <3>2, <4>2 DEF SnapshotIsCurrent
      <4>. QED BY <4>1, <4>3 DEF Completions
    <3>. QED BY <2>2, <3>1, <3>2 DEF SnapshotIsCurrent
  <2>. QED BY <2>1, <2>2
<1>16. ASSUME NEW w \in Workers, HandlerFails(w)
       PROVE  \A u \in Workers : SnapshotIsCurrent(u)'
  BY <1>1, <1>2, <1>3, <1>16
  DEF TypeOK, SnapshotIsCurrent, HandlerFails, AtRecipient, CallFails, Fault, Goto,
      jobVars, locals, operatorVars
<1>17. ASSUME NEW w \in Workers, Mark(w) PROVE \A u \in Workers : SnapshotIsCurrent(u)'
  BY <1>1, <1>2, <1>3, <1>17
  DEF TypeOK, SnapshotIsCurrent, Mark, Finalize, Touch, Return, Goto, Fault, FinalState,
      locals
<1>18. ASSUME NEW w \in Workers, MarkError(w) PROVE \A u \in Workers : SnapshotIsCurrent(u)'
  BY <1>1, <1>2, <1>3, <1>18
  DEF TypeOK, SnapshotIsCurrent, MarkError, Finalize, Touch, Return, FinalState
<1>19. ASSUME NEW w \in Workers, MarkErrorLost(w)
       PROVE  \A u \in Workers : SnapshotIsCurrent(u)'
  BY <1>1, <1>2, <1>3, <1>19
  DEF TypeOK, SnapshotIsCurrent, MarkErrorLost, Return, jobVars, operatorVars
<1>20. ASSUME NEW w \in Workers, Crash(w) PROVE \A u \in Workers : SnapshotIsCurrent(u)'
  BY <1>1, <1>2, <1>3, <1>20
  DEF TypeOK, SnapshotIsCurrent, Crash, Fault, Return, jobVars, operatorVars
<1>21. ASSUME NEW o \in Operators, NEW j \in Jobs, Inspect(o, j)
       PROVE  \A u \in Workers : SnapshotIsCurrent(u)'
  BY <1>1, <1>2, <1>3, <1>21
  DEF TypeOK, SnapshotIsCurrent, Inspect, jobVars, workerVars, locals
<1>22. ASSUME NEW o \in Operators, Reconcile(o)
       PROVE  \A u \in Workers : SnapshotIsCurrent(u)'
  <2>. SUFFICES ASSUME NEW u \in Workers PROVE SnapshotIsCurrent(u)'
    OBVIOUS
  <2>1. PICK j \in Jobs : /\ state[j] # "processing"
                         /\ \A k \in Jobs \ {j} : ledger'[k] = ledger[k] /\ marker'[k] = marker[k]
    BY <1>1, <1>2, <1>3, <1>22 DEF TypeOK, Reconcile, Reconciles
  <2>2. workerVars' = workerVars /\ copies' = copies
    BY <1>22 DEF Reconcile, Reconciles
  <2>3. InHandler(u) /\ timer[u] > 0 => job[u] \in Jobs \ {j}
    BY <1>1, <1>2, <1>3, <2>1 DEF TypeOK, ContextWithinLease, LeaseOwned
  <2>. QED BY <1>1, <1>2, <1>3, <2>1, <2>2, <2>3, SnapshotFrame DEF workerVars, locals
<1>23. ASSUME NEW j \in Jobs, Requeue(j) PROVE \A u \in Workers : SnapshotIsCurrent(u)'
  BY <1>1, <1>2, <1>3, <1>23
  DEF TypeOK, SnapshotIsCurrent, Requeue, Touch, workerVars, locals
<1>24. ASSUME NEW j \in Jobs, ChangeAuthority(j)
       PROVE  \A u \in Workers : SnapshotIsCurrent(u)'
  BY <1>1, <1>2, <1>3, <1>24
  DEF TypeOK, SnapshotIsCurrent, ChangeAuthority, jobVars, workerVars, operatorVars,
      locals
<1>25. ASSUME Offboard PROVE \A u \in Workers : SnapshotIsCurrent(u)'
  BY <1>1, <1>2, <1>3, <1>25
  DEF TypeOK, SnapshotIsCurrent, Offboard, Touch, workerVars, locals
<1>26. ASSUME Tick PROVE \A u \in Workers : SnapshotIsCurrent(u)'
  BY <1>1, <1>2, <1>3, <1>26
  DEF TypeOK, SnapshotIsCurrent, Tick, CountDown, Fault, operatorVars
<1>27. ASSUME UNCHANGED vars PROVE \A u \in Workers : SnapshotIsCurrent(u)'
  BY <1>1, <1>2, <1>3, <1>27
  DEF TypeOK, SnapshotIsCurrent, vars, jobVars, workerVars, locals, operatorVars
<1>. QED
  BY <1>4, <1>5, <1>6, <1>7, <1>8, <1>9, <1>10, <1>11, <1>12, <1>13, <1>14, <1>15,
     <1>16, <1>17, <1>18, <1>19, <1>20, <1>21, <1>22, <1>23, <1>24, <1>25, <1>26, <1>27
  DEF Next, Worker, Administrator

\* The marker and the ledger change together.
LEMMA MarkerStep ==
    ASSUME IInv, [Next]_vars
    PROVE  MarkerMatchesLedger'
<1>1. TypeOK /\ MarkerMatchesLedger /\ \A u \in Workers : SnapshotIsCurrent(u)
  BY DEF IInv
<1>2. ASSUME NEW w \in Workers, HoldExpired(w) PROVE MarkerMatchesLedger'
  BY <1>1, <1>2
  DEF TypeOK, MarkerMatchesLedger, Uncertain, HoldExpired, Touch, Goto, Expired
<1>3. ASSUME NEW w \in Workers, NEW j \in Jobs, Claim(w, j) PROVE MarkerMatchesLedger'
  BY <1>1, <1>3
  DEF TypeOK, MarkerMatchesLedger, Uncertain, Claim, Touch, Goto, Claimable, Expired
<1>4. ASSUME NEW w \in Workers, NothingToClaim(w) PROVE MarkerMatchesLedger'
  BY <1>1, <1>4
  DEF TypeOK, MarkerMatchesLedger, Uncertain, NothingToClaim, Goto, jobVars, locals,
      operatorVars
<1>5. ASSUME NEW w \in Workers, StartHandler(w) PROVE MarkerMatchesLedger'
  BY <1>1, <1>5
  DEF TypeOK, MarkerMatchesLedger, Uncertain, StartHandler, Goto, HandlerTimeout,
      jobVars, operatorVars
<1>6. ASSUME NEW w \in Workers, Authorize(w) PROVE MarkerMatchesLedger'
  BY <1>1, <1>6
  DEF TypeOK, MarkerMatchesLedger, Uncertain, Authorize, Goto, jobVars, operatorVars
<1>7. ASSUME NEW w \in Workers, List(w) PROVE MarkerMatchesLedger'
  BY <1>1, <1>7
  DEF TypeOK, MarkerMatchesLedger, Uncertain, List, Goto, jobVars, operatorVars
<1>8. ASSUME NEW w \in Workers, SkipSettled(w) PROVE MarkerMatchesLedger'
  BY <1>1, <1>8
  DEF TypeOK, MarkerMatchesLedger, Uncertain, SkipSettled, AtRecipient, jobVars,
      operatorVars
<1>9. ASSUME NEW w \in Workers, Recheck(w) PROVE MarkerMatchesLedger'
  BY <1>1, <1>9
  DEF TypeOK, MarkerMatchesLedger, Uncertain, Recheck, AtRecipient, jobVars,
      operatorVars
<1>10. ASSUME NEW w \in Workers, Begin(w) PROVE MarkerMatchesLedger'
  BY <1>1, <1>10
  DEF TypeOK, MarkerMatchesLedger, Uncertain, Begin, Touch, Reply, Goto, Fault,
      RecipientSources, BegunMarker
<1>11. ASSUME NEW w \in Workers, Deliver(w) PROVE MarkerMatchesLedger'
  BY <1>1, <1>11
  DEF TypeOK, MarkerMatchesLedger, Uncertain, Deliver, Goto, Outcome, Completions,
      jobVars, operatorVars
<1>12. ASSUME NEW w \in Workers, Complete(w) PROVE MarkerMatchesLedger'
  <2>1. cursor[w] \in Recipients /\ job[w] \in Jobs /\ timer[w] > 0
    BY <1>1, <1>12 DEF TypeOK, SnapshotIsCurrent, Complete
  <2>2. snap[w][cursor[w]] # "uncertain" /\ Uncertain(job[w]) = {cursor[w]}
    BY <1>1, <1>12, <2>1 DEF MarkerMatchesLedger, SnapshotIsCurrent, Complete, Completions
  <2>3. /\ marker' = [marker EXCEPT ![job[w]] = NoMarker]
        /\ ledger' = [ledger EXCEPT ![job[w]][cursor[w]] = snap[w][cursor[w]]]
    BY <1>12 DEF Complete
  <2>4. /\ marker'[job[w]] = NoMarker
        /\ ledger'[job[w]][cursor[w]] # "uncertain"
        /\ \A r \in Recipients \ {cursor[w]} : ledger'[job[w]][r] = ledger[job[w]][r]
        /\ \A k \in Jobs \ {job[w]} : marker'[k] = marker[k] /\ ledger'[k] = ledger[k]
    BY <1>1, <2>1, <2>2, <2>3 DEF TypeOK
  <2>5. \A r \in Recipients : ledger'[job[w]][r] # "uncertain"
    BY <2>2, <2>4 DEF Uncertain
  <2>6. ASSUME NEW k \in Jobs
        PROVE  /\ marker'[k] = NoMarker => {r \in Recipients : ledger'[k][r] = "uncertain"} = {}
               /\ marker'[k] \in Recipients =>
                     {r \in Recipients : ledger'[k][r] = "uncertain"} = {marker'[k]}
    <3>1. CASE k = job[w]
      BY <3>1, <2>4, <2>5 DEF NoMarker, Recipients
    <3>2. CASE k # job[w]
      BY <1>1, <3>2, <2>4 DEF MarkerMatchesLedger, Uncertain
    <3>. QED BY <3>1, <3>2
  <2>. QED BY <2>6 DEF MarkerMatchesLedger, Uncertain
<1>13. ASSUME NEW w \in Workers, Conclude(w) PROVE MarkerMatchesLedger'
  BY <1>1, <1>13
  DEF TypeOK, MarkerMatchesLedger, Uncertain, Conclude, Goto, Verdict, jobVars,
      operatorVars
<1>14. ASSUME NEW w \in Workers, HandlerFails(w) PROVE MarkerMatchesLedger'
  BY <1>1, <1>14
  DEF TypeOK, MarkerMatchesLedger, Uncertain, HandlerFails, AtRecipient, CallFails,
      Fault, Goto, jobVars, locals, operatorVars
<1>15. ASSUME NEW w \in Workers, Mark(w) PROVE MarkerMatchesLedger'
  BY <1>1, <1>15
  DEF TypeOK, MarkerMatchesLedger, Uncertain, Mark, Finalize, Touch, Return, Goto,
      Fault, FinalState, locals
<1>16. ASSUME NEW w \in Workers, MarkError(w) PROVE MarkerMatchesLedger'
  BY <1>1, <1>16
  DEF TypeOK, MarkerMatchesLedger, Uncertain, MarkError, Finalize, Touch, Return,
      FinalState
<1>17. ASSUME NEW w \in Workers, MarkErrorLost(w) PROVE MarkerMatchesLedger'
  BY <1>1, <1>17
  DEF TypeOK, MarkerMatchesLedger, Uncertain, MarkErrorLost, Return, jobVars,
      operatorVars
<1>18. ASSUME NEW w \in Workers, Crash(w) PROVE MarkerMatchesLedger'
  BY <1>1, <1>18
  DEF TypeOK, MarkerMatchesLedger, Uncertain, Crash, Fault, Return, jobVars,
      operatorVars
<1>19. ASSUME NEW o \in Operators, NEW j \in Jobs, Inspect(o, j) PROVE MarkerMatchesLedger'
  BY <1>1, <1>19
  DEF TypeOK, MarkerMatchesLedger, Uncertain, Inspect, jobVars, workerVars, locals
<1>20. ASSUME NEW o \in Operators, Reconcile(o) PROVE MarkerMatchesLedger'
  <2>1. PICK j \in Jobs : \E chosen \in SUBSET Uncertain(j) :
           \E result \in [chosen -> Completions] : Reconciles(o, j, chosen, result)
    BY <1>20 DEF Reconcile
  <2>2. PICK chosen \in SUBSET Uncertain(j) :
           \E result \in [chosen -> Completions] : Reconciles(o, j, chosen, result)
    BY <2>1
  <2>3. PICK result \in [chosen -> Completions] : Reconciles(o, j, chosen, result)
    BY <2>2
  <2>4. \A k \in Jobs \ {j} : marker'[k] = marker[k] /\ Uncertain(k)' = Uncertain(k)
    BY <1>1, <2>3 DEF TypeOK, Uncertain, Reconciles
  <2>5. Uncertain(j)' = Uncertain(j) \ chosen
    BY <1>1, <2>3 DEF TypeOK, Uncertain, Reconciles, Reconciled, Completions
  <2>6. CASE Resolved({Reconciled(j, chosen, result)[r] : r \in Recipients})
    <3>1. marker'[j] = NoMarker
      BY <1>1, <2>3, <2>6 DEF TypeOK, Reconciles
    <3>2. Uncertain(j)' = {}
      BY <1>1, <2>3, <2>6 DEF TypeOK, Uncertain, Reconciles, Resolved
    <3>. QED BY <1>1, <2>4, <3>1, <3>2 DEF MarkerMatchesLedger, NoMarker, Recipients
  <2>7. CASE ~Resolved({Reconciled(j, chosen, result)[r] : r \in Recipients})
    <3>1. marker'[j] = marker[j]
      BY <2>3, <2>7 DEF Reconciles
    <3>2. Uncertain(j)' # {}
      <4>1. {Reconciled(j, chosen, result)[r] : r \in Recipients} # {}
        BY BoundsAssumption DEF Recipients
      <4>2. PICK r \in Recipients : Reconciled(j, chosen, result)[r] = "uncertain"
        BY <2>7, <4>1 DEF Resolved
      <4>. QED BY <1>1, <2>3, <4>2 DEF TypeOK, Uncertain, Reconciles
    <3>3. marker[j] \notin Recipients /\ marker[j] # NoMarker
      BY <1>1, <2>3, <2>5, <3>2 DEF MarkerMatchesLedger, Reconciles
    <3>. QED BY <1>1, <2>4, <3>1, <3>3 DEF MarkerMatchesLedger
  <2>. QED BY <2>6, <2>7
<1>21. ASSUME NEW j \in Jobs, Requeue(j) PROVE MarkerMatchesLedger'
  BY <1>1, <1>21
  DEF TypeOK, MarkerMatchesLedger, Uncertain, Requeue, Touch, workerVars, locals
<1>22. ASSUME NEW j \in Jobs, ChangeAuthority(j) PROVE MarkerMatchesLedger'
  BY <1>1, <1>22
  DEF TypeOK, MarkerMatchesLedger, Uncertain, ChangeAuthority, jobVars, workerVars,
      operatorVars, locals
<1>23. ASSUME Offboard PROVE MarkerMatchesLedger'
  BY <1>1, <1>23
  DEF TypeOK, MarkerMatchesLedger, Uncertain, Offboard, Touch, workerVars, locals
<1>24. ASSUME Tick PROVE MarkerMatchesLedger'
  BY <1>1, <1>24
  DEF TypeOK, MarkerMatchesLedger, Uncertain, Tick, CountDown, Fault, operatorVars
<1>25. ASSUME UNCHANGED vars PROVE MarkerMatchesLedger'
  BY <1>1, <1>25
  DEF TypeOK, MarkerMatchesLedger, Uncertain, vars, jobVars, workerVars, locals,
      operatorVars
<1>. QED
  BY <1>2, <1>3, <1>4, <1>5, <1>6, <1>7, <1>8, <1>9, <1>10, <1>11, <1>12, <1>13, <1>14,
     <1>15, <1>16, <1>17, <1>18, <1>19, <1>20, <1>21, <1>22, <1>23, <1>24, <1>25
  DEF Next, Worker, Administrator

\* A recorded outcome is what happened.
LEMMA TruthStep ==
    ASSUME IInv, [Next]_vars
    PROVE  (LedgerIsTrue /\ AtMostOneCopy)'
<1>1. TypeOK /\ MarkerMatchesLedger /\ LedgerIsTrue /\ AtMostOneCopy
  BY DEF IInv
<1>2. \A u \in Workers : ContextWithinLease(u) /\ SnapshotIsCurrent(u)
  BY DEF IInv
<1>3. \A p \in Operators : EvidenceIsCurrent(p)
  BY DEF IInv
<1>4. ASSUME NEW w \in Workers, HoldExpired(w) PROVE (LedgerIsTrue /\ AtMostOneCopy)'
  BY <1>1, <1>2, <1>3, <1>4
  DEF TypeOK, LedgerIsTrue, AtMostOneCopy, HoldExpired, Touch, Goto, Expired
<1>5. ASSUME NEW w \in Workers, NEW j \in Jobs, Claim(w, j)
      PROVE  (LedgerIsTrue /\ AtMostOneCopy)'
  BY <1>1, <1>2, <1>3, <1>5
  DEF TypeOK, LedgerIsTrue, AtMostOneCopy, Claim, Touch, Goto, Claimable, Expired
<1>6. ASSUME NEW w \in Workers, NothingToClaim(w) PROVE (LedgerIsTrue /\ AtMostOneCopy)'
  BY <1>1, <1>2, <1>3, <1>6
  DEF TypeOK, LedgerIsTrue, AtMostOneCopy, NothingToClaim, Goto, jobVars, locals,
      operatorVars
<1>7. ASSUME NEW w \in Workers, StartHandler(w) PROVE (LedgerIsTrue /\ AtMostOneCopy)'
  BY <1>1, <1>2, <1>3, <1>7
  DEF TypeOK, LedgerIsTrue, AtMostOneCopy, StartHandler, Goto, HandlerTimeout, jobVars,
      operatorVars
<1>8. ASSUME NEW w \in Workers, Authorize(w) PROVE (LedgerIsTrue /\ AtMostOneCopy)'
  BY <1>1, <1>2, <1>3, <1>8
  DEF TypeOK, LedgerIsTrue, AtMostOneCopy, Authorize, Goto, jobVars, operatorVars
<1>9. ASSUME NEW w \in Workers, List(w) PROVE (LedgerIsTrue /\ AtMostOneCopy)'
  BY <1>1, <1>2, <1>3, <1>9
  DEF TypeOK, LedgerIsTrue, AtMostOneCopy, List, Goto, jobVars, operatorVars
<1>10. ASSUME NEW w \in Workers, SkipSettled(w) PROVE (LedgerIsTrue /\ AtMostOneCopy)'
  BY <1>1, <1>2, <1>3, <1>10
  DEF TypeOK, LedgerIsTrue, AtMostOneCopy, SkipSettled, AtRecipient, jobVars,
      operatorVars
<1>11. ASSUME NEW w \in Workers, Recheck(w) PROVE (LedgerIsTrue /\ AtMostOneCopy)'
  BY <1>1, <1>2, <1>3, <1>11
  DEF TypeOK, LedgerIsTrue, AtMostOneCopy, Recheck, AtRecipient, jobVars, operatorVars
<1>12. ASSUME NEW w \in Workers, Begin(w) PROVE (LedgerIsTrue /\ AtMostOneCopy)'
  BY <1>1, <1>2, <1>3, <1>12
  DEF TypeOK, LedgerIsTrue, AtMostOneCopy, Begin, Touch, Reply, Goto, Fault,
      RecipientSources, BegunMarker
<1>13. ASSUME NEW w \in Workers, Deliver(w) PROVE (LedgerIsTrue /\ AtMostOneCopy)'
  <2>1. PICK taken \in BOOLEAN, reply \in Completions \cup {"none"} :
           /\ taken => timer[w] > 0
           /\ copies' = [copies EXCEPT ![job[w]][cursor[w]] = IF taken THEN @ + 1 ELSE @]
    BY <1>13 DEF Deliver
  <2>2. cursor[w] \in Recipients /\ job[w] \in Jobs /\ pc[w] = "net"
    BY <1>1, <1>2, <1>3, <1>13 DEF TypeOK, SnapshotIsCurrent, Deliver
  <2>3. ledger' = ledger
    BY <1>13 DEF Deliver
  <2>4. CASE taken
    <3>1. copies[job[w]][cursor[w]] = 0 /\ ledger[job[w]][cursor[w]] = "uncertain"
      BY <1>1, <1>2, <1>3, <2>1, <2>2, <2>4
      DEF SnapshotIsCurrent, MarkerMatchesLedger, Uncertain
    <3>2. /\ copies'[job[w]][cursor[w]] = 1
          /\ \A k \in Jobs, r \in Recipients :
                k # job[w] \/ r # cursor[w] => copies'[k][r] = copies[k][r]
      BY <1>1, <1>2, <1>3, <2>1, <2>2, <2>4, <3>1 DEF TypeOK
    <3>. QED BY <1>1, <1>2, <1>3, <2>3, <3>1, <3>2 DEF LedgerIsTrue, AtMostOneCopy
  <2>5. CASE ~taken
    <3>1. \A k \in Jobs, r \in Recipients : copies'[k][r] = copies[k][r]
      BY <1>1, <1>2, <1>3, <2>1, <2>2, <2>5 DEF TypeOK
    <3>. QED BY <1>1, <1>2, <1>3, <2>3, <3>1 DEF LedgerIsTrue, AtMostOneCopy
  <2>. QED BY <2>4, <2>5
<1>14. ASSUME NEW w \in Workers, Complete(w) PROVE (LedgerIsTrue /\ AtMostOneCopy)'
  <2>1. cursor[w] \in Recipients /\ job[w] \in Jobs /\ timer[w] > 0 /\ copies' = copies
    BY <1>1, <1>2, <1>3, <1>14 DEF TypeOK, SnapshotIsCurrent, Complete
  <2>2. /\ snap[w][cursor[w]] \in Completions
        /\ snap[w][cursor[w]] = "accepted" <=> copies[job[w]][cursor[w]] = 1
    BY <1>1, <1>2, <1>3, <1>14, <2>1 DEF SnapshotIsCurrent, Complete
  <2>3. copies[job[w]][cursor[w]] = 0 \/ copies[job[w]][cursor[w]] = 1
    <3>1. copies[job[w]][cursor[w]] \in Nat
      BY <1>1, <1>2, <1>3, <2>1 DEF TypeOK
    <3>2. copies[job[w]][cursor[w]] <= 1
      BY <1>1, <1>2, <1>3, <2>1 DEF AtMostOneCopy
    <3>. QED BY <3>1, <3>2
  <2>4. /\ ledger'[job[w]][cursor[w]] = snap[w][cursor[w]]
        /\ \A k \in Jobs, r \in Recipients :
              k # job[w] \/ r # cursor[w] => ledger'[k][r] = ledger[k][r]
    BY <1>1, <1>2, <1>3, <1>14, <2>1 DEF TypeOK, Complete
  <2>. QED
    BY <1>1, <1>2, <1>3, <2>1, <2>2, <2>3, <2>4
    DEF LedgerIsTrue, AtMostOneCopy, Completions
<1>15. ASSUME NEW w \in Workers, Conclude(w) PROVE (LedgerIsTrue /\ AtMostOneCopy)'
  BY <1>1, <1>2, <1>3, <1>15
  DEF TypeOK, LedgerIsTrue, AtMostOneCopy, Conclude, Goto, Verdict, jobVars,
      operatorVars
<1>16. ASSUME NEW w \in Workers, HandlerFails(w) PROVE (LedgerIsTrue /\ AtMostOneCopy)'
  BY <1>1, <1>2, <1>3, <1>16
  DEF TypeOK, LedgerIsTrue, AtMostOneCopy, HandlerFails, AtRecipient, CallFails, Fault,
      Goto, jobVars, locals, operatorVars
<1>17. ASSUME NEW w \in Workers, Mark(w) PROVE (LedgerIsTrue /\ AtMostOneCopy)'
  BY <1>1, <1>2, <1>3, <1>17
  DEF TypeOK, LedgerIsTrue, AtMostOneCopy, Mark, Finalize, Touch, Return, Goto, Fault,
      FinalState, locals
<1>18. ASSUME NEW w \in Workers, MarkError(w) PROVE (LedgerIsTrue /\ AtMostOneCopy)'
  BY <1>1, <1>2, <1>3, <1>18
  DEF TypeOK, LedgerIsTrue, AtMostOneCopy, MarkError, Finalize, Touch, Return,
      FinalState
<1>19. ASSUME NEW w \in Workers, MarkErrorLost(w) PROVE (LedgerIsTrue /\ AtMostOneCopy)'
  BY <1>1, <1>2, <1>3, <1>19
  DEF TypeOK, LedgerIsTrue, AtMostOneCopy, MarkErrorLost, Return, jobVars, operatorVars
<1>20. ASSUME NEW w \in Workers, Crash(w) PROVE (LedgerIsTrue /\ AtMostOneCopy)'
  BY <1>1, <1>2, <1>3, <1>20
  DEF TypeOK, LedgerIsTrue, AtMostOneCopy, Crash, Fault, Return, jobVars, operatorVars
<1>21. ASSUME NEW o \in Operators, NEW j \in Jobs, Inspect(o, j)
       PROVE  (LedgerIsTrue /\ AtMostOneCopy)'
  BY <1>1, <1>2, <1>3, <1>21
  DEF TypeOK, LedgerIsTrue, AtMostOneCopy, Inspect, jobVars, workerVars, locals
<1>22. ASSUME NEW o \in Operators, Reconcile(o) PROVE (LedgerIsTrue /\ AtMostOneCopy)'
  <2>1. PICK j \in Jobs : \E chosen \in SUBSET Uncertain(j) :
           \E result \in [chosen -> Completions] : Reconciles(o, j, chosen, result)
    BY <1>22 DEF Reconcile
  <2>2. PICK chosen \in SUBSET Uncertain(j) :
           \E result \in [chosen -> Completions] : Reconciles(o, j, chosen, result)
    BY <2>1
  <2>3. PICK result \in [chosen -> Completions] : Reconciles(o, j, chosen, result)
    BY <2>2
  <2>4. /\ \A r \in chosen : result[r] = "accepted" <=> copies[j][r] = 1
        /\ copies' = copies /\ chosen \subseteq Recipients
    BY <1>1, <1>2, <1>3, <2>3 DEF EvidenceIsCurrent, Reconciles, VersionMatches, Uncertain
  <2>5. \A r \in Recipients : copies[j][r] = 0 \/ copies[j][r] = 1
    <3>1. \A r \in Recipients : copies[j][r] \in Nat
      BY <1>1, <1>2, <1>3 DEF TypeOK
    <3>2. \A r \in Recipients : copies[j][r] <= 1
      BY <1>1, <1>2, <1>3 DEF AtMostOneCopy
    <3>. QED BY <3>1, <3>2
  <2>6. /\ \A r \in chosen : ledger'[j][r] = result[r]
        /\ \A r \in Recipients \ chosen : ledger'[j][r] = ledger[j][r]
        /\ \A k \in Jobs \ {j} : ledger'[k] = ledger[k]
    BY <1>1, <1>2, <1>3, <2>3, <2>4 DEF TypeOK, Reconciles, Reconciled
  <2>7. \A r \in Recipients :
           /\ ledger'[j][r] = "accepted" => copies[j][r] = 1
           /\ ledger'[j][r] \in {"pending", "temporary", "permanent"} => copies[j][r] = 0
    BY <1>1, <1>2, <1>3, <2>4, <2>5, <2>6 DEF LedgerIsTrue, Completions
  <2>. QED BY <1>1, <1>2, <1>3, <2>4, <2>6, <2>7 DEF LedgerIsTrue, AtMostOneCopy
<1>23. ASSUME NEW j \in Jobs, Requeue(j) PROVE (LedgerIsTrue /\ AtMostOneCopy)'
  BY <1>1, <1>2, <1>3, <1>23
  DEF TypeOK, LedgerIsTrue, AtMostOneCopy, Requeue, Touch, workerVars, locals
<1>24. ASSUME NEW j \in Jobs, ChangeAuthority(j) PROVE (LedgerIsTrue /\ AtMostOneCopy)'
  BY <1>1, <1>2, <1>3, <1>24
  DEF TypeOK, LedgerIsTrue, AtMostOneCopy, ChangeAuthority, jobVars, workerVars,
      operatorVars, locals
<1>25. ASSUME Offboard PROVE (LedgerIsTrue /\ AtMostOneCopy)'
  BY <1>1, <1>2, <1>3, <1>25
  DEF TypeOK, LedgerIsTrue, AtMostOneCopy, Offboard, Touch, workerVars, locals
<1>26. ASSUME Tick PROVE (LedgerIsTrue /\ AtMostOneCopy)'
  BY <1>1, <1>2, <1>3, <1>26
  DEF TypeOK, LedgerIsTrue, AtMostOneCopy, Tick, CountDown, Fault, operatorVars
<1>27. ASSUME UNCHANGED vars PROVE (LedgerIsTrue /\ AtMostOneCopy)'
  BY <1>1, <1>2, <1>3, <1>27
  DEF TypeOK, LedgerIsTrue, AtMostOneCopy, vars, jobVars, workerVars, locals,
      operatorVars
<1>. QED
  BY <1>4, <1>5, <1>6, <1>7, <1>8, <1>9, <1>10, <1>11, <1>12, <1>13, <1>14, <1>15,
     <1>16, <1>17, <1>18, <1>19, <1>20, <1>21, <1>22, <1>23, <1>24, <1>25, <1>26, <1>27
  DEF Next, Worker, Administrator

\* Only a fully accepted envelope is sent.
LEMMA SentStep ==
    ASSUME IInv, [Next]_vars
    PROVE  SentIsAccepted'
<1>1. TypeOK /\ SentIsAccepted
  BY DEF IInv
<1>2. \A u \in Workers : ContextWithinLease(u) /\ SnapshotIsCurrent(u)
  BY DEF IInv
<1>3. ASSUME NEW w \in Workers, HoldExpired(w) PROVE SentIsAccepted'
  BY <1>1, <1>2, <1>3
  DEF TypeOK, SentIsAccepted, LeaseOwned, HoldExpired, Touch, Goto, Expired
<1>4. ASSUME NEW w \in Workers, NEW j \in Jobs, Claim(w, j) PROVE SentIsAccepted'
  BY <1>1, <1>2, <1>4
  DEF TypeOK, SentIsAccepted, LeaseOwned, Claim, Touch, Goto, Claimable, Expired
<1>5. ASSUME NEW w \in Workers, NothingToClaim(w) PROVE SentIsAccepted'
  BY <1>1, <1>2, <1>5
  DEF TypeOK, SentIsAccepted, LeaseOwned, NothingToClaim, Goto, jobVars, locals,
      operatorVars
<1>6. ASSUME NEW w \in Workers, StartHandler(w) PROVE SentIsAccepted'
  BY <1>1, <1>2, <1>6
  DEF TypeOK, SentIsAccepted, LeaseOwned, StartHandler, Goto, HandlerTimeout, jobVars,
      operatorVars
<1>7. ASSUME NEW w \in Workers, Authorize(w) PROVE SentIsAccepted'
  BY <1>1, <1>2, <1>7
  DEF TypeOK, SentIsAccepted, LeaseOwned, Authorize, Goto, jobVars, operatorVars
<1>8. ASSUME NEW w \in Workers, List(w) PROVE SentIsAccepted'
  BY <1>1, <1>2, <1>8
  DEF TypeOK, SentIsAccepted, LeaseOwned, List, Goto, jobVars, operatorVars
<1>9. ASSUME NEW w \in Workers, SkipSettled(w) PROVE SentIsAccepted'
  BY <1>1, <1>2, <1>9
  DEF TypeOK, SentIsAccepted, LeaseOwned, SkipSettled, AtRecipient, jobVars,
      operatorVars
<1>10. ASSUME NEW w \in Workers, Recheck(w) PROVE SentIsAccepted'
  BY <1>1, <1>2, <1>10
  DEF TypeOK, SentIsAccepted, LeaseOwned, Recheck, AtRecipient, jobVars, operatorVars
<1>11. ASSUME NEW w \in Workers, Begin(w) PROVE SentIsAccepted'
  BY <1>1, <1>2, <1>11
  DEF TypeOK, SentIsAccepted, LeaseOwned, Begin, Touch, Reply, Goto, Fault,
      RecipientSources, BegunMarker
<1>12. ASSUME NEW w \in Workers, Deliver(w) PROVE SentIsAccepted'
  BY <1>1, <1>2, <1>12
  DEF TypeOK, SentIsAccepted, LeaseOwned, Deliver, Goto, Outcome, Completions, jobVars,
      operatorVars
<1>13. ASSUME NEW w \in Workers, Complete(w) PROVE SentIsAccepted'
  BY <1>1, <1>2, <1>13
  DEF TypeOK, SentIsAccepted, LeaseOwned, Complete, Touch, Reply, Goto, Fault,
      RecipientSources
<1>14. ASSUME NEW w \in Workers, Conclude(w) PROVE SentIsAccepted'
  BY <1>1, <1>2, <1>14
  DEF TypeOK, SentIsAccepted, LeaseOwned, Conclude, Goto, Verdict, jobVars, operatorVars
<1>15. ASSUME NEW w \in Workers, HandlerFails(w) PROVE SentIsAccepted'
  BY <1>1, <1>2, <1>15
  DEF TypeOK, SentIsAccepted, LeaseOwned, HandlerFails, AtRecipient, CallFails, Fault,
      Goto, jobVars, locals, operatorVars
<1>16. ASSUME NEW w \in Workers, Mark(w) PROVE SentIsAccepted'
  <2>1. job[w] \in Jobs /\ ledger' = ledger /\ pc[w] = "mark" /\ timer[w] > 0
    BY <1>1, <1>2, <1>16 DEF TypeOK, Mark, Finalize
  <2>2. \A k \in Jobs \ {job[w]} : state'[k] = state[k]
    BY <1>1, <1>2, <1>16, <2>1 DEF TypeOK, Mark, Finalize
  <2>3. state'[job[w]] = "sent" => event[w] = "sent"
    BY <1>1, <1>2, <1>16, <2>1 DEF TypeOK, Mark, Finalize, FinalState
  <2>4. event[w] = "sent" => \A r \in Recipients : ledger[job[w]][r] = "accepted"
    BY <1>1, <1>2, <2>1 DEF SnapshotIsCurrent
  <2>. QED BY <1>1, <1>2, <2>1, <2>2, <2>3, <2>4 DEF SentIsAccepted
<1>17. ASSUME NEW w \in Workers, MarkError(w) PROVE SentIsAccepted'
  BY <1>1, <1>2, <1>17
  DEF TypeOK, SentIsAccepted, LeaseOwned, MarkError, Finalize, Touch, Return, FinalState
<1>18. ASSUME NEW w \in Workers, MarkErrorLost(w) PROVE SentIsAccepted'
  BY <1>1, <1>2, <1>18
  DEF TypeOK, SentIsAccepted, LeaseOwned, MarkErrorLost, Return, jobVars, operatorVars
<1>19. ASSUME NEW w \in Workers, Crash(w) PROVE SentIsAccepted'
  BY <1>1, <1>2, <1>19
  DEF TypeOK, SentIsAccepted, LeaseOwned, Crash, Fault, Return, jobVars, operatorVars
<1>20. ASSUME NEW o \in Operators, NEW j \in Jobs, Inspect(o, j) PROVE SentIsAccepted'
  BY <1>1, <1>2, <1>20
  DEF TypeOK, SentIsAccepted, LeaseOwned, Inspect, jobVars, workerVars, locals
<1>21. ASSUME NEW o \in Operators, Reconcile(o) PROVE SentIsAccepted'
  <2>1. PICK j \in Jobs : \E chosen \in SUBSET Uncertain(j) :
           \E result \in [chosen -> Completions] : Reconciles(o, j, chosen, result)
    BY <1>21 DEF Reconcile
  <2>2. PICK chosen \in SUBSET Uncertain(j) :
           \E result \in [chosen -> Completions] : Reconciles(o, j, chosen, result)
    BY <2>1
  <2>3. PICK result \in [chosen -> Completions] : Reconciles(o, j, chosen, result)
    BY <2>2
  <2>4. \A k \in Jobs \ {j} : ledger'[k] = ledger[k] /\ state'[k] = state[k]
    BY <1>1, <1>2, <2>3 DEF TypeOK, Reconciles
  <2>5. state[j] # "sent"
    BY <1>1, <1>2, <2>3 DEF SentIsAccepted, Reconciles, Uncertain
  <2>6. ASSUME state'[j] = "sent" PROVE \A r \in Recipients : ledger'[j][r] = "accepted"
    <3>1. {Reconciled(j, chosen, result)[r] : r \in Recipients} = {"accepted"}
      BY <1>1, <1>2, <2>3, <2>5, <2>6 DEF TypeOK, Reconciles, ReconciledState
    <3>2. ledger'[j] = Reconciled(j, chosen, result)
      BY <1>1, <1>2, <2>3 DEF TypeOK, Reconciles
    <3>. QED BY <3>1, <3>2
  <2>. QED BY <1>1, <1>2, <2>4, <2>6 DEF SentIsAccepted
<1>22. ASSUME NEW j \in Jobs, Requeue(j) PROVE SentIsAccepted'
  BY <1>1, <1>2, <1>22
  DEF TypeOK, SentIsAccepted, LeaseOwned, Requeue, Touch, workerVars, locals
<1>23. ASSUME NEW j \in Jobs, ChangeAuthority(j) PROVE SentIsAccepted'
  BY <1>1, <1>2, <1>23
  DEF TypeOK, SentIsAccepted, LeaseOwned, ChangeAuthority, jobVars, workerVars,
      operatorVars, locals
<1>24. ASSUME Offboard PROVE SentIsAccepted'
  BY <1>1, <1>2, <1>24
  DEF TypeOK, SentIsAccepted, LeaseOwned, Cancellable, Offboard, Touch, workerVars,
      locals
<1>25. ASSUME Tick PROVE SentIsAccepted'
  BY <1>1, <1>2, <1>25
  DEF TypeOK, SentIsAccepted, LeaseOwned, Tick, CountDown, Fault, operatorVars
<1>26. ASSUME UNCHANGED vars PROVE SentIsAccepted'
  BY <1>1, <1>2, <1>26
  DEF TypeOK, SentIsAccepted, LeaseOwned, vars, jobVars, workerVars, locals,
      operatorVars
<1>. QED
  BY <1>3, <1>4, <1>5, <1>6, <1>7, <1>8, <1>9, <1>10, <1>11, <1>12, <1>13, <1>14, <1>15,
     <1>16, <1>17, <1>18, <1>19, <1>20, <1>21, <1>22, <1>23, <1>24, <1>25, <1>26
  DEF Next, Worker, Administrator

\* Whatever ends a claim makes earlier inspections stale.
LEMMA EvidenceStep ==
    ASSUME IInv, [Next]_vars
    PROVE  \A p \in Operators : EvidenceIsCurrent(p)'
<1>1. TypeOK /\ \A p \in Operators : EvidenceIsCurrent(p)
  BY DEF IInv
<1>2. \A u \in Workers : ContextWithinLease(u) /\ SnapshotIsCurrent(u)
  BY DEF IInv
<1>3. AtMostOneCopy
  BY DEF IInv
<1>4. ASSUME NEW w \in Workers, HoldExpired(w)
      PROVE  \A p \in Operators : EvidenceIsCurrent(p)'
  BY <1>1, <1>2, <1>3, <1>4 DEF TypeOK, EvidenceIsCurrent, HoldExpired, Touch, Goto, Expired
<1>5. ASSUME NEW w \in Workers, NEW j \in Jobs, Claim(w, j)
      PROVE  \A p \in Operators : EvidenceIsCurrent(p)'
  BY <1>1, <1>2, <1>3, <1>5
  DEF TypeOK, EvidenceIsCurrent, Claim, Touch, Goto, Claimable, Expired
<1>6. ASSUME NEW w \in Workers, NothingToClaim(w)
      PROVE  \A p \in Operators : EvidenceIsCurrent(p)'
  BY <1>1, <1>2, <1>3, <1>6
  DEF TypeOK, EvidenceIsCurrent, NothingToClaim, Goto, jobVars, locals, operatorVars
<1>7. ASSUME NEW w \in Workers, StartHandler(w)
      PROVE  \A p \in Operators : EvidenceIsCurrent(p)'
  BY <1>1, <1>2, <1>3, <1>7
  DEF TypeOK, EvidenceIsCurrent, StartHandler, Goto, HandlerTimeout, jobVars,
      operatorVars
<1>8. ASSUME NEW w \in Workers, Authorize(w)
      PROVE  \A p \in Operators : EvidenceIsCurrent(p)'
  BY <1>1, <1>2, <1>3, <1>8
  DEF TypeOK, EvidenceIsCurrent, Authorize, Goto, jobVars, operatorVars
<1>9. ASSUME NEW w \in Workers, List(w) PROVE \A p \in Operators : EvidenceIsCurrent(p)'
  BY <1>1, <1>2, <1>3, <1>9 DEF TypeOK, EvidenceIsCurrent, List, Goto, jobVars, operatorVars
<1>10. ASSUME NEW w \in Workers, SkipSettled(w)
       PROVE  \A p \in Operators : EvidenceIsCurrent(p)'
  BY <1>1, <1>2, <1>3, <1>10
  DEF TypeOK, EvidenceIsCurrent, SkipSettled, AtRecipient, jobVars, operatorVars
<1>11. ASSUME NEW w \in Workers, Recheck(w) PROVE \A p \in Operators : EvidenceIsCurrent(p)'
  BY <1>1, <1>2, <1>3, <1>11
  DEF TypeOK, EvidenceIsCurrent, Recheck, AtRecipient, jobVars, operatorVars
<1>12. ASSUME NEW w \in Workers, Begin(w) PROVE \A p \in Operators : EvidenceIsCurrent(p)'
  BY <1>1, <1>2, <1>3, <1>12
  DEF TypeOK, EvidenceIsCurrent, Begin, Touch, Reply, Goto, Fault, RecipientSources,
      BegunMarker
<1>13. ASSUME NEW w \in Workers, Deliver(w) PROVE \A p \in Operators : EvidenceIsCurrent(p)'
  <2>1. PICK taken \in BOOLEAN, reply \in Completions \cup {"none"} :
           /\ taken => timer[w] > 0
           /\ copies' = [copies EXCEPT ![job[w]][cursor[w]] = IF taken THEN @ + 1 ELSE @]
    BY <1>13 DEF Deliver
  <2>2. cursor[w] \in Recipients /\ job[w] \in Jobs /\ pc[w] = "net"
    BY <1>1, <1>2, <1>3, <1>13 DEF TypeOK, SnapshotIsCurrent, Deliver
  <2>3. UNCHANGED <<state, inspected, seen, current>>
    BY <1>13 DEF Deliver, jobVars, operatorVars
  <2>4. \A k \in Jobs : state[k] # "processing" => \A r \in Recipients : copies'[k][r] = copies[k][r]
    <3>1. CASE taken
      <4>1. state[job[w]] = "processing"
        BY <1>1, <1>2, <1>3, <2>1, <2>2, <3>1 DEF ContextWithinLease, InHandler, LeaseOwned
      <4>. QED BY <1>1, <1>2, <1>3, <2>1, <2>2, <4>1 DEF TypeOK
    <3>2. CASE ~taken
      BY <1>1, <1>2, <1>3, <2>1, <2>2, <3>2 DEF TypeOK
    <3>. QED BY <3>1, <3>2
  <2>. QED BY <1>1, <1>2, <1>3, <2>3, <2>4 DEF TypeOK, EvidenceIsCurrent
<1>14. ASSUME NEW w \in Workers, Complete(w)
       PROVE  \A p \in Operators : EvidenceIsCurrent(p)'
  BY <1>1, <1>2, <1>3, <1>14
  DEF TypeOK, EvidenceIsCurrent, Complete, Touch, Reply, Goto, Fault, RecipientSources
<1>15. ASSUME NEW w \in Workers, Conclude(w)
       PROVE  \A p \in Operators : EvidenceIsCurrent(p)'
  BY <1>1, <1>2, <1>3, <1>15
  DEF TypeOK, EvidenceIsCurrent, Conclude, Goto, Verdict, jobVars, operatorVars
<1>16. ASSUME NEW w \in Workers, HandlerFails(w)
       PROVE  \A p \in Operators : EvidenceIsCurrent(p)'
  BY <1>1, <1>2, <1>3, <1>16
  DEF TypeOK, EvidenceIsCurrent, HandlerFails, AtRecipient, CallFails, Fault, Goto,
      jobVars, locals, operatorVars
<1>17. ASSUME NEW w \in Workers, Mark(w) PROVE \A p \in Operators : EvidenceIsCurrent(p)'
  BY <1>1, <1>2, <1>3, <1>17
  DEF TypeOK, EvidenceIsCurrent, Mark, Finalize, Touch, Return, Goto, Fault, FinalState,
      locals
<1>18. ASSUME NEW w \in Workers, MarkError(w)
       PROVE  \A p \in Operators : EvidenceIsCurrent(p)'
  BY <1>1, <1>2, <1>3, <1>18
  DEF TypeOK, EvidenceIsCurrent, MarkError, Finalize, Touch, Return, FinalState
<1>19. ASSUME NEW w \in Workers, MarkErrorLost(w)
       PROVE  \A p \in Operators : EvidenceIsCurrent(p)'
  BY <1>1, <1>2, <1>3, <1>19
  DEF TypeOK, EvidenceIsCurrent, MarkErrorLost, Return, jobVars, operatorVars
<1>20. ASSUME NEW w \in Workers, Crash(w) PROVE \A p \in Operators : EvidenceIsCurrent(p)'
  BY <1>1, <1>2, <1>3, <1>20
  DEF TypeOK, EvidenceIsCurrent, Crash, Fault, Return, jobVars, operatorVars
<1>21. ASSUME NEW o \in Operators, NEW j \in Jobs, Inspect(o, j)
       PROVE  \A p \in Operators : EvidenceIsCurrent(p)'
  BY <1>1, <1>2, <1>3, <1>21
  DEF TypeOK, EvidenceIsCurrent, AtMostOneCopy, Inspect, jobVars, workerVars, locals
<1>22. ASSUME NEW o \in Operators, Reconcile(o)
       PROVE  \A p \in Operators : EvidenceIsCurrent(p)'
  BY <1>1, <1>2, <1>3, <1>22
  DEF TypeOK, EvidenceIsCurrent, Reconcile, Reconciles, Touch, Resolved,
      ReconciledState, Uncertain, Completions, VersionMatches, workerVars, locals
<1>23. ASSUME NEW j \in Jobs, Requeue(j) PROVE \A p \in Operators : EvidenceIsCurrent(p)'
  BY <1>1, <1>2, <1>3, <1>23
  DEF TypeOK, EvidenceIsCurrent, Requeue, Touch, workerVars, locals
<1>24. ASSUME NEW j \in Jobs, ChangeAuthority(j)
       PROVE  \A p \in Operators : EvidenceIsCurrent(p)'
  BY <1>1, <1>2, <1>3, <1>24
  DEF TypeOK, EvidenceIsCurrent, ChangeAuthority, jobVars, workerVars, operatorVars,
      locals
<1>25. ASSUME Offboard PROVE \A p \in Operators : EvidenceIsCurrent(p)'
  BY <1>1, <1>2, <1>3, <1>25
  DEF TypeOK, EvidenceIsCurrent, Offboard, Touch, workerVars, locals
<1>26. ASSUME Tick PROVE \A p \in Operators : EvidenceIsCurrent(p)'
  BY <1>1, <1>2, <1>3, <1>26
  DEF TypeOK, EvidenceIsCurrent, Tick, CountDown, Fault, operatorVars
<1>27. ASSUME UNCHANGED vars PROVE \A p \in Operators : EvidenceIsCurrent(p)'
  BY <1>1, <1>2, <1>3, <1>27
  DEF TypeOK, EvidenceIsCurrent, vars, jobVars, workerVars, locals, operatorVars
<1>. QED
  BY <1>4, <1>5, <1>6, <1>7, <1>8, <1>9, <1>10, <1>11, <1>12, <1>13, <1>14, <1>15,
     <1>16, <1>17, <1>18, <1>19, <1>20, <1>21, <1>22, <1>23, <1>24, <1>25, <1>26, <1>27
  DEF Next, Worker, Administrator

---------------------------------------------------------------------------
(* The invariant is inductive                                               *)

\* Freshly inserted rows, and rows the migration put on hold, satisfy it.
LEMMA InitialInvariant == Init => IInv
<1>. SUFFICES ASSUME Init PROVE IInv
  OBVIOUS
<1>1. TypeOK
  <2>1. 1 \in 1..(NumRecipients + 1) /\ 0..1 \subseteq Nat
    BY BoundsAssumption
  <2>2. /\ state \in [Jobs -> JobStates] /\ marker \in [Jobs -> Markers]
        /\ ledger \in [Jobs -> [Recipients -> RecipientStates]]
    BY DEF Init, JobStates, Markers, RecipientStates
  <2>3. attempts \in [Jobs -> Nat]
    BY <2>1 DEF Init
  <2>4. copies \in [Jobs -> [Recipients -> Nat]]
    BY <2>1 DEF Init
  <2>5. /\ token \in [Jobs -> Nat] /\ lease \in [Jobs -> Nat] /\ wait \in [Jobs -> Nat]
        /\ authorized \in [Jobs -> BOOLEAN]
        /\ issued \in Nat /\ faults \in Nat /\ requeues \in Nat
    BY DEF Init, NoToken
  <2>6. /\ pc \in [Workers -> {"idle"}] /\ job \in [Workers -> Jobs]
        /\ held \in [Workers -> Nat] /\ timer \in [Workers -> Nat]
        /\ snap \in [Workers -> [Recipients -> RecipientStates]]
        /\ cursor \in [Workers -> 1..(NumRecipients + 1)]
        /\ event \in [Workers -> {"sent", "failed"}]
    BY <2>1, AnyJobInJobs DEF Init, NoToken, RecipientStates
  <2>7. /\ inspected \in [Operators -> Jobs] /\ seen \in [Operators -> SUBSET Recipients]
        /\ current \in [Operators -> BOOLEAN]
    BY AnyJobInJobs DEF Init
  <2>. QED BY <2>2, <2>3, <2>4, <2>5, <2>6, <2>7 DEF TypeOK
<1>2. \A j \in Jobs : HeldLegacyJob(j) \/ FreshJob(j)
  BY DEF Init
<1>3. ClaimsDistinct /\ \A w \in Workers : ContextWithinLease(w) /\ SnapshotIsCurrent(w)
  BY
  DEF Init, ClaimsDistinct, ContextWithinLease, SnapshotIsCurrent, InHandler, Busy,
      NoToken
<1>4. MarkerMatchesLedger
  BY <1>2, BoundsAssumption
  DEF MarkerMatchesLedger, HeldLegacyJob, FreshJob, Uncertain, NoMarker, LegacyMarker, Recipients
<1>5. LedgerIsTrue
  BY <1>2 DEF LedgerIsTrue, HeldLegacyJob, FreshJob
<1>6. AtMostOneCopy
  <2>1. \A j \in Jobs, r \in Recipients : copies[j][r] \in 0..1
    BY DEF Init
  <2>. QED BY <2>1 DEF AtMostOneCopy
<1>7. SentIsAccepted
  BY <1>2 DEF SentIsAccepted, HeldLegacyJob, FreshJob
<1>8. \A o \in Operators : EvidenceIsCurrent(o)
  BY DEF Init, EvidenceIsCurrent
<1>. QED BY <1>1, <1>3, <1>4, <1>5, <1>6, <1>7, <1>8 DEF IInv

\* Every step of a worker, an administrator or the clock preserves it.
LEMMA InvariantStep == IInv /\ [Next]_vars => IInv'
<1>. SUFFICES ASSUME IInv, [Next]_vars PROVE IInv'
  OBVIOUS
<1>1. TypeOK' /\ ClaimsDistinct'
  BY TypeStep, ClaimsStep
<1>2. \A w \in Workers : ContextWithinLease(w)'
  BY ContextStep
<1>3. \A w \in Workers : SnapshotIsCurrent(w)'
  BY SnapshotStep
<1>4. MarkerMatchesLedger' /\ (LedgerIsTrue /\ AtMostOneCopy)' /\ SentIsAccepted'
  BY MarkerStep, TruthStep, SentStep
<1>5. \A o \in Operators : EvidenceIsCurrent(o)'
  BY EvidenceStep
<1>. QED BY <1>1, <1>2, <1>3, <1>4, <1>5 DEF IInv

---------------------------------------------------------------------------
(* Safety                                                                   *)

\* What workers and operators believe of the ledger and of the next hop stays
\* true in every reachable state, for any number of jobs, recipients, workers
\* and operators, any lease longer than the handler, and any faults.
THEOREM InvariantHolds == Spec => []IInv
  BY InitialInvariant, InvariantStep, PTL DEF Spec

\* The rows and the workers' locals keep their types.
THEOREM TypesHold == Spec => []TypeOK
<1>1. IInv => TypeOK
  BY DEF IInv
<1>. QED BY <1>1, InvariantHolds, PTL

\* No recipient ever gets a second copy, whatever crashes, lapsed leases, lost
\* replies, retries and reconciliations happen.
THEOREM NoDuplicates == Spec => []AtMostOneCopy
<1>1. IInv => AtMostOneCopy
  BY DEF IInv
<1>. QED BY <1>1, InvariantHolds, PTL

\* outbound_recipients never records an outcome that did not happen.
THEOREM LedgerTells == Spec => []LedgerIsTrue
<1>1. IInv => LedgerIsTrue
  BY DEF IInv
<1>. QED BY <1>1, InvariantHolds, PTL

\* in_flight_domain and the uncertain rows of the ledger agree.
THEOREM MarkerAgrees == Spec => []MarkerMatchesLedger
<1>1. IInv => MarkerMatchesLedger
  BY DEF IInv
<1>. QED BY <1>1, InvariantHolds, PTL

\* A job is reported sent only when every recipient has exactly one copy.
THEOREM SentMeansDelivered == Spec => []SentIsDelivered
<1>1. IInv => SentIsDelivered
  BY DEF IInv, SentIsAccepted, LedgerIsTrue, SentIsDelivered
<1>. QED BY <1>1, InvariantHolds, PTL

\* A worker with a live context that is about to use the network is the only
\* owner of its job, and the job's marker says so.
THEOREM SenderIsOwner == Spec => []SenderOwnsJob
<1>1. IInv => SenderOwnsJob
  BY DEF IInv, ContextWithinLease, SnapshotIsCurrent, InHandler, SenderOwnsJob
<1>. QED BY <1>1, InvariantHolds, PTL

---------------------------------------------------------------------------
(* Action properties                                                        *)

\* Only a reconciliation that leaves no outcome unknown lifts a hold.
LEMMA HoldStep ==
    ASSUME IInv, [Next]_vars
    PROVE  HoldEndsWithEvidence
<1>1. TypeOK /\ \A u \in Workers : ContextWithinLease(u)
  BY DEF IInv
<1>2. ASSUME NEW w \in Workers, HoldExpired(w) PROVE HoldEndsWithEvidence
  BY <1>1, <1>2 DEF TypeOK, HoldEndsWithEvidence, OnHold, HoldExpired, Touch, Goto, Expired
<1>3. ASSUME NEW w \in Workers, NEW j \in Jobs, Claim(w, j) PROVE HoldEndsWithEvidence
  BY <1>1, <1>3
  DEF TypeOK, HoldEndsWithEvidence, OnHold, Claim, Touch, Goto, Claimable, Expired
<1>4. ASSUME NEW w \in Workers, NothingToClaim(w) PROVE HoldEndsWithEvidence
  BY <1>1, <1>4
  DEF TypeOK, HoldEndsWithEvidence, OnHold, NothingToClaim, Goto, jobVars, locals,
      operatorVars
<1>5. ASSUME NEW w \in Workers, StartHandler(w) PROVE HoldEndsWithEvidence
  BY <1>1, <1>5
  DEF TypeOK, HoldEndsWithEvidence, OnHold, StartHandler, Goto, HandlerTimeout, jobVars,
      operatorVars
<1>6. ASSUME NEW w \in Workers, Authorize(w) PROVE HoldEndsWithEvidence
  BY <1>1, <1>6
  DEF TypeOK, HoldEndsWithEvidence, OnHold, Authorize, Goto, jobVars, operatorVars
<1>7. ASSUME NEW w \in Workers, List(w) PROVE HoldEndsWithEvidence
  BY <1>1, <1>7 DEF TypeOK, HoldEndsWithEvidence, OnHold, List, Goto, jobVars, operatorVars
<1>8. ASSUME NEW w \in Workers, SkipSettled(w) PROVE HoldEndsWithEvidence
  BY <1>1, <1>8
  DEF TypeOK, HoldEndsWithEvidence, OnHold, SkipSettled, AtRecipient, jobVars,
      operatorVars
<1>9. ASSUME NEW w \in Workers, Recheck(w) PROVE HoldEndsWithEvidence
  BY <1>1, <1>9
  DEF TypeOK, HoldEndsWithEvidence, OnHold, Recheck, AtRecipient, jobVars, operatorVars
<1>10. ASSUME NEW w \in Workers, Begin(w) PROVE HoldEndsWithEvidence
  BY <1>1, <1>10
  DEF TypeOK, HoldEndsWithEvidence, OnHold, LeaseOwned, Begin, Touch, Reply, Goto,
      Fault, RecipientSources, BegunMarker
<1>11. ASSUME NEW w \in Workers, Deliver(w) PROVE HoldEndsWithEvidence
  BY <1>1, <1>11
  DEF TypeOK, HoldEndsWithEvidence, OnHold, Deliver, Goto, Outcome, Completions,
      jobVars, operatorVars
<1>12. ASSUME NEW w \in Workers, Complete(w) PROVE HoldEndsWithEvidence
  BY <1>1, <1>12
  DEF TypeOK, HoldEndsWithEvidence, OnHold, LeaseOwned, Complete, Touch, Reply, Goto,
      Fault, RecipientSources
<1>13. ASSUME NEW w \in Workers, Conclude(w) PROVE HoldEndsWithEvidence
  BY <1>1, <1>13
  DEF TypeOK, HoldEndsWithEvidence, OnHold, Conclude, Goto, Verdict, jobVars,
      operatorVars
<1>14. ASSUME NEW w \in Workers, HandlerFails(w) PROVE HoldEndsWithEvidence
  BY <1>1, <1>14
  DEF TypeOK, HoldEndsWithEvidence, OnHold, HandlerFails, AtRecipient, CallFails, Fault,
      Goto, jobVars, locals, operatorVars
<1>15. ASSUME NEW w \in Workers, Mark(w) PROVE HoldEndsWithEvidence
  BY <1>1, <1>15
  DEF TypeOK, HoldEndsWithEvidence, OnHold, LeaseOwned, Mark, Finalize, Touch, Return,
      Goto, Fault, FinalState, locals
<1>16. ASSUME NEW w \in Workers, MarkError(w) PROVE HoldEndsWithEvidence
  BY <1>1, <1>16
  DEF TypeOK, HoldEndsWithEvidence, OnHold, LeaseOwned, MarkError, Finalize, Touch,
      Return, FinalState
<1>17. ASSUME NEW w \in Workers, MarkErrorLost(w) PROVE HoldEndsWithEvidence
  BY <1>1, <1>17
  DEF TypeOK, HoldEndsWithEvidence, OnHold, MarkErrorLost, Return, jobVars, operatorVars
<1>18. ASSUME NEW w \in Workers, Crash(w) PROVE HoldEndsWithEvidence
  BY <1>1, <1>18
  DEF TypeOK, HoldEndsWithEvidence, OnHold, Crash, Fault, Return, jobVars, operatorVars
<1>19. ASSUME NEW o \in Operators, NEW j \in Jobs, Inspect(o, j) PROVE HoldEndsWithEvidence
  BY <1>1, <1>19
  DEF TypeOK, HoldEndsWithEvidence, OnHold, Inspect, jobVars, workerVars, locals
<1>20. ASSUME NEW o \in Operators, Reconcile(o) PROVE HoldEndsWithEvidence
  <2>1. PICK j \in Jobs : \E chosen \in SUBSET Uncertain(j) :
           \E result \in [chosen -> Completions] : Reconciles(o, j, chosen, result)
    BY <1>20 DEF Reconcile
  <2>2. PICK chosen \in SUBSET Uncertain(j) :
           \E result \in [chosen -> Completions] : Reconciles(o, j, chosen, result)
    BY <2>1
  <2>3. PICK result \in [chosen -> Completions] : Reconciles(o, j, chosen, result)
    BY <2>2
  <2>4. \A k \in Jobs \ {j} : marker'[k] = marker[k] /\ state'[k] = state[k]
    BY <1>1, <2>3 DEF TypeOK, Reconciles
  <2>5. CASE Resolved({Reconciled(j, chosen, result)[r] : r \in Recipients})
    <3>1. state'[j] \in {"sent", "failed"}
      BY <1>1, <2>3, <2>5 DEF TypeOK, Reconciles, ReconciledState
    <3>2. ledger'[j] = Reconciled(j, chosen, result)
      BY <1>1, <2>3 DEF TypeOK, Reconciles
    <3>3. \A r \in Recipients : ledger'[j][r] # "uncertain"
      BY <2>5, <3>2 DEF Resolved
    <3>. QED BY <2>4, <3>1, <3>3 DEF HoldEndsWithEvidence, OnHold
  <2>6. CASE ~Resolved({Reconciled(j, chosen, result)[r] : r \in Recipients})
    BY <2>3, <2>6 DEF HoldEndsWithEvidence, OnHold, Reconciles
  <2>. QED BY <2>5, <2>6
<1>21. ASSUME NEW j \in Jobs, Requeue(j) PROVE HoldEndsWithEvidence
  BY <1>1, <1>21
  DEF TypeOK, HoldEndsWithEvidence, OnHold, Requeue, Touch, workerVars, locals
<1>22. ASSUME NEW j \in Jobs, ChangeAuthority(j) PROVE HoldEndsWithEvidence
  BY <1>1, <1>22
  DEF TypeOK, HoldEndsWithEvidence, OnHold, ChangeAuthority, jobVars, workerVars,
      operatorVars, locals
<1>23. ASSUME Offboard PROVE HoldEndsWithEvidence
  BY <1>1, <1>23
  DEF TypeOK, HoldEndsWithEvidence, OnHold, Offboard, Touch, workerVars, locals
<1>24. ASSUME Tick PROVE HoldEndsWithEvidence
  BY <1>1, <1>24
  DEF TypeOK, HoldEndsWithEvidence, OnHold, Tick, CountDown, Fault, operatorVars
<1>25. ASSUME UNCHANGED vars PROVE HoldEndsWithEvidence
  BY <1>1, <1>25
  DEF TypeOK, HoldEndsWithEvidence, OnHold, vars, jobVars, workerVars, locals,
      operatorVars
<1>. QED
  BY <1>2, <1>3, <1>4, <1>5, <1>6, <1>7, <1>8, <1>9, <1>10, <1>11, <1>12, <1>13, <1>14,
     <1>15, <1>16, <1>17, <1>18, <1>19, <1>20, <1>21, <1>22, <1>23, <1>24, <1>25
  DEF Next, Worker, Administrator

\* A hold is lifted only with every outcome known: ClaimOutboundJobs, the retry
\* and the offboarding leave it alone.
THEOREM HoldsAreSafe == Spec => HoldNeedsEvidence
<1>1. IInv /\ [Next]_vars => [HoldEndsWithEvidence]_vars
  BY HoldStep
<1>. QED BY <1>1, InvariantHolds, PTL DEF Spec, HoldNeedsEvidence

\* Only the owner's mark clears the token of a live claim.
LEMMA FencingStep ==
    ASSUME IInv, [Next]_vars
    PROVE  ClaimEndsWithOwner
<1>1. TypeOK
  BY DEF IInv
<1>2. ASSUME NEW w \in Workers, HoldExpired(w) PROVE ClaimEndsWithOwner
  BY <1>1, <1>2 DEF TypeOK, ClaimEndsWithOwner, HoldExpired, Touch, Goto, Expired
<1>3. ASSUME NEW w \in Workers, NEW j \in Jobs, Claim(w, j) PROVE ClaimEndsWithOwner
  BY <1>1, <1>3 DEF TypeOK, ClaimEndsWithOwner, Claim, Touch, Goto, Claimable, Expired
<1>4. ASSUME NEW w \in Workers, NothingToClaim(w) PROVE ClaimEndsWithOwner
  BY <1>1, <1>4
  DEF TypeOK, ClaimEndsWithOwner, NothingToClaim, Goto, jobVars, locals, operatorVars
<1>5. ASSUME NEW w \in Workers, StartHandler(w) PROVE ClaimEndsWithOwner
  BY <1>1, <1>5
  DEF TypeOK, ClaimEndsWithOwner, StartHandler, Goto, HandlerTimeout, jobVars,
      operatorVars
<1>6. ASSUME NEW w \in Workers, Authorize(w) PROVE ClaimEndsWithOwner
  BY <1>1, <1>6 DEF TypeOK, ClaimEndsWithOwner, Authorize, Goto, jobVars, operatorVars
<1>7. ASSUME NEW w \in Workers, List(w) PROVE ClaimEndsWithOwner
  BY <1>1, <1>7 DEF TypeOK, ClaimEndsWithOwner, List, Goto, jobVars, operatorVars
<1>8. ASSUME NEW w \in Workers, SkipSettled(w) PROVE ClaimEndsWithOwner
  BY <1>1, <1>8
  DEF TypeOK, ClaimEndsWithOwner, SkipSettled, AtRecipient, jobVars, operatorVars
<1>9. ASSUME NEW w \in Workers, Recheck(w) PROVE ClaimEndsWithOwner
  BY <1>1, <1>9 DEF TypeOK, ClaimEndsWithOwner, Recheck, AtRecipient, jobVars, operatorVars
<1>10. ASSUME NEW w \in Workers, Begin(w) PROVE ClaimEndsWithOwner
  BY <1>1, <1>10
  DEF TypeOK, ClaimEndsWithOwner, Begin, Touch, Reply, Goto, Fault, RecipientSources,
      BegunMarker
<1>11. ASSUME NEW w \in Workers, Deliver(w) PROVE ClaimEndsWithOwner
  BY <1>1, <1>11
  DEF TypeOK, ClaimEndsWithOwner, Deliver, Goto, Outcome, Completions, jobVars,
      operatorVars
<1>12. ASSUME NEW w \in Workers, Complete(w) PROVE ClaimEndsWithOwner
  BY <1>1, <1>12
  DEF TypeOK, ClaimEndsWithOwner, Complete, Touch, Reply, Goto, Fault, RecipientSources
<1>13. ASSUME NEW w \in Workers, Conclude(w) PROVE ClaimEndsWithOwner
  BY <1>1, <1>13
  DEF TypeOK, ClaimEndsWithOwner, Conclude, Goto, Verdict, jobVars, operatorVars
<1>14. ASSUME NEW w \in Workers, HandlerFails(w) PROVE ClaimEndsWithOwner
  BY <1>1, <1>14
  DEF TypeOK, ClaimEndsWithOwner, HandlerFails, AtRecipient, CallFails, Fault, Goto,
      jobVars, locals, operatorVars
<1>15. ASSUME NEW w \in Workers, Mark(w) PROVE ClaimEndsWithOwner
  <2>1. job[w] \in Jobs /\ LeaseOwned(w) /\ pc'[w] # pc[w]
    BY <1>1, <1>15 DEF TypeOK, Mark, Finalize, Return, Goto
  <2>2. \A k \in Jobs \ {job[w]} : token'[k] = token[k]
    BY <1>1, <1>15, <2>1 DEF TypeOK, Mark, Finalize
  <2>. QED BY <2>1, <2>2 DEF ClaimEndsWithOwner, LeaseOwned
<1>16. ASSUME NEW w \in Workers, MarkError(w) PROVE ClaimEndsWithOwner
  <2>1. job[w] \in Jobs /\ LeaseOwned(w) /\ pc'[w] # pc[w]
    BY <1>1, <1>16 DEF TypeOK, MarkError, Finalize, Return
  <2>2. \A k \in Jobs \ {job[w]} : token'[k] = token[k]
    BY <1>1, <1>16, <2>1 DEF TypeOK, MarkError, Finalize
  <2>. QED BY <2>1, <2>2 DEF ClaimEndsWithOwner, LeaseOwned
<1>17. ASSUME NEW w \in Workers, MarkErrorLost(w) PROVE ClaimEndsWithOwner
  BY <1>1, <1>17
  DEF TypeOK, ClaimEndsWithOwner, MarkErrorLost, Return, jobVars, operatorVars
<1>18. ASSUME NEW w \in Workers, Crash(w) PROVE ClaimEndsWithOwner
  BY <1>1, <1>18 DEF TypeOK, ClaimEndsWithOwner, Crash, Fault, Return, jobVars, operatorVars
<1>19. ASSUME NEW o \in Operators, NEW j \in Jobs, Inspect(o, j) PROVE ClaimEndsWithOwner
  BY <1>1, <1>19 DEF TypeOK, ClaimEndsWithOwner, Inspect, jobVars, workerVars, locals
<1>20. ASSUME NEW o \in Operators, Reconcile(o) PROVE ClaimEndsWithOwner
  <2>1. token' = token
    BY <1>20 DEF Reconcile, Reconciles
  <2>. QED BY <2>1 DEF ClaimEndsWithOwner
<1>21. ASSUME NEW j \in Jobs, Requeue(j) PROVE ClaimEndsWithOwner
  BY <1>1, <1>21 DEF TypeOK, ClaimEndsWithOwner, Requeue, Touch, workerVars, locals
<1>22. ASSUME NEW j \in Jobs, ChangeAuthority(j) PROVE ClaimEndsWithOwner
  BY <1>1, <1>22
  DEF TypeOK, ClaimEndsWithOwner, ChangeAuthority, jobVars, workerVars, operatorVars,
      locals
<1>23. ASSUME Offboard PROVE ClaimEndsWithOwner
  BY <1>1, <1>23
  DEF TypeOK, ClaimEndsWithOwner, Cancellable, Offboard, Touch, workerVars, locals
<1>24. ASSUME Tick PROVE ClaimEndsWithOwner
  BY <1>1, <1>24 DEF TypeOK, ClaimEndsWithOwner, Tick, CountDown, Fault, operatorVars
<1>25. ASSUME UNCHANGED vars PROVE ClaimEndsWithOwner
  BY <1>1, <1>25
  DEF TypeOK, ClaimEndsWithOwner, vars, jobVars, workerVars, locals, operatorVars
<1>. QED
  BY <1>2, <1>3, <1>4, <1>5, <1>6, <1>7, <1>8, <1>9, <1>10, <1>11, <1>12, <1>13, <1>14,
     <1>15, <1>16, <1>17, <1>18, <1>19, <1>20, <1>21, <1>22, <1>23, <1>24, <1>25
  DEF Next, Worker, Administrator

\* A worker whose claim was taken over cannot end the new claim: finalizeOutbound
\* asks for its own token and a live lease.
THEOREM ClaimsAreFenced == Spec => LiveClaimIsFenced
<1>1. IInv /\ [Next]_vars => [ClaimEndsWithOwner]_vars
  BY FencingStep
<1>. QED BY <1>1, InvariantHolds, PTL DEF Spec, LiveClaimIsFenced

---------------------------------------------------------------------------
(* Refinement                                                               *)

\* A step of the detailed protocol announces an attempt, hands a message over,
\* records true outcomes, or changes neither the ledger nor the next hop.
LEMMA PromiseStep ==
    ASSUME IInv, [Next]_vars
    PROVE  [Promise!Next]_(Promise!vars)
<1>1. TypeOK /\ MarkerMatchesLedger /\ AtMostOneCopy
  BY DEF IInv
<1>2. \A u \in Workers : ContextWithinLease(u) /\ SnapshotIsCurrent(u)
  BY DEF IInv
<1>3. \A p \in Operators : EvidenceIsCurrent(p)
  BY DEF IInv
<1>4. ASSUME NEW w \in Workers, HoldExpired(w) PROVE [Promise!Next]_(Promise!vars)
  BY <1>4 DEF HoldExpired, Promise!vars
<1>5. ASSUME NEW w \in Workers, NEW j \in Jobs, Claim(w, j)
      PROVE  [Promise!Next]_(Promise!vars)
  BY <1>5 DEF Claim, Promise!vars
<1>6. ASSUME NEW w \in Workers, NothingToClaim(w) PROVE [Promise!Next]_(Promise!vars)
  BY <1>6 DEF NothingToClaim, Promise!vars
<1>7. ASSUME NEW w \in Workers, StartHandler(w) PROVE [Promise!Next]_(Promise!vars)
  BY <1>7 DEF StartHandler, Promise!vars
<1>8. ASSUME NEW w \in Workers, Authorize(w) PROVE [Promise!Next]_(Promise!vars)
  BY <1>8 DEF Authorize, Promise!vars
<1>9. ASSUME NEW w \in Workers, List(w) PROVE [Promise!Next]_(Promise!vars)
  BY <1>9 DEF List, Promise!vars
<1>10. ASSUME NEW w \in Workers, SkipSettled(w) PROVE [Promise!Next]_(Promise!vars)
  BY <1>10 DEF SkipSettled, Promise!vars
<1>11. ASSUME NEW w \in Workers, Recheck(w) PROVE [Promise!Next]_(Promise!vars)
  BY <1>11 DEF Recheck, Promise!vars
<1>12. ASSUME NEW w \in Workers, Begin(w) PROVE [Promise!Next]_(Promise!vars)
  <2>1. job[w] \in Jobs /\ cursor[w] \in Recipients
    BY <1>1, <1>2, <1>3, <1>12 DEF TypeOK, SnapshotIsCurrent, Begin
  <2>2. Promise!Announce(job[w], cursor[w])
    BY <1>12, AttemptSources DEF Begin, Promise!Announce
  <2>. QED BY <2>1, <2>2 DEF Promise!Next
<1>13. ASSUME NEW w \in Workers, Deliver(w) PROVE [Promise!Next]_(Promise!vars)
  <2>1. PICK taken \in BOOLEAN, reply \in Completions \cup {"none"} :
           /\ taken => timer[w] > 0
           /\ copies' = [copies EXCEPT ![job[w]][cursor[w]] = IF taken THEN @ + 1 ELSE @]
    BY <1>13 DEF Deliver
  <2>2. cursor[w] \in Recipients /\ job[w] \in Jobs /\ pc[w] = "net" /\ ledger' = ledger
    BY <1>1, <1>2, <1>3, <1>13 DEF TypeOK, SnapshotIsCurrent, Deliver
  <2>3. CASE taken
    <3>1. copies[job[w]][cursor[w]] = 0 /\ ledger[job[w]][cursor[w]] = "uncertain"
      BY <1>1, <1>2, <1>3, <2>1, <2>2, <2>3
      DEF SnapshotIsCurrent, MarkerMatchesLedger, Uncertain
    <3>2. copies' = [copies EXCEPT ![job[w]][cursor[w]] = 1]
      BY <1>1, <1>2, <1>3, <2>1, <2>2, <2>3, <3>1 DEF TypeOK
    <3>3. Promise!Take(job[w], cursor[w])
      BY <2>2, <3>1, <3>2 DEF Promise!Take
    <3>. QED BY <2>2, <3>3 DEF Promise!Next
  <2>4. CASE ~taken
    BY <1>1, <1>2, <1>3, <2>1, <2>2, <2>4 DEF TypeOK, Promise!vars
  <2>. QED BY <2>3, <2>4
<1>14. ASSUME NEW w \in Workers, Complete(w) PROVE [Promise!Next]_(Promise!vars)
  <2>1. cursor[w] \in Recipients /\ job[w] \in Jobs /\ timer[w] > 0 /\ copies' = copies
    BY <1>1, <1>2, <1>3, <1>14 DEF TypeOK, SnapshotIsCurrent, Complete
  <2>2. /\ snap[w][cursor[w]] \in Completions
        /\ snap[w][cursor[w]] = "accepted" <=> copies[job[w]][cursor[w]] = 1
        /\ marker[job[w]] = cursor[w]
    BY <1>1, <1>2, <1>3, <1>14, <2>1 DEF SnapshotIsCurrent, Complete
  <2>3. ledger[job[w]][cursor[w]] = "uncertain"
    BY <1>1, <1>2, <1>3, <2>1, <2>2 DEF MarkerMatchesLedger, Uncertain
  <2>. DEFINE after == [ledger[job[w]] EXCEPT ![cursor[w]] = snap[w][cursor[w]]]
  <2>4. after \in [Recipients -> RecipientStates]
    BY <1>1, <1>2, <1>3, <2>1, <2>2 DEF TypeOK, RecipientStates, Completions
  <2>5. ledger' = [ledger EXCEPT ![job[w]] = after]
    BY <1>1, <1>2, <1>3, <1>14, <2>1 DEF TypeOK, Complete
  <2>6. \A r \in Recipients :
           \/ after[r] = ledger[job[w]][r]
           \/ /\ ledger[job[w]][r] = "uncertain"
              /\ after[r] \in Completions
              /\ after[r] = "accepted" <=> copies[job[w]][r] = 1
    BY <1>1, <1>2, <1>3, <2>1, <2>2, <2>3 DEF TypeOK
  <2>. HIDE DEF after
  <2>7. Promise!Record(job[w])
    BY <2>1, <2>4, <2>5, <2>6 DEF Promise!Record, RecipientStates, Completions
  <2>. QED BY <2>1, <2>7 DEF Promise!Next
<1>15. ASSUME NEW w \in Workers, Conclude(w) PROVE [Promise!Next]_(Promise!vars)
  BY <1>15 DEF Conclude, Promise!vars
<1>16. ASSUME NEW w \in Workers, HandlerFails(w) PROVE [Promise!Next]_(Promise!vars)
  BY <1>16 DEF HandlerFails, Promise!vars
<1>17. ASSUME NEW w \in Workers, Mark(w) PROVE [Promise!Next]_(Promise!vars)
  BY <1>17 DEF Mark, Finalize, Promise!vars
<1>18. ASSUME NEW w \in Workers, MarkError(w) PROVE [Promise!Next]_(Promise!vars)
  BY <1>18 DEF MarkError, Finalize, Promise!vars
<1>19. ASSUME NEW w \in Workers, MarkErrorLost(w) PROVE [Promise!Next]_(Promise!vars)
  BY <1>19 DEF MarkErrorLost, Promise!vars
<1>20. ASSUME NEW w \in Workers, Crash(w) PROVE [Promise!Next]_(Promise!vars)
  BY <1>20 DEF Crash, Promise!vars
<1>21. ASSUME NEW o \in Operators, NEW j \in Jobs, Inspect(o, j)
       PROVE  [Promise!Next]_(Promise!vars)
  BY <1>21 DEF Inspect, Promise!vars
<1>22. ASSUME NEW o \in Operators, Reconcile(o) PROVE [Promise!Next]_(Promise!vars)
  <2>1. PICK j \in Jobs : \E chosen \in SUBSET Uncertain(j) :
           \E result \in [chosen -> Completions] : Reconciles(o, j, chosen, result)
    BY <1>22 DEF Reconcile
  <2>2. PICK chosen \in SUBSET Uncertain(j) :
           \E result \in [chosen -> Completions] : Reconciles(o, j, chosen, result)
    BY <2>1
  <2>3. PICK result \in [chosen -> Completions] : Reconciles(o, j, chosen, result)
    BY <2>2
  <2>4. /\ \A r \in chosen : result[r] = "accepted" <=> copies[j][r] = 1
        /\ copies' = copies /\ chosen \subseteq Uncertain(j)
    BY <1>1, <1>2, <1>3, <2>3 DEF EvidenceIsCurrent, Reconciles, VersionMatches, Uncertain
  <2>. DEFINE after == Reconciled(j, chosen, result)
  <2>5. after \in [Recipients -> RecipientStates]
    BY <1>1, <1>2, <1>3, <2>4 DEF TypeOK, Reconciled, RecipientStates, Completions
  <2>6. ledger' = [ledger EXCEPT ![j] = after]
    BY <2>3 DEF Reconciles
  <2>7. \A r \in Recipients :
           \/ after[r] = ledger[j][r]
           \/ /\ ledger[j][r] = "uncertain"
              /\ after[r] \in Completions
              /\ after[r] = "accepted" <=> copies[j][r] = 1
    BY <1>1, <1>2, <1>3, <2>4 DEF Reconciled, Uncertain
  <2>. HIDE DEF after
  <2>8. Promise!Record(j)
    BY <2>4, <2>5, <2>6, <2>7 DEF Promise!Record, RecipientStates, Completions
  <2>. QED BY <2>8 DEF Promise!Next
<1>23. ASSUME NEW j \in Jobs, Requeue(j) PROVE [Promise!Next]_(Promise!vars)
  BY <1>23 DEF Requeue, Promise!vars
<1>24. ASSUME NEW j \in Jobs, ChangeAuthority(j) PROVE [Promise!Next]_(Promise!vars)
  BY <1>24 DEF ChangeAuthority, Promise!vars
<1>25. ASSUME Offboard PROVE [Promise!Next]_(Promise!vars)
  BY <1>25 DEF Offboard, Promise!vars
<1>26. ASSUME Tick PROVE [Promise!Next]_(Promise!vars)
  BY <1>26 DEF Tick, Promise!vars
<1>27. ASSUME UNCHANGED vars PROVE [Promise!Next]_(Promise!vars)
  BY <1>1, <1>2, <1>3, <1>27
  DEF Promise!vars, vars, jobVars, workerVars, locals, operatorVars
<1>. QED
  BY <1>4, <1>5, <1>6, <1>7, <1>8, <1>9, <1>10, <1>11, <1>12, <1>13, <1>14, <1>15,
     <1>16, <1>17, <1>18, <1>19, <1>20, <1>21, <1>22, <1>23, <1>24, <1>25, <1>26, <1>27
  DEF Next, Worker, Administrator

\* The whole protocol (leases, tokens, crashes, administrators) implements what
\* RecipientOutcome promises for each recipient.
THEOREM PromiseIsKept == Spec => KeepsPromise
<1>1. Init => Promise!Init
  <2>. SUFFICES ASSUME Init PROVE Promise!Init
    OBVIOUS
  <2>1. \A j \in Jobs : HeldLegacyJob(j) \/ FreshJob(j)
    BY DEF Init
  <2>. QED BY <2>1 DEF Init, HeldLegacyJob, FreshJob, Promise!Init
<1>2. IInv /\ [Next]_vars => [Promise!Next]_(Promise!vars)
  BY PromiseStep
<1>. QED BY <1>1, <1>2, InvariantHolds, PTL DEF Spec, KeepsPromise, Promise!Spec

---------------------------------------------------------------------------
(* The lifecycle of the worker                                              *)

\* The sets a runner moves between are what the bounds say they are.
LEMMA Ranges ==
    /\ \A g \in Generations : g \in Nat /\ g > 0
    /\ 0 \in 0..BatchSize /\ BatchSize \in 1..BatchSize
    /\ \A n \in 0..BatchSize : n \in Nat
    /\ \A n \in 1..BatchSize : Remaining(n) # 0 => Remaining(n) \in 1..BatchSize
    /\ \A n \in 1..BatchSize : Remaining(n) \in 0..BatchSize
  BY LifecycleAssumption DEF Generations, Remaining

\* A worker that nobody has started satisfies the invariant.
LEMMA InitialLifecycle == LifecycleInit => LInv
  BY LifecycleAssumption, Ranges
  DEF LifecycleInit, LInv, LifecycleTypeOK, GenerationsDoNotOverlap, MembersAreIn, JobInHand,
      EndsForAReason, DoneMeansDrained, WaitersHaveTarget, CancelReachesAll, Generations

\* A registration either joins a generation nobody has stopped, or begins one
\* that comes after every drained one.
LEMMA RegisterStep ==
    ASSUME LInv, NEW r \in Runners, NEW m \in {"run", "start", "batch"}, Register(r, m)
    PROVE  LInv'
<1>. DEFINE g == IF Occupied THEN generation ELSE generation + 1
<1>1. LifecycleTypeOK /\ GenerationsDoNotOverlap /\ MembersAreIn /\ DoneMeansDrained
      /\ WaitersHaveTarget /\ CancelReachesAll /\ JobInHand /\ EndsForAReason
  BY DEF LInv
<1>2. g \in Generations /\ generation' = g /\ phase[r] = "out"
  BY DEF Register
<1>3. /\ runners' = [runners EXCEPT ![g] = @ \cup {r}]
      /\ mine' = [mine EXCEPT ![r] = g]
      /\ ctxDone' = [ctxDone EXCEPT ![r] = FALSE]
      /\ UNCHANGED <<serialClaims, stopOnFailure, stopping, cancelled, closed, left, budget,
                     callerDone, stopperVars>>
  BY DEF Register
<1>4. phase' = [phase EXCEPT ![r] = IF m = "start" THEN "select" ELSE "admit"]
      /\ mode' = [mode EXCEPT ![r] = m]
  BY DEF Register
<1>5. Occupied => ~stopping[g] /\ g = generation
  BY DEF Register, Refuses
<1>6. ~Occupied => g = generation + 1 /\ \A u \in Runners : phase[u] = "out"
  BY <1>1 DEF Occupied, MembersAreIn, GenerationsDoNotOverlap, LifecycleTypeOK
<1>7. ~stopping[g] /\ ~cancelled[g] /\ closed[g] = 0
  BY <1>1, <1>2, <1>5, <1>6, Ranges DEF DoneMeansDrained, LifecycleTypeOK, Occupied
<1>. HIDE DEF g
<1>8. LifecycleTypeOK'
  BY <1>1, <1>2, <1>3, <1>4 DEF LifecycleTypeOK, stopperVars
<1>9. GenerationsDoNotOverlap'
  BY <1>1, <1>2, <1>3, <1>4, <1>5, <1>6 DEF LifecycleTypeOK, GenerationsDoNotOverlap
<1>10. MembersAreIn'
  <2>1. ASSUME NEW u \in Runners, NEW h \in Generations
        PROVE  u \in runners'[h] <=> phase'[u] # "out" /\ mine'[u] = h
    BY <1>1, <1>2, <1>3, <1>4 DEF LifecycleTypeOK, MembersAreIn
  <2>2. \A u \in Runners : phase'[u] # "out" => mine'[u] # 0
    BY <1>1, <1>2, <1>3, <1>4, Ranges DEF LifecycleTypeOK, MembersAreIn
  <2>. QED BY <2>1, <2>2 DEF MembersAreIn
<1>11. DoneMeansDrained'
  <2>. SUFFICES ASSUME NEW h \in Generations
                PROVE  /\ closed'[h] = IF h <= generation' /\ runners'[h] = {} THEN 1 ELSE 0
                       /\ h > generation' => ~stopping'[h] /\ ~cancelled'[h]
                       /\ cancelled'[h] => stopping'[h]
    BY DEF DoneMeansDrained
  <2>1. CASE h = g
    BY <1>1, <1>2, <1>3, <1>7, <2>1, Ranges DEF LifecycleTypeOK, DoneMeansDrained
  <2>2. CASE h # g
    <3>1. runners'[h] = runners[h] /\ (h <= generation' <=> h <= generation)
      BY <1>1, <1>2, <1>3, <1>5, <1>6, <2>2, Ranges DEF LifecycleTypeOK
    <3>2. h > generation' => h > generation
      BY <1>1, <1>2, <3>1, Ranges DEF LifecycleTypeOK
    <3>. QED BY <1>1, <1>3, <3>1, <3>2 DEF DoneMeansDrained
  <2>. QED BY <2>1, <2>2
<1>12. WaitersHaveTarget'
  <2>1. generation <= generation'
    BY <1>1, <1>2, <1>5, <1>6, Ranges DEF LifecycleTypeOK
  <2>2. \A s \in Stoppers : target[s] \in Nat /\ generation \in Nat /\ generation' \in Nat
    BY <1>1, <1>2, Ranges DEF LifecycleTypeOK
  <2>. QED BY <1>1, <1>3, <2>1, <2>2 DEF WaitersHaveTarget, stopperVars
<1>13. CancelReachesAll'
  BY <1>1, <1>2, <1>3, <1>7 DEF LifecycleTypeOK, CancelReachesAll, MembersAreIn
<1>14. JobInHand'
  <2>1. phase'[r] \notin {"dispatch", "handle"} /\ \A u \in Runners \ {r} : phase'[u] = phase[u]
    BY <1>1, <1>4 DEF LifecycleTypeOK
  <2>. QED BY <1>1, <1>2, <1>3, <2>1 DEF JobInHand
<1>15. EndsForAReason'
  BY <1>1, <1>3, <1>4 DEF LifecycleTypeOK, EndsForAReason, stopperVars
<1>. QED BY <1>8, <1>9, <1>10, <1>11, <1>12, <1>13, <1>14, <1>15 DEF LInv

\* The step of a runner inside its generation changes only its own locals.
LEMMA InsideStep ==
    ASSUME LInv, NEW r \in Runners,
           Poll(r) \/ Leave(r) \/ AdmitClaim(r) \/ ClaimReturns(r) \/ AdmitJob(r)
              \/ HandlerReturns(r)
    PROVE  LInv'
<1>1. LifecycleTypeOK /\ JobInHand /\ EndsForAReason
  BY DEF LInv
<1>2. /\ phase[r] # "out" /\ phase'[r] # "out"
      /\ \A u \in Runners \ {r} : phase'[u] = phase[u]
      /\ phase' \in [Runners -> {"out", "select", "admit", "claim", "dispatch", "handle", "finish"}]
  <2>1. \E p \in {"select", "admit", "claim", "dispatch", "handle", "finish"} :
           phase[r] # "out" /\ phase' = [phase EXCEPT ![r] = p]
    BY DEF Poll, Leave, AdmitClaim, ClaimReturns, AdmitJob, HandlerReturns, EndBatch
  <2>. QED BY <1>1, <2>1 DEF LifecycleTypeOK
<1>3. UNCHANGED <<generationVars, mode, mine, ctxDone, callerDone, stopperVars>>
  BY DEF Poll, Leave, AdmitClaim, ClaimReturns, AdmitJob, HandlerReturns
<1>4. left' \in [Runners -> 0..BatchSize] /\ budget' \in [Runners -> 1..BatchSize]
  <2>1. CASE Poll(r) \/ Leave(r) \/ AdmitClaim(r) \/ AdmitJob(r)
    BY <1>1, <2>1, Ranges DEF LifecycleTypeOK, Poll, Leave, AdmitClaim, AdmitJob, EndBatch
  <2>2. CASE ClaimReturns(r)
    BY <1>1, <2>2, Ranges DEF LifecycleTypeOK, ClaimReturns, EndBatch
  <2>3. CASE HandlerReturns(r)
    <3>1. left[r] \in 1..BatchSize /\ budget[r] \in 1..BatchSize
      BY <1>1, <2>3, Ranges DEF LifecycleTypeOK, JobInHand, HandlerReturns
    <3>. QED BY <1>1, <2>3, <3>1, Ranges DEF LifecycleTypeOK, HandlerReturns, EndBatch
  <2>. QED BY <2>1, <2>2, <2>3
<1>5. LifecycleTypeOK'
  BY <1>1, <1>2, <1>3, <1>4 DEF LifecycleTypeOK, generationVars, stopperVars
<1>6. JobInHand'
  <2>1. \A u \in Runners \ {r} : left'[u] = left[u]
    BY <1>1
    DEF LifecycleTypeOK, Poll, Leave, AdmitClaim, ClaimReturns, AdmitJob, HandlerReturns, EndBatch
  <2>2. IF phase'[r] \in {"dispatch", "handle"}
        THEN left'[r] # 0 /\ (serialClaims => left'[r] = 1)
        ELSE left'[r] = 0
    <3>1. CASE Poll(r) \/ Leave(r) \/ AdmitClaim(r)
      BY <1>1, <3>1 DEF LifecycleTypeOK, JobInHand, Poll, Leave, AdmitClaim, EndBatch
    <3>2. CASE ClaimReturns(r) \/ AdmitJob(r)
      BY <1>1, <3>2 DEF LifecycleTypeOK, JobInHand, ClaimReturns, AdmitJob, EndBatch
    <3>3. CASE HandlerReturns(r)
      BY <1>1, <3>3, Ranges DEF LifecycleTypeOK, JobInHand, HandlerReturns, EndBatch, Remaining
    <3>. QED BY <3>1, <3>2, <3>3
  <2>. QED BY <1>1, <1>2, <1>3, <2>1, <2>2 DEF JobInHand, generationVars
<1>7. EndsForAReason'
  BY <1>1, <1>2, <1>3 DEF EndsForAReason, generationVars, stopperVars
<1>. QED
  BY <1>2, <1>3, <1>5, <1>6, <1>7
  DEF LInv, GenerationsDoNotOverlap, MembersAreIn, DoneMeansDrained, WaitersHaveTarget,
      CancelReachesAll, generationVars, stopperVars

\* Whoever leaves last closes done, and nobody else does.
LEMMA FinishStep ==
    ASSUME LInv, NEW r \in Runners, Finish(r)
    PROVE  LInv'
<1>. DEFINE g == mine[r]
<1>1. LifecycleTypeOK /\ GenerationsDoNotOverlap /\ MembersAreIn /\ DoneMeansDrained
      /\ WaitersHaveTarget /\ CancelReachesAll /\ JobInHand /\ EndsForAReason
  BY DEF LInv
<1>2. g \in Generations /\ g = generation /\ r \in runners[g] /\ phase[r] = "finish"
  BY <1>1 DEF Finish, LifecycleTypeOK, GenerationsDoNotOverlap, MembersAreIn
<1>3. /\ runners' = [runners EXCEPT ![g] = @ \ {r}]
      /\ closed' = [closed EXCEPT ![g] = IF runners[g] \ {r} = {} THEN @ + 1 ELSE @]
      /\ ctxDone' = [ctxDone EXCEPT ![r] = TRUE]
      /\ UNCHANGED <<serialClaims, stopOnFailure, generation, stopping, cancelled, left,
                     stopperVars>>
  BY DEF Finish, LastOut
<1>4. /\ phase' = [phase EXCEPT ![r] = "out"]
      /\ mode' = [mode EXCEPT ![r] = "run"]
      /\ mine' = [mine EXCEPT ![r] = 0]
      /\ budget' = [budget EXCEPT ![r] = BatchSize]
      /\ callerDone' = [callerDone EXCEPT ![r] = FALSE]
  BY DEF Finish
<1>5. closed[g] = 0
  BY <1>1, <1>2 DEF DoneMeansDrained
<1>. HIDE DEF g
<1>6. LifecycleTypeOK'
  BY <1>1, <1>2, <1>3, <1>4, Ranges DEF LifecycleTypeOK, stopperVars
<1>7. GenerationsDoNotOverlap' /\ MembersAreIn' /\ JobInHand'
  <2>1. GenerationsDoNotOverlap' /\ JobInHand'
    <3>1. phase'[r] = "out" /\ \A u \in Runners \ {r} : phase'[u] = phase[u] /\ mine'[u] = mine[u]
      BY <1>1, <1>4 DEF LifecycleTypeOK
    <3>2. JobInHand'
      BY <1>1, <1>2, <1>3, <3>1 DEF JobInHand
    <3>. QED BY <1>1, <1>3, <3>1, <3>2 DEF GenerationsDoNotOverlap
  <2>2. ASSUME NEW u \in Runners, NEW h \in Generations
        PROVE  u \in runners'[h] <=> phase'[u] # "out" /\ mine'[u] = h
    <3>1. CASE u = r
      BY <1>1, <1>2, <1>3, <1>4, <3>1 DEF LifecycleTypeOK, MembersAreIn, g
    <3>2. CASE u # r
      BY <1>1, <1>2, <1>3, <1>4, <3>2 DEF LifecycleTypeOK, MembersAreIn
    <3>. QED BY <3>1, <3>2
  <2>3. \A u \in Runners : phase'[u] # "out" => mine'[u] # 0
    BY <1>1, <1>4 DEF LifecycleTypeOK, MembersAreIn
  <2>. QED BY <2>1, <2>2, <2>3 DEF MembersAreIn
<1>8. DoneMeansDrained'
  <2>. SUFFICES ASSUME NEW h \in Generations
                PROVE  /\ closed'[h] = IF h <= generation' /\ runners'[h] = {} THEN 1 ELSE 0
                       /\ h > generation' => ~stopping'[h] /\ ~cancelled'[h]
                       /\ cancelled'[h] => stopping'[h]
    BY DEF DoneMeansDrained
  <2>1. CASE h = g
    BY <1>1, <1>2, <1>3, <1>5, <2>1, Ranges DEF LifecycleTypeOK, DoneMeansDrained
  <2>2. CASE h # g
    BY <1>1, <1>2, <1>3, <2>2 DEF LifecycleTypeOK, DoneMeansDrained
  <2>. QED BY <2>1, <2>2
<1>9. WaitersHaveTarget'
  <2>. SUFFICES ASSUME NEW s \in Stoppers
                PROVE  /\ target'[s] <= generation'
                       /\ call'[s] # "none" => target'[s] # 0
                       /\ call'[s] = "joined" => closed'[target'[s]] = 1
    BY DEF WaitersHaveTarget
  <2>1. call[s] = "joined" => target[s] \in Generations /\ target[s] # g
    BY <1>1, <1>5 DEF LifecycleTypeOK, WaitersHaveTarget
  <2>. QED BY <1>1, <1>2, <1>3, <2>1 DEF LifecycleTypeOK, WaitersHaveTarget, stopperVars
<1>10. CancelReachesAll'
  BY <1>1, <1>2, <1>3 DEF LifecycleTypeOK, CancelReachesAll
<1>11. EndsForAReason'
  BY <1>1, <1>3, <1>4 DEF LifecycleTypeOK, EndsForAReason, stopperVars
<1>. QED BY <1>6, <1>7, <1>8, <1>9, <1>10, <1>11 DEF LInv

\* Cancellation and shutdown change flags of the current generation only; a join
\* is reported only once done is closed.
LEMMA ShutdownStep ==
    ASSUME LInv,
           \/ \E r \in Runners : CallerCancels(r)
           \/ \E s \in Stoppers : StopGeneration(s) \/ Joined(s) \/ Expire(s)
    PROVE  LInv'
<1>1. LifecycleTypeOK /\ GenerationsDoNotOverlap /\ MembersAreIn /\ DoneMeansDrained
      /\ WaitersHaveTarget /\ CancelReachesAll /\ JobInHand /\ EndsForAReason
  BY DEF LInv
<1>2. ASSUME NEW r \in Runners, CallerCancels(r) PROVE LInv'
  <2>1. LifecycleTypeOK' /\ CancelReachesAll' /\ EndsForAReason'
    BY <1>1, <1>2
    DEF LifecycleTypeOK, CancelReachesAll, EndsForAReason, CallerCancels, generationVars,
        stopperVars
  <2>. QED
    BY <1>1, <1>2, <2>1
    DEF LInv, GenerationsDoNotOverlap, MembersAreIn, JobInHand, DoneMeansDrained,
        WaitersHaveTarget, CallerCancels, generationVars, stopperVars
<1>3. ASSUME NEW s \in Stoppers, StopGeneration(s) PROVE LInv'
  <2>1. /\ generation \in Generations
        /\ stopping' = [stopping EXCEPT ![generation] = TRUE]
        /\ cancelled' = [cancelled EXCEPT ![generation] = @ \/ s \in Bounded]
        /\ hurried' = IF s \in Bounded THEN hurried \cup {generation} ELSE hurried
        /\ UNCHANGED <<serialClaims, generation, runners, closed, phase, mode, mine, left, budget,
                       callerDone>>
    BY <1>1, <1>3 DEF LifecycleTypeOK, StopGeneration, Cancels
  <2>2. /\ ctxDone' = [r \in Runners |->
              \/ ctxDone[r]
              \/ s \in Bounded /\ ~cancelled[generation] /\ r \in runners[generation]]
        /\ call' = [call EXCEPT ![s] = "wait"]
        /\ target' = [target EXCEPT ![s] = generation]
    BY <1>3 DEF StopGeneration, Cancels
  <2>3. cancelled' \in [Generations -> BOOLEAN]
    BY <1>1, <2>1, Zenon DEF LifecycleTypeOK
  <2>4. LifecycleTypeOK'
    BY <1>1, <1>3, <2>1, <2>2, <2>3 DEF LifecycleTypeOK, StopGeneration
  <2>5. GenerationsDoNotOverlap' /\ MembersAreIn' /\ JobInHand'
    BY <1>1, <2>1 DEF GenerationsDoNotOverlap, MembersAreIn, JobInHand
  <2>6. DoneMeansDrained'
    BY <1>1, <2>1, Ranges DEF LifecycleTypeOK, DoneMeansDrained
  <2>7. WaitersHaveTarget'
    BY <1>1, <2>1, <2>2, Ranges DEF LifecycleTypeOK, WaitersHaveTarget
  <2>8. CancelReachesAll'
    BY <1>1, <2>1, <2>2 DEF LifecycleTypeOK, CancelReachesAll
  <2>9. EndsForAReason'
    <3>1. ASSUME NEW g \in Generations, cancelled'[g] PROVE g \in hurried'
      BY <1>1, <2>1, <3>1 DEF LifecycleTypeOK, EndsForAReason
    <3>2. ASSUME NEW r \in Runners, phase'[r] # "out", ctxDone'[r]
          PROVE  callerDone'[r] \/ cancelled'[mine'[r]]
      <4>1. mine[r] \in Generations /\ (r \in runners[generation] => mine[r] = generation)
        BY <1>1, <2>1, <3>2 DEF LifecycleTypeOK, MembersAreIn
      <4>2. cancelled[mine[r]] => cancelled'[mine[r]]
        BY <1>1, <2>1, <4>1 DEF LifecycleTypeOK
      <4>3. CASE ctxDone[r]
        BY <1>1, <2>1, <3>2, <4>2, <4>3 DEF EndsForAReason
      <4>4. CASE ~ctxDone[r]
        BY <1>1, <2>1, <2>2, <3>2, <4>1, <4>4 DEF LifecycleTypeOK
      <4>. QED BY <4>3, <4>4
    <3>. QED BY <3>1, <3>2 DEF EndsForAReason
  <2>. QED BY <2>4, <2>5, <2>6, <2>7, <2>8, <2>9 DEF LInv
<1>4. ASSUME NEW s \in Stoppers, Joined(s) \/ Expire(s) PROVE LInv'
  <2>1. UNCHANGED <<generationVars, runnerVars, hurried>>
    BY <1>4 DEF Joined, Expire
  <2>2. LifecycleTypeOK'
    BY <1>1, <1>4, <2>1 DEF LifecycleTypeOK, Joined, Expire, generationVars, runnerVars
  <2>3. WaitersHaveTarget'
    <3>1. CASE Joined(s)
      <4>1. target[s] \in Generations /\ closed[target[s]] = 1
        BY <1>1, <3>1 DEF LifecycleTypeOK, WaitersHaveTarget, DoneMeansDrained, Joined
      <4>. QED
        BY <1>1, <2>1, <3>1, <4>1 DEF LifecycleTypeOK, WaitersHaveTarget, Joined, generationVars
    <3>2. CASE Expire(s)
      BY <1>1, <2>1, <3>2, Ranges DEF LifecycleTypeOK, WaitersHaveTarget, Expire, generationVars
    <3>. QED BY <1>4, <3>1, <3>2
  <2>. QED
    BY <1>1, <2>1, <2>2, <2>3
    DEF LInv, GenerationsDoNotOverlap, MembersAreIn, JobInHand, DoneMeansDrained,
        CancelReachesAll, EndsForAReason, generationVars, runnerVars
<1>. QED BY <1>2, <1>3, <1>4

\* The lifecycle invariant holds in every reachable state.
THEOREM LifecycleInvariant == LifecycleSpec => []LInv
<1>1. LInv /\ [LifecycleNext]_lifecycleVars => LInv'
  <2>. SUFFICES ASSUME LInv, [LifecycleNext]_lifecycleVars PROVE LInv'
    OBVIOUS
  <2>1. CASE UNCHANGED lifecycleVars
    BY <2>1
    DEF LInv, LifecycleTypeOK, GenerationsDoNotOverlap, MembersAreIn, JobInHand, EndsForAReason,
        DoneMeansDrained, WaitersHaveTarget, CancelReachesAll, lifecycleVars, generationVars, runnerVars, stopperVars
  <2>2. CASE LifecycleNext
    BY <2>2, RegisterStep, InsideStep, FinishStep, ShutdownStep DEF LifecycleNext, Runner
  <2>. QED BY <2>1, <2>2
<1>. QED BY <1>1, InitialLifecycle, PTL DEF LifecycleSpec

\* Every variable of the lifecycle stays in its range: a runner belongs to a
\* generation that exists, and what a batch has left never exceeds its size.
THEOREM LifecycleTypesHold == LifecycleSpec => []LifecycleTypeOK
<1>1. LInv => LifecycleTypeOK
  BY DEF LInv
<1>. QED BY <1>1, LifecycleInvariant, PTL

\* A worker has one generation of runners at a time, whatever shutdowns time out.
THEOREM NoOverlap == LifecycleSpec => []GenerationsDoNotOverlap
<1>1. LInv => GenerationsDoNotOverlap
  BY DEF LInv
<1>. QED BY <1>1, LifecycleInvariant, PTL

\* finish never closes done a second time.
THEOREM NoSecondClose == LifecycleSpec => []DoneClosedOnce
<1>1. LInv => DoneClosedOnce
  BY DEF LInv, DoneMeansDrained, DoneClosedOnce
<1>. QED BY <1>1, LifecycleInvariant, PTL

\* A nil result of StopContext, and a return of Stop, mean that every runner of
\* the generation has exited.
THEOREM JoinIsReal == LifecycleSpec => []JoinMeansQuiet
<1>1. LInv => JoinMeansQuiet
  <2>. SUFFICES ASSUME LInv, NEW s \in Stoppers, NEW r \in Runners,
                       call[s] = "joined", mine[r] = target[s]
                PROVE  phase[r] = "out"
    BY DEF JoinMeansQuiet
  <2>1. target[s] \in Generations /\ closed[target[s]] = 1
    BY DEF LInv, LifecycleTypeOK, WaitersHaveTarget
  <2>2. runners[target[s]] = {}
    BY <2>1 DEF LInv, DoneMeansDrained
  <2>. QED BY <2>1, <2>2 DEF LInv, MembersAreIn
<1>. QED BY <1>1, LifecycleInvariant, PTL

\* StopContext's cancellation reaches every runner of the generation.
THEOREM CancelReaches == LifecycleSpec => []CancelReachesAll
<1>1. LInv => CancelReachesAll
  BY DEF LInv
<1>. QED BY <1>1, LifecycleInvariant, PTL

\* Stop drains: a runner gives up jobs it has claimed only when its caller ended
\* its context, when StopContext was called for its generation, or after a failure
\* under WithStopOnFailure.
THEOREM StopDrains == LifecycleSpec => GracefulStopDrains
<1>. DEFINE Given(r) == IF HandsOver(r) THEN Remaining(Waiting(r)) ELSE Waiting(r)
            Excused(r) == \/ callerDone[r] \/ mine[r] \in hurried
                          \/ stopOnFailure /\ phase[r] = "handle"
<1>1. LInv /\ [LifecycleNext]_lifecycleVars =>
        [\A r \in Runners : Waiting(r)' < Given(r) => Excused(r)]_lifecycleVars
  <2>. SUFFICES ASSUME LInv, LifecycleNext, NEW r \in Runners, Waiting(r)' < Given(r)
                PROVE  Excused(r)
    OBVIOUS
  <2>1. /\ LifecycleTypeOK /\ JobInHand /\ EndsForAReason
        /\ \A u \in Runners : phase[u] # "out" => mine[u] \in Generations
    BY DEF LInv, MembersAreIn, LifecycleTypeOK
  <2>2. /\ left[r] \in 0..BatchSize
        /\ phase[r] \notin {"dispatch", "handle"} => left[r] = 0
        /\ phase[r] \in {"dispatch", "handle"}
             => left[r] >= 1 /\ (serialClaims => left[r] = 1)
    BY <2>1, Ranges DEF LifecycleTypeOK, JobInHand
  <2>3. ASSUME phase'[r] = phase[r], left'[r] = left[r] PROVE FALSE
    BY <2>2, <2>3, Ranges DEF Waiting, HandsOver, Remaining
  <2>4. ASSUME NEW q \in Runners, Register(q, "run") \/ Register(q, "start") \/ Register(q, "batch")
        PROVE  FALSE
    BY <2>1, <2>2, <2>3, <2>4, Ranges
    DEF Register, LifecycleTypeOK, Waiting, HandsOver, Remaining
  <2>5. ASSUME NEW q \in Runners, Runner(q), q # r PROVE FALSE
    BY <2>1, <2>3, <2>5
    DEF LifecycleTypeOK, Runner, Poll, Leave, AdmitClaim, ClaimReturns, AdmitJob, HandlerReturns,
        Finish, EndBatch
  <2>6. CASE Poll(r) \/ Leave(r) \/ Finish(r)
    BY <2>1, <2>2, <2>6, Ranges
    DEF LifecycleTypeOK, Poll, Leave, Finish, Waiting, HandsOver, Remaining
  <2>7. CASE AdmitClaim(r)
    <3>1. left'[r] = 0 /\ phase'[r] # "handle" /\ left[r] = 0 /\ phase[r] = "admit"
      BY <2>1, <2>2, <2>7 DEF LifecycleTypeOK, AdmitClaim, EndBatch
    <3>. QED BY <3>1 DEF Waiting, HandsOver
  <2>8. CASE ClaimReturns(r)
    BY <2>1, <2>2, <2>8, Ranges
    DEF LifecycleTypeOK, ClaimReturns, EndBatch, Waiting, HandsOver, Remaining
  <2>9. CASE AdmitJob(r)
    BY <2>1, <2>2, <2>9
    DEF LifecycleTypeOK, EndsForAReason, Admitted, AdmitJob, Waiting, HandsOver, Remaining
  <2>10. CASE HandlerReturns(r)
    BY <2>1, <2>2, <2>10, Ranges
    DEF LifecycleTypeOK, HandlerReturns, EndBatch, Waiting, HandsOver, Remaining
  <2>11. ASSUME \/ \E q \in Runners : CallerCancels(q)
                \/ \E c \in Stoppers : StopGeneration(c) \/ Joined(c) \/ Expire(c)
         PROVE  FALSE
    BY <2>3, <2>11
    DEF CallerCancels, StopGeneration, Joined, Expire, generationVars, runnerVars
  <2>. QED
    BY <2>4, <2>5, <2>6, <2>7, <2>8, <2>9, <2>10, <2>11 DEF LifecycleNext, Runner
<1>. QED BY <1>1, LifecycleInvariant, PTL DEF LifecycleSpec, GracefulStopDrains
=============================================================================

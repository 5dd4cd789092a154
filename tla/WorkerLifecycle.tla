--------------------------- MODULE WorkerLifecycle ---------------------------
(***************************************************************************)
(* The lifecycle of a workqueue.Worker: runners join a generation through   *)
(* Run, Start or ProcessBatch, claim and dispatch jobs only when admitted,  *)
(* and leave; Stop and StopContext end a generation and wait for it.        *)
(*                                                                         *)
(* Every critical section of lifecycleMu is one step.  The store's Claim    *)
(* and the handler run between two steps, without the lock, so shutdown,    *)
(* cancellation and other runners come in between.                          *)
(***************************************************************************)
EXTENDS Integers

CONSTANTS
    Runners,         \* goroutines that call Run, Start or ProcessBatch
    Stoppers,        \* goroutines that call Stop or StopContext
    Bounded,         \* those of them that call StopContext
    BatchSize,       \* jobs per poll
    MaxGenerations   \* bound: generations started

ASSUME LifecycleAssumption ==
    /\ BatchSize \in Nat \ {0}
    /\ MaxGenerations \in Nat
    /\ Bounded \subseteq Stoppers

Generations == 1..MaxGenerations

VARIABLES
    serialClaims, stopOnFailure,           \* options, fixed by NewWorker
    generation,                            \* w.generation; 0 is nil
    stopping, cancelled, runners, closed,  \* its fields; how often done was closed
    phase, mode, mine, ctxDone, left, budget, \* a runner's locals
    callerDone,                            \* the context its caller passed has ended
    call, target,                          \* a stopper's locals
    hurried                                \* observed: generations StopContext was called for

generationVars == <<serialClaims, stopOnFailure, generation, stopping, cancelled, runners, closed>>
runnerVars == <<phase, mode, mine, ctxDone, left, budget, callerDone>>
stopperVars == <<call, target, hurried>>
lifecycleVars == <<generationVars, runnerVars, stopperVars>>

---------------------------------------------------------------------------
(* Registration                                                             *)

\* MUTANT: a generation that is stopping may be replaced before it has drained.
OccupiedUnlessStopping ==
    generation # 0 /\ runners[generation] # {} /\ ~stopping[generation]

\* g != nil && len(g.runners) != 0
Occupied == generation # 0 /\ runners[generation] # {}

\* MUTANT: a generation that is shutting down still takes runners.
RefusesStartOnly(m) == m = "start"

\* g.stopping || start
Refuses(m) == stopping[generation] \/ m = "start"

\* register: join the current generation, or begin one when the last has drained.
Register(r, m) ==
    LET g == IF Occupied THEN generation ELSE generation + 1 IN
    /\ phase[r] = "out"
    /\ Occupied => ~Refuses(m)
    /\ g \in Generations
    /\ generation' = g
    /\ runners' = [runners EXCEPT ![g] = @ \cup {r}]
    /\ phase' = [phase EXCEPT ![r] = IF m = "start" THEN "select" ELSE "admit"]
    /\ mode' = [mode EXCEPT ![r] = m]
    /\ mine' = [mine EXCEPT ![r] = g]
    /\ ctxDone' = [ctxDone EXCEPT ![r] = FALSE]
    /\ UNCHANGED <<serialClaims, stopOnFailure, stopping, cancelled, closed, left, budget,
                   callerDone, stopperVars>>

\* The context a runner was given ends.
CallerCancels(r) ==
    /\ phase[r] # "out"
    /\ ~ctxDone[r]
    /\ ctxDone' = [ctxDone EXCEPT ![r] = TRUE]
    /\ callerDone' = [callerDone EXCEPT ![r] = TRUE]
    /\ UNCHANGED <<generationVars, phase, mode, mine, left, budget, stopperVars>>

---------------------------------------------------------------------------
(* A runner                                                                 *)

\* The tick case of run's select.
Poll(r) ==
    /\ phase[r] = "select"
    /\ phase' = [phase EXCEPT ![r] = "admit"]
    /\ UNCHANGED <<generationVars, mode, mine, ctxDone, left, budget, callerDone, stopperVars>>

\* Its stopCh and ctx.Done cases.
Leave(r) ==
    /\ phase[r] = "select"
    /\ stopping[mine[r]] \/ ctxDone[r]
    /\ phase' = [phase EXCEPT ![r] = "finish"]
    /\ UNCHANGED <<generationVars, mode, mine, ctxDone, left, budget, callerDone, stopperVars>>

\* processManagedBatch returns; jobs it still holds keep their durable lease.  The
\* next poll starts with a full budget.
EndBatch(r) ==
    /\ phase' = [phase EXCEPT ![r] = IF mode[r] = "batch" THEN "finish" ELSE "select"]
    /\ left' = [left EXCEPT ![r] = 0]
    /\ budget' = [budget EXCEPT ![r] = BatchSize]

\* admit
Admitted(r, claim) ==
    /\ ~ctxDone[r]
    /\ ~cancelled[mine[r]]
    /\ claim => ~stopping[mine[r]]

AdmitClaim(r) ==
    /\ phase[r] = "admit"
    /\ IF Admitted(r, TRUE)
       THEN phase' = [phase EXCEPT ![r] = "claim"] /\ UNCHANGED <<left, budget>>
       ELSE EndBatch(r)
    /\ UNCHANGED <<generationVars, mode, mine, ctxDone, callerDone, stopperVars>>

\* Store.Claim returns n jobs, none, or an error.  A serial claim of more than
\* one job is left to lease recovery.
ClaimReturns(r) ==
    /\ phase[r] = "claim"
    /\ \E n \in 0..BatchSize :
          IF n = 0 \/ (serialClaims /\ n # 1)
          THEN EndBatch(r)
          ELSE /\ phase' = [phase EXCEPT ![r] = "dispatch"]
               /\ left' = [left EXCEPT ![r] = n]
               /\ UNCHANGED budget
    /\ UNCHANGED <<generationVars, mode, mine, ctxDone, callerDone, stopperVars>>

AdmitJob(r) ==
    /\ phase[r] = "dispatch"
    /\ IF Admitted(r, FALSE)
       THEN phase' = [phase EXCEPT ![r] = "handle"] /\ UNCHANGED <<left, budget>>
       ELSE EndBatch(r)
    /\ UNCHANGED <<generationVars, mode, mine, ctxDone, callerDone, stopperVars>>

Remaining(n) == n - 1

\* processOne returns whether handler and mark succeeded, never so once the
\* context is done.
HandlerReturns(r) ==
    /\ phase[r] = "handle"
    /\ \E ok \in BOOLEAN :
          /\ ok => ~ctxDone[r]
          /\ IF \/ ~ok /\ stopOnFailure
                \/ Remaining(IF serialClaims THEN budget[r] ELSE left[r]) = 0
             THEN EndBatch(r)
             ELSE /\ phase' = [phase EXCEPT ![r] = IF serialClaims THEN "admit" ELSE "dispatch"]
                  /\ left' = [left EXCEPT ![r] = Remaining(@)]
                  /\ budget' = [budget EXCEPT ![r] = IF serialClaims THEN Remaining(@) ELSE @]
    /\ UNCHANGED <<generationVars, mode, mine, ctxDone, callerDone, stopperVars>>

\* MUTANT: the first runner to leave reports that all have left.
LastOutFirst(g, r) == closed[g] = 0

\* MUTANT: emptiness is tested before the runner is removed.
LastOutBefore(g, r) == runners[g] = {}

\* len(g.runners) == 0 after the delete
LastOut(g, r) == runners[g] \ {r} = {}

Finish(r) ==
    LET g == mine[r] IN
    /\ phase[r] = "finish"
    /\ phase' = [phase EXCEPT ![r] = "out"]
    /\ ctxDone' = [ctxDone EXCEPT ![r] = TRUE]
    /\ runners' = [runners EXCEPT ![g] = @ \ {r}]
    /\ closed' = [closed EXCEPT ![g] = IF LastOut(g, r) THEN @ + 1 ELSE @]
    /\ mode' = [mode EXCEPT ![r] = "run"]
    /\ mine' = [mine EXCEPT ![r] = 0]
    /\ callerDone' = [callerDone EXCEPT ![r] = FALSE]
    /\ budget' = [budget EXCEPT ![r] = BatchSize]
    /\ UNCHANGED <<serialClaims, stopOnFailure, generation, stopping, cancelled, left,
                   stopperVars>>

---------------------------------------------------------------------------
(* Shutdown                                                                 *)

\* MUTANT: Stop cancels the generation as StopContext does.
CancelsToo(s) == TRUE

\* Stop and StopContext call stopGeneration(false) and stopGeneration(true).
Cancels(s) == s \in Bounded

StopGeneration(s) ==
    LET cancel == Cancels(s) IN
    /\ call[s] # "wait"
    /\ generation # 0
    /\ stopping' = [stopping EXCEPT ![generation] = TRUE]
    /\ cancelled' = [cancelled EXCEPT ![generation] = @ \/ cancel]
    /\ ctxDone' = [r \in Runners |->
          \/ ctxDone[r]
          \/ cancel /\ ~cancelled[generation] /\ r \in runners[generation]]
    /\ call' = [call EXCEPT ![s] = "wait"]
    /\ target' = [target EXCEPT ![s] = generation]
    /\ hurried' = IF s \in Bounded THEN hurried \cup {generation} ELSE hurried
    /\ UNCHANGED <<serialClaims, stopOnFailure, generation, runners, closed, phase, mode, mine,
                   left, budget, callerDone>>

\* <-g.done
Joined(s) ==
    /\ call[s] = "wait"
    /\ closed[target[s]] > 0
    /\ call' = [call EXCEPT ![s] = "joined"]
    /\ UNCHANGED <<generationVars, runnerVars, target, hurried>>

\* StopContext's deadline: a finished join is preferred to it.
Expire(s) ==
    /\ call[s] = "wait"
    /\ s \in Bounded
    /\ closed[target[s]] = 0
    /\ call' = [call EXCEPT ![s] = "none"]
    /\ target' = [target EXCEPT ![s] = 0]
    /\ UNCHANGED <<generationVars, runnerVars, hurried>>

---------------------------------------------------------------------------
(* Specification                                                            *)

LifecycleInit ==
    /\ serialClaims \in BOOLEAN
    /\ stopOnFailure \in BOOLEAN
    /\ generation = 0
    /\ stopping = [g \in Generations |-> FALSE]
    /\ cancelled = [g \in Generations |-> FALSE]
    /\ runners = [g \in Generations |-> {}]
    /\ closed = [g \in Generations |-> 0]
    /\ phase = [r \in Runners |-> "out"]
    /\ mode = [r \in Runners |-> "run"]
    /\ mine = [r \in Runners |-> 0]
    /\ ctxDone = [r \in Runners |-> TRUE]
    /\ left = [r \in Runners |-> 0]
    /\ budget = [r \in Runners |-> BatchSize]
    /\ call = [s \in Stoppers |-> "none"]
    /\ callerDone = [r \in Runners |-> FALSE]
    /\ target = [s \in Stoppers |-> 0]
    /\ hurried = {}

Runner(r) ==
    \/ Poll(r)
    \/ Leave(r)
    \/ AdmitClaim(r)
    \/ ClaimReturns(r)
    \/ AdmitJob(r)
    \/ HandlerReturns(r)
    \/ Finish(r)

LifecycleNext ==
    \/ \E r \in Runners :
          \/ \E m \in {"run", "start", "batch"} : Register(r, m)
          \/ CallerCancels(r)
          \/ Runner(r)
    \/ \E s \in Stoppers :
          \/ StopGeneration(s)
          \/ Joined(s)
          \/ Expire(s)

LifecycleSpec == LifecycleInit /\ [][LifecycleNext]_lifecycleVars

\* Claims and handlers return, a closed channel is noticed, and select, which
\* picks among its ready cases at random, does not pass over a closed stopCh for
\* ever.  Nobody has to register, cancel or stop.
LifecycleFairSpec ==
    /\ LifecycleSpec
    /\ \A r \in Runners : WF_lifecycleVars(Runner(r)) /\ SF_lifecycleVars(Leave(r))
    /\ \A s \in Stoppers : WF_lifecycleVars(Joined(s))

---------------------------------------------------------------------------
(* Properties                                                               *)

LifecycleTypeOK ==
    /\ serialClaims \in BOOLEAN
    /\ stopOnFailure \in BOOLEAN
    /\ generation \in Generations \cup {0}
    /\ stopping \in [Generations -> BOOLEAN]
    /\ cancelled \in [Generations -> BOOLEAN]
    /\ runners \in [Generations -> SUBSET Runners]
    /\ closed \in [Generations -> Nat]
    /\ phase \in [Runners -> {"out", "select", "admit", "claim", "dispatch", "handle", "finish"}]
    /\ mode \in [Runners -> {"run", "start", "batch"}]
    /\ mine \in [Runners -> Generations \cup {0}]
    /\ ctxDone \in [Runners -> BOOLEAN]
    /\ left \in [Runners -> 0..BatchSize]
    /\ budget \in [Runners -> 1..BatchSize]
    /\ callerDone \in [Runners -> BOOLEAN]
    /\ hurried \subseteq Generations
    /\ call \in [Stoppers -> {"none", "wait", "joined"}]
    /\ target \in [Stoppers -> Generations \cup {0}]

\* Runners of two generations never run at the same time: a shutdown that timed
\* out is no permission to start a replacement (register).
GenerationsDoNotOverlap == \A r \in Runners : phase[r] # "out" => mine[r] = generation

\* g.done is closed at most once: a second close would panic (finish).
DoneClosedOnce == \A g \in Generations : closed[g] <= 1

\* When Stop or StopContext reports a join, every runner of that generation has
\* exited, its handlers, marks and hooks included.
JoinMeansQuiet ==
    \A s \in Stoppers, r \in Runners :
       call[s] = "joined" /\ mine[r] = target[s] => phase[r] = "out"

\* StopContext cancels every runner of its generation, those that registered
\* while another Stop was under way included.
CancelReachesAll ==
    \A g \in Generations : cancelled[g] => \A r \in runners[g] : ctxDone[r]

\* The jobs a runner has claimed and not yet handed to a handler.
Waiting(r) == IF phase[r] = "handle" THEN Remaining(left[r]) ELSE left[r]
HandsOver(r) == phase[r] = "dispatch" /\ phase'[r] = "handle"

\* Stop lets every claimed job run: whatever other runners and other calls of Stop
\* do, a runner gives up claimed jobs only when its own caller's context ended,
\* when StopContext was called for its generation, or when its handler failed
\* under WithStopOnFailure.
GracefulStopDrains ==
    [][\A r \in Runners :
          Waiting(r)' < (IF HandsOver(r) THEN Remaining(Waiting(r)) ELSE Waiting(r)) =>
             \/ callerDone[r] \/ mine[r] \in hurried
             \/ stopOnFailure /\ phase[r] = "handle"]_lifecycleVars

\* Stop and StopContext return once the claims and handlers under way do.
StopReturns == \A s \in Stoppers : call[s] = "wait" ~> call[s] # "wait"

---------------------------------------------------------------------------
(* The inductive invariant                                                  *)

\* A generation's runner set is who is really in it.
MembersAreIn ==
    /\ \A r \in Runners, g \in Generations :
          r \in runners[g] <=> phase[r] # "out" /\ mine[r] = g
    /\ \A r \in Runners : phase[r] # "out" => mine[r] # 0

\* A runner holds jobs exactly while it dispatches, one at a time with serial claims.
JobInHand ==
    \A r \in Runners :
       IF phase[r] \in {"dispatch", "handle"}
       THEN left[r] # 0 /\ (serialClaims => left[r] = 1)
       ELSE left[r] = 0

\* A runner's context ends with its caller's, or with its generation, and only
\* StopContext cancels that.
EndsForAReason ==
    /\ \A r \in Runners : phase[r] # "out" /\ ctxDone[r] => callerDone[r] \/ cancelled[mine[r]]
    /\ \A g \in Generations : cancelled[g] => g \in hurried

\* done is closed exactly when a generation that has begun is empty.
DoneMeansDrained ==
    \A g \in Generations :
       /\ closed[g] = IF g <= generation /\ runners[g] = {} THEN 1 ELSE 0
       /\ g > generation => ~stopping[g] /\ ~cancelled[g]
       /\ cancelled[g] => stopping[g]

\* Who waits, waits for a generation that has begun.
WaitersHaveTarget ==
    \A s \in Stoppers :
       /\ target[s] <= generation
       /\ call[s] # "none" => target[s] # 0
       /\ call[s] = "joined" => closed[target[s]] = 1

\* The inductive invariant behind the lifecycle properties.
LInv ==
    /\ LifecycleTypeOK
    /\ GenerationsDoNotOverlap
    /\ MembersAreIn
    /\ JobInHand
    /\ EndsForAReason
    /\ DoneMeansDrained
    /\ WaitersHaveTarget
    /\ CancelReachesAll
==============================================================================

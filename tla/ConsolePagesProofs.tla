------------------------- MODULE ConsolePagesProofs -------------------------
(***************************************************************************)
(* Proofs about the pages of CompanyConsole that are made of PageForm's    *)
(* steps, but for the settings: for each page an inductive invariant, that *)
(* every step of the page keeps it, and what it says of what the page      *)
(* shows, confirms and keeps.  CompanyConsoleProofs puts them together.    *)
(***************************************************************************)
EXTENDS CompanyConsole, TLAPS

-----------------------------------------------------------------------------
(* Records, and what is counted.                                           *)

Packet(n) == n = [cmd |-> n.cmd, answer |-> n.answer]
Fields(r, keys) == r = [k \in keys |-> r[k]]

\* None is apart from every record, function and sequence.
NoneApart == \A D, R : None \notin [D -> R]

\* So a record is not None.
LEMMA SomeRecord == ASSUME NoneApart, NEW r, NEW keys, Fields(r, keys) PROVE r # None
<1>1. r \in [keys -> {r[k] : k \in keys}]
  BY DEF Fields
<1>. QED BY <1>1 DEF NoneApart

\* So is an answer, and a request that has one.
LEMMA SomeAnswer ==
  ASSUME NoneApart
  PROVE  /\ \A x : Yes(x) # None
         /\ \A n : Packet(n) => n # None
<1>1. ASSUME NEW x PROVE Yes(x) # None
  <2>1. Fields(Yes(x), {"ok", "conflict", "garbled", "data"})
    BY DEF Yes, Fields
  <2>. QED BY <2>1, SomeRecord
<1>2. ASSUME NEW n, Packet(n) PROVE n # None
  <2>1. Fields(n, {"cmd", "answer"})
    BY <1>2 DEF Packet, Fields
  <2>. QED BY <2>1, SomeRecord
<1>. QED BY <1>1, <1>2

\* What is counted only grows.
Counted == moves \in Nat /\ rivals \in Nat /\ lost \in Nat

\* A request was answered well.
Acknowledged(r, n, op) == r # None /\ r.op = op /\ n # None /\ n.answer # None /\ n.answer.ok

-----------------------------------------------------------------------------
(* The recovery page: a receipt and its targets.                           *)

Targets == Recovery!Boxes
Receipt ==
  [st : {"pending", "retry", "processing", "done", "dead"}, ver : Nat, token : Nat, claims : Nat,
   workers : SUBSET [token : Nat, left : SUBSET Targets],
   targets : [Targets -> {"pending", "held", "delivered"}], copies : [Targets -> Nat]]

\* The ledger of a receipt tells what was delivered, and who may close it.
Once(s) ==
  /\ \A b \in Targets : s.copies[b] = IF s.targets[b] = "delivered" THEN 1 ELSE 0
  /\ s.st = "done" => \A b \in Targets : s.copies[b] = 1
  /\ s.st \in {"dead", "done"} => \A b \in Targets : s.targets[b] # "pending"

InboundKinds == {"inspect", "retry", "queue"}

RecoveryOK ==
  form = "inbound" =>
    /\ srv \in Receipt /\ Once(srv)
    /\ net # None => Packet(net) /\ net.cmd.kind \in InboundKinds
    /\ \A m \in stray : m.kind = "retry"

\* What the invariant of the recovery page promises.
LEMMA OnceMeans == ASSUME RecoveryOK PROVE Recovery!DeliveredOnce
BY DEF RecoveryOK, Once, Targets, Recovery!DeliveredOnce, Recovery!todo, Receipt

\* A claim takes the receipt away from whoever held it, and changes no target.
LEMMA ClaimOnce ==
  ASSUME NEW s \in Receipt, Once(s), NEW t \in Recovery!ClaimIngress(s)
  PROVE  t \in Receipt /\ Once(t)
<1>. DEFINE w == [token |-> s.ver + 1, left |-> Recovery!todo(s)]
<1>1. w \in [token : Nat, left : SUBSET Targets]
  BY DEF Receipt, Recovery!todo, Targets
<1>. HIDE DEF w
<1>2. t = [Recovery!Touched(s, "processing") EXCEPT
             !.claims = @ + 1, !.token = s.ver + 1, !.workers = @ \cup {w}]
  BY DEF Recovery!ClaimIngress, w
<1>3. /\ t.st = "processing" /\ t.ver = s.ver + 1 /\ t.token = s.ver + 1
      /\ t.claims = s.claims + 1 /\ t.workers = s.workers \cup {w}
      /\ t.targets = s.targets /\ t.copies = s.copies
      /\ t = [st |-> t.st, ver |-> t.ver, token |-> t.token, claims |-> t.claims,
              workers |-> t.workers, targets |-> t.targets, copies |-> t.copies]
  BY <1>2 DEF Recovery!Touched, Receipt
<1>4. t \in Receipt
  BY <1>1, <1>3 DEF Receipt
<1>. QED BY <1>3, <1>4 DEF Once

\* A target that is served was waiting: it gets its first copy, is held, or
\* waits on.
LEMMA ServeOnce ==
  ASSUME NEW s \in Receipt, Once(s), NEW t \in Recovery!processReceipt(s)
  PROVE  t \in Receipt /\ Once(t)
<1>0. PICK w \in s.workers :
        /\ Recovery!lockIngress(s, w)
        /\ t \in UNION {Recovery!TargetOutcomes(s, w, b) : b \in w.left}
  BY DEF Recovery!processReceipt
<1>1. PICK b \in w.left : t \in Recovery!TargetOutcomes(s, w, b)
  BY <1>0
<1>2. /\ w \in [token : Nat, left : SUBSET Targets] /\ b \in Targets
      /\ s.st = "processing"
  BY <1>0, <1>1 DEF Receipt, Recovery!lockIngress
<1>. DEFINE u == [w EXCEPT !.left = @ \ {b}]
            lf == Recovery!Left(s, w, b)
<1>3. u \in [token : Nat, left : SUBSET Targets]
  BY <1>2
<1>. HIDE DEF u
<1>4. /\ lf \in Receipt /\ lf.targets = s.targets /\ lf.copies = s.copies
      /\ lf.st = "processing"
  BY <1>2, <1>3 DEF Recovery!Left, Receipt, u
<1>. HIDE DEF lf
<1>5. CASE t = lf
  BY <1>4, <1>5 DEF Once
<1>6. CASE s.targets[b] = "pending" /\ t = [lf EXCEPT !.targets[b] = "delivered", !.copies[b] = @ + 1]
  <2>0. /\ t.st = lf.st /\ t.ver = lf.ver /\ t.token = lf.token /\ t.claims = lf.claims
        /\ t.workers = lf.workers
        /\ t.targets = [lf.targets EXCEPT ![b] = "delivered"]
        /\ t.copies = [lf.copies EXCEPT ![b] = lf.copies[b] + 1]
        /\ t = [st |-> t.st, ver |-> t.ver, token |-> t.token, claims |-> t.claims,
                workers |-> t.workers, targets |-> t.targets, copies |-> t.copies]
    BY <1>4, <1>6 DEF Receipt
  <2>1. /\ t \in Receipt /\ t.st = "processing"
        /\ t.targets = [s.targets EXCEPT ![b] = "delivered"]
        /\ t.copies = [s.copies EXCEPT ![b] = s.copies[b] + 1]
    BY <1>2, <1>4, <2>0 DEF Receipt
  <2>2. s.copies[b] = 0
    BY <1>2, <1>6 DEF Once
  <2>. QED BY <1>2, <2>1, <2>2 DEF Once, Receipt
<1>7. CASE s.targets[b] = "pending" /\ t = [lf EXCEPT !.targets[b] = "held"]
  <2>1. /\ t \in Receipt /\ t.st = "processing"
        /\ t.targets = [s.targets EXCEPT ![b] = "held"] /\ t.copies = s.copies
    BY <1>2, <1>4, <1>7 DEF Receipt
  <2>. QED BY <1>2, <1>7, <2>1 DEF Once, Receipt
<1>. QED
  BY <1>1, <1>5, <1>6, <1>7
  DEF Recovery!TargetOutcomes, Recovery!DeliverIngress, Recovery!HoldIngressTarget, lf

\* The mark at the end closes a receipt only when every target has its copy, and
\* leaves no target waiting in one it gives up.
LEMMA FinishOnce ==
  ASSUME NEW s \in Receipt, Once(s), NEW t \in Recovery!FinishIngress(s)
  PROVE  t \in Receipt /\ Once(t)
<1>. DEFINE v == Recovery!Verdict(s)
            tg == [b \in Targets |-> IF v = "dead" /\ s.targets[b] = "pending" THEN "held"
                                     ELSE s.targets[b]]
<1>1. PICK w \in s.workers :
        t = [Recovery!Touched(s, v) EXCEPT !.token = 0, !.workers = @ \ {w},
               !.targets = [b \in Recovery!Boxes |->
                              IF v = "dead" /\ @[b] = "pending" THEN "held" ELSE @[b]]]
  BY DEF Recovery!FinishIngress
<1>2. /\ v \in {"done", "dead", "retry"}
      /\ v = "done" => \A b \in Targets : s.targets[b] = "delivered"
  BY DEF Recovery!Verdict, Targets
<1>3. /\ tg \in [Targets -> {"pending", "held", "delivered"}]
      /\ \A b \in Targets : (tg[b] = "delivered") <=> (s.targets[b] = "delivered")
      /\ v \in {"done", "dead"} => \A b \in Targets : tg[b] # "pending"
  BY <1>2 DEF Receipt
<1>4. /\ t.st = v /\ t.ver = s.ver + 1 /\ t.token = 0 /\ t.claims = s.claims
      /\ t.workers = s.workers \ {w} /\ t.copies = s.copies
      /\ t.targets = tg
      /\ t = [st |-> t.st, ver |-> t.ver, token |-> t.token, claims |-> t.claims,
              workers |-> t.workers, targets |-> t.targets, copies |-> t.copies]
  BY <1>1 DEF Recovery!Touched, Receipt, Targets
<1>. HIDE DEF v, tg
<1>5. t \in Receipt
  BY <1>2, <1>3, <1>4 DEF Receipt
<1>. QED BY <1>2, <1>3, <1>4, <1>5 DEF Once, Receipt

\* A worker that stops, or crashes, leaves the receipt as it is.
LEMMA StopOnce ==
  ASSUME NEW s \in Receipt, Once(s), NEW t \in Recovery!Stops(s)
  PROVE  t \in Receipt /\ Once(t)
<1>1. PICK w \in s.workers : t = [s EXCEPT !.workers = @ \ {w}]
  BY DEF Recovery!Stops
<1>2. t \in Receipt /\ t.st = s.st /\ t.targets = s.targets /\ t.copies = s.copies
  BY <1>1 DEF Receipt
<1>. QED BY <1>2 DEF Once

\* What the page's requests do to the receipt: a retry queues targets that have
\* no copy.
LEMMA RequestOnce ==
  ASSUME NEW s \in Receipt, Once(s), NEW m, m.kind \in InboundKinds,
         NEW o \in Recovery!Handle(s, m)
  PROVE  o.srv \in Receipt /\ Once(o.srv)
<1>1. CASE o.srv = s
  BY <1>1
<1>2. CASE o = Recovery!RetryRecoveryReceipt(s, m) /\ o.srv # s
  <2>0. PICK t : t = o.srv
    OBVIOUS
  <2>. DEFINE tg == [b \in Targets |-> IF b \in m.targets THEN "pending" ELSE s.targets[b]]
  <2>1. /\ \A b \in m.targets : s.targets[b] # "delivered"
        /\ t = [Recovery!Touched(s, "pending") EXCEPT !.claims = 0, !.token = 0,
                  !.targets = [b \in Recovery!Boxes |-> IF b \in m.targets THEN "pending" ELSE @[b]]]
    BY <1>2, <2>0 DEF Recovery!RetryRecoveryReceipt, Recovery!Out
  <2>2. tg \in [Targets -> {"pending", "held", "delivered"}]
    BY DEF Receipt
  <2>3. \A b \in Targets : (tg[b] = "delivered") <=> (s.targets[b] = "delivered")
    BY <2>1
  <2>4. /\ t.st = "pending" /\ t.ver = s.ver + 1 /\ t.token = 0 /\ t.claims = 0
        /\ t.workers = s.workers /\ t.copies = s.copies /\ t.targets = tg
        /\ t = [st |-> t.st, ver |-> t.ver, token |-> t.token, claims |-> t.claims,
                workers |-> t.workers, targets |-> t.targets, copies |-> t.copies]
    BY <2>1 DEF Recovery!Touched, Receipt, Targets
  <2>. HIDE DEF tg
  <2>5. t \in Receipt
    BY <2>2, <2>4 DEF Receipt
  <2>. QED BY <2>0, <2>3, <2>4, <2>5 DEF Once, Receipt
<1>. QED
  BY <1>1, <1>2
  DEF Recovery!Handle, InboundKinds, Recovery!InspectRecoveryReceipt, Recovery!Out

\* Steps of the page leave the receipt alone and ask for its own kinds of answer.
LEMMA RecoveryPage ==
  ASSUME RecoveryOK, form' = form, srv' = srv, stray' = stray,
         net' = net \/ net' = None \/ \E m : Send(m) /\ m.kind \in InboundKinds
  PROVE  RecoveryOK'
<1>1. ASSUME NEW m, Send(m), m.kind \in InboundKinds
      PROVE  Packet(net') /\ net'.cmd.kind \in InboundKinds
  BY <1>1 DEF Send, Packet
<1>. QED BY <1>1 DEF RecoveryOK, Packet

\* Whoever asks for it, the receipt keeps its ledger true.
LEMMA RecoveryStep ==
  ASSUME RecoveryOK, Recovery!Next
  PROVE  RecoveryOK'
<1>1. CASE form = "inbound"
  <2>0. /\ srv \in Receipt /\ Once(srv)
        /\ net # None => Packet(net) /\ net.cmd.kind \in InboundKinds
        /\ \A m \in stray : m.kind = "retry"
    BY <1>1 DEF RecoveryOK
  <2>1. CASE Recovery!inspect \/ Recovery!retryTargets
    <3>1. /\ form' = form /\ srv' = srv /\ stray' = stray
      BY <2>1
      DEF Recovery!inspect, Recovery!retryTargets, Recovery!Read, Recovery!Write, Recovery!Here
    <3>2. \E m : Send(m) /\ m.kind \in InboundKinds
      BY <2>1
      DEF Recovery!inspect, Recovery!retryTargets, Recovery!Read, Recovery!Write,
          Recovery!Send, Send, InboundKinds
    <3>. QED BY <3>1, <3>2, RecoveryPage
  <2>2. CASE Recovery!checkTarget \/ Recovery!Revalidate
    <3>1. form' = form /\ srv' = srv /\ stray' = stray /\ net' = net
      BY <2>2
      DEF Recovery!checkTarget, Recovery!Revalidate, Recovery!Look, Recovery!Refresh,
          Recovery!Here
    <3>. QED BY <3>1, RecoveryPage
  <2>3. CASE \/ Recovery!Inspected \/ Recovery!QueueRead \/ Recovery!JobInspected
             \/ Recovery!ReconcileDone
    <3>1. form' = form /\ srv' = srv /\ stray' = stray /\ net' = None
      BY <2>3
      DEF Recovery!Inspected, Recovery!QueueRead, Recovery!JobInspected,
          Recovery!ReconcileDone, Recovery!End, Recovery!Hang, Recovery!Here
    <3>. QED BY <3>1, RecoveryPage
  <2>4. CASE Recovery!Retried
    <3>1. \E u : Recovery!End(u) \/ Recovery!Then("queue", [kind |-> "queue"], u)
      BY <2>4 DEF Recovery!Retried
    <3>2. form' = form /\ srv' = srv /\ stray' = stray
      BY <3>1 DEF Recovery!End, Recovery!Then, Recovery!Here
    <3>3. net' = None \/ (Send([kind |-> "queue"]) /\ [kind |-> "queue"].kind = "queue")
      BY <3>1 DEF Recovery!End, Recovery!Then, Recovery!Hang, Recovery!Send, Send
    <3>. QED BY <3>2, <3>3, RecoveryPage DEF InboundKinds
  <2>5. CASE Recovery!Remount
    <3>1. /\ form' = form /\ srv' = srv /\ net' = None
          /\ stray' = stray \cup Recovery!Dropped(Recovery!Writes)
      BY <2>5 DEF Recovery!Remount, Recovery!Reenter, Recovery!Abandon
    <3>2. \A m \in Recovery!Dropped(Recovery!Writes) : m.kind = "retry"
      BY <2>0 DEF Recovery!Dropped, Recovery!Writes, Recovery!Unanswered, InboundKinds
    <3>. QED BY <2>0, <3>1, <3>2 DEF RecoveryOK
  <2>6. CASE Recovery!Ingest
    <3>1. /\ form' = form /\ net' = net /\ stray' = stray
          /\ srv' \in Recovery!ClaimIngress(srv) \cup Recovery!processReceipt(srv)
                      \cup Recovery!FinishIngress(srv) \cup Recovery!Stops(srv)
      BY <2>6 DEF Recovery!Ingest
    <3>2. srv' \in Receipt /\ Once(srv')
      BY <2>0, <3>1, ClaimOnce, ServeOnce, FinishOnce, StopOnce
    <3>. QED BY <2>0, <3>1, <3>2 DEF RecoveryOK, Once, Packet
  <2>7. CASE Recovery!Serve
    <3>1. /\ net # None /\ form' = form /\ stray' = stray
          /\ \E o \in Recovery!Handle(srv, net.cmd) : srv' = o.srv
          /\ \E a : net' = [net EXCEPT !.answer = a]
      BY <2>7 DEF Recovery!Serve, Recovery!ServeBy, Recovery!Unanswered, Recovery!Reply
    <3>2. srv' \in Receipt /\ Once(srv')
      BY <2>0, <3>1, RequestOnce
    <3>3. Packet(net') /\ net'.cmd = net.cmd
      BY <2>0, <3>1 DEF Packet
    <3>. QED BY <2>0, <3>1, <3>2, <3>3 DEF RecoveryOK, Once
  <2>8. CASE Recovery!Lose
    <3>1. /\ net # None /\ form' = form
          /\ srv' = srv \/ \E o \in Recovery!Handle(srv, net.cmd) : srv' = o.srv
          /\ \E a : net' = [net EXCEPT !.answer = a]
          /\ \/ stray' = stray
             \/ net.cmd.kind \in Recovery!Writes /\ stray' = stray \cup {net.cmd}
      BY <2>8 DEF Recovery!Lose, Recovery!LoseBy, Recovery!Unanswered, Recovery!Reply
    <3>2. srv' \in Receipt /\ Once(srv')
      BY <2>0, <3>1, RequestOnce
    <3>3. Packet(net') /\ net'.cmd = net.cmd
      BY <2>0, <3>1 DEF Packet
    <3>4. \A m \in stray' : m.kind = "retry"
      BY <2>0, <3>1 DEF Recovery!Writes, InboundKinds
    <3>. QED BY <2>0, <3>1, <3>2, <3>3, <3>4 DEF RecoveryOK, Once
  <2>9. CASE Recovery!ServeStray
    <3>1. PICK m \in stray : Recovery!StrayBy(m, Recovery!Handle(srv, m))
      BY <2>9 DEF Recovery!ServeStray
    <3>2. /\ form' = form /\ net' = net /\ stray' = stray \ {m}
          /\ \E o \in Recovery!Handle(srv, m) : srv' = o.srv
      BY <3>1 DEF Recovery!StrayBy
    <3>3. srv' \in Receipt /\ Once(srv')
      BY <2>0, <3>1, <3>2, RequestOnce DEF InboundKinds
    <3>. QED BY <2>0, <3>2, <3>3 DEF RecoveryOK, Once, Packet
  <2>. QED
    BY <1>1, <2>1, <2>2, <2>3, <2>4, <2>5, <2>6, <2>7, <2>8, <2>9
    DEF Recovery!Next, Recovery!Rival
<1>2. CASE form # "inbound"
  <2>1. form' = form
    BY DEF Recovery!Next, Recovery!inspect, Recovery!checkTarget, Recovery!retryTargets,
       Recovery!editJob, Recovery!inspectJob, Recovery!setOutcome, Recovery!reconcile,
       Recovery!Inspected, Recovery!Retried, Recovery!QueueRead, Recovery!JobInspected,
       Recovery!ReconcileDone, Recovery!Revalidate, Recovery!Remount, Recovery!Rival,
       Recovery!Ingest, Recovery!Serve, Recovery!Lose, Recovery!ServeStray,
       Recovery!Read, Recovery!Write, Recovery!Look, Recovery!Type, Recovery!End, Recovery!Then,
       Recovery!Refresh, Recovery!Reenter, Recovery!Abandon, Recovery!Others, Recovery!ServeBy,
       Recovery!LoseBy, Recovery!StrayBy, Recovery!Here
  <2>. QED BY <1>2, <2>1 DEF RecoveryOK
<1>. QED BY <1>1, <1>2

\* A receipt starts with one target served and two held.
LEMMA RecoveryStart == ASSUME Recovery!Init PROVE RecoveryOK
<1>1. CASE form = "inbound"
  <2>1. /\ srv = [st |-> "dead", ver |-> 1, token |-> 0, claims |-> 0, workers |-> {},
                  targets |-> [b \in Targets |-> IF b = "b3" THEN "delivered" ELSE "held"],
                  copies |-> [b \in Targets |-> IF b = "b3" THEN 1 ELSE 0]]
        /\ net = None /\ stray = {}
    BY <1>1 DEF Recovery!Init, Recovery!Quiet, Targets
  <2>2. srv \in Receipt
    BY <2>1 DEF Receipt
  <2>3. Once(srv)
    BY <2>1 DEF Once
  <2>. QED BY <2>1, <2>2, <2>3 DEF RecoveryOK
<1>. QED BY <1>1 DEF RecoveryOK

\* An inspection of a receipt that names the present version shows the present
\* targets, which change under a version only while a worker processes them.
SeenTargets(s, ver, targets) ==
  /\ ver \in Int /\ ver <= s.ver
  /\ (ver = s.ver /\ s.st # "processing") => targets = s.targets
InboundForm(s, u) ==
  /\ Fields(u, {"queue", "inspection", "targets", "review"})
  /\ u.inspection # None => SeenTargets(s, u.inspection.ver, u.inspection.targets)
InboundCommand(s, m) ==
  \/ m.kind \in {"inspect", "queue"}
  \/ m.kind = "retry" /\ SeenTargets(s, m.ver, m.seen)
InboundNet(s, n) ==
  n # None => /\ Packet(n) /\ InboundCommand(s, n.cmd)
              /\ (n.answer # None /\ n.cmd.kind = "inspect" /\ n.answer.ok)
                   => SeenTargets(s, n.answer.data.ver, n.answer.data.targets)
InboundRun(r, n) ==
  r # None => /\ Fields(r, {"op", "mine", "steady"}) /\ r.op \in {"inspect", "retry", "queue"}
              /\ (n # None /\ r.op = "inspect") => n.cmd.kind = "inspect"

\* An inspection of a job that names its present version shows its present
\* recipients; the one on the screen is of the job in the field.
SeenJob(s, id, ver, rcpt) ==
  /\ id \in Recovery!Jobs /\ ver \in Int /\ ver <= s.jobs[id].ver
  /\ ver = s.jobs[id].ver => rcpt = s.jobs[id].rcpt
JobsRow(s) ==
  /\ Fields(s, {"jobs"}) /\ Fields(s.jobs, Recovery!Jobs)
  /\ \A id \in Recovery!Jobs : Fields(s.jobs[id], {"st", "ver", "rcpt"}) /\ s.jobs[id].ver \in Int
OutboundForm(s, u) ==
  /\ Fields(u, {"jobId", "job", "outcomes", "review"}) /\ u.jobId \in Recovery!Jobs \cup {""}
  /\ u.job # None => u.job.id = u.jobId /\ SeenJob(s, u.job.id, u.job.ver, u.job.rcpt)
OutboundCommand(s, m) ==
  \/ m.kind = "job" /\ m.id \in Recovery!Jobs
  \/ m.kind = "reconcile" /\ SeenJob(s, m.id, m.ver, m.seen) /\ m.shown = m.id
OutboundNet(s, n) ==
  n # None => /\ Packet(n) /\ OutboundCommand(s, n.cmd)
              /\ (n.answer # None /\ n.cmd.kind = "job" /\ n.answer.ok)
                   => SeenJob(s, n.answer.data.id, n.answer.data.ver, n.answer.data.rcpt)
OutboundRun(r, n, u) ==
  r # None =>
    \/ /\ Fields(r, {"id", "op", "mine", "steady"}) /\ r.op = "job"
       /\ n # None => n.cmd.kind = "job"
       /\ r.mine => r.id = u.jobId
    \/ Fields(r, {"op", "mine", "steady"}) /\ r.op = "reconcile"

InspectionsOK ==
  /\ form = "inbound" =>
       /\ InboundForm(srv, ui) /\ InboundNet(srv, net) /\ InboundRun(run, net)
       /\ \A m \in stray : m.kind = "retry" /\ InboundCommand(srv, m)
  /\ form = "outbound" =>
       /\ JobsRow(srv) /\ OutboundForm(srv, ui) /\ OutboundNet(srv, net) /\ OutboundRun(run, net, ui)
       /\ \A m \in stray : m.kind = "reconcile" /\ OutboundCommand(srv, m)

\* The receipt has moved on, or is as it was.
Later(s, t) ==
  /\ t.ver >= s.ver
  /\ (t.ver = s.ver /\ t.st # "processing") => s.st # "processing" /\ t.targets = s.targets

\* An inspection stays true of a receipt that moves on.
LEMMA SeenLater ==
  ASSUME NEW s, NEW t, s.ver \in Int, t.ver \in Int, Later(s, t)
  PROVE  /\ \A ver, x : SeenTargets(s, ver, x) => SeenTargets(t, ver, x)
         /\ \A m : InboundCommand(s, m) => InboundCommand(t, m)
         /\ \A n : InboundNet(s, n) => InboundNet(t, n)
         /\ \A u : InboundForm(s, u) => InboundForm(t, u)
<1>1. \A ver, x : SeenTargets(s, ver, x) => SeenTargets(t, ver, x)
  BY DEF SeenTargets, Later
<1>. HIDE DEF SeenTargets
<1>2. \A m : InboundCommand(s, m) => InboundCommand(t, m)
  BY <1>1 DEF InboundCommand
<1>3. \A n : InboundNet(s, n) => InboundNet(t, n)
  BY <1>1, <1>2 DEF InboundNet
<1>4. \A u : InboundForm(s, u) => InboundForm(t, u)
  BY <1>1 DEF InboundForm
<1>. QED BY <1>1, <1>2, <1>3, <1>4

\* Whatever the workers do moves the receipt on.
LEMMA IngestLater ==
  ASSUME NEW s \in Receipt,
         NEW t \in Recovery!ClaimIngress(s) \cup Recovery!processReceipt(s)
                   \cup Recovery!FinishIngress(s) \cup Recovery!Stops(s)
  PROVE  t.ver \in Int /\ Later(s, t)
<1>1. CASE t \in Recovery!ClaimIngress(s)
  <2>1. \E w : t = [Recovery!Touched(s, "processing") EXCEPT
                      !.claims = @ + 1, !.token = s.ver + 1, !.workers = @ \cup w]
    BY <1>1 DEF Recovery!ClaimIngress
  <2>2. t.ver = s.ver + 1
    BY <2>1 DEF Recovery!Touched, Receipt
  <2>. QED BY <2>2 DEF Later, Receipt
<1>2. CASE t \in Recovery!processReceipt(s)
  <2>1. PICK w \in s.workers :
          /\ Recovery!lockIngress(s, w)
          /\ t \in UNION {Recovery!TargetOutcomes(s, w, b) : b \in w.left}
    BY <1>2 DEF Recovery!processReceipt
  <2>2. PICK b \in w.left : t \in Recovery!TargetOutcomes(s, w, b)
    BY <2>1
  <2>3. \/ t = Recovery!Left(s, w, b) \/ t = [Recovery!Left(s, w, b) EXCEPT !.targets[b] = "held"]
        \/ t = [Recovery!Left(s, w, b) EXCEPT !.targets[b] = "delivered", !.copies[b] = @ + 1]
    BY <2>2
    DEF Recovery!TargetOutcomes, Recovery!DeliverIngress, Recovery!HoldIngressTarget
  <2>4. s.st = "processing"
    BY <2>1 DEF Recovery!lockIngress
  <2>5. t.ver = s.ver /\ t.st = s.st
    BY <2>3 DEF Recovery!Left, Receipt
  <2>. QED BY <2>4, <2>5 DEF Later, Receipt
<1>3. CASE t \in Recovery!FinishIngress(s)
  <2>1. \E ws, x : t = [Recovery!Touched(s, Recovery!Verdict(s)) EXCEPT
                          !.token = 0, !.workers = ws, !.targets = x]
    BY <1>3 DEF Recovery!FinishIngress
  <2>2. t.ver = s.ver + 1
    BY <2>1 DEF Recovery!Touched, Receipt
  <2>. QED BY <2>2 DEF Later, Receipt
<1>4. CASE t \in Recovery!Stops(s)
  <2>1. PICK w \in s.workers : t = [s EXCEPT !.workers = @ \ {w}]
    BY <1>4 DEF Recovery!Stops
  <2>2. t.ver = s.ver /\ t.st = s.st /\ t.targets = s.targets
    BY <2>1 DEF Receipt
  <2>. QED BY <2>2 DEF Later, Receipt
<1>. QED BY <1>1, <1>2, <1>3, <1>4

\* So does a request of the page, and an inspection shows the receipt.
LEMMA RequestLater ==
  ASSUME NEW s \in Receipt, NEW m, m.kind \in InboundKinds, NEW o \in Recovery!Handle(s, m)
  PROVE  /\ o.srv.ver \in Int /\ Later(s, o.srv)
         /\ (m.kind = "inspect" /\ o.a.ok) => SeenTargets(o.srv, o.a.data.ver, o.a.data.targets)
<1>1. CASE m.kind = "inspect"
  <2>1. o.srv = s /\ o.a.data = [st |-> s.st, ver |-> s.ver, targets |-> s.targets]
    BY <1>1 DEF Recovery!Handle, Recovery!InspectRecoveryReceipt, Recovery!Out, Recovery!Yes
  <2>. QED BY <2>1 DEF SeenTargets, Later, Receipt
<1>2. CASE o.srv = s /\ m.kind # "inspect"
  BY <1>2 DEF Later, Receipt
<1>3. CASE m.kind # "inspect" /\ o = Recovery!RetryRecoveryReceipt(s, m) /\ o.srv # s
  <2>1. \E x : o.srv = [Recovery!Touched(s, "pending") EXCEPT !.claims = 0, !.token = 0, !.targets = x]
    BY <1>3 DEF Recovery!RetryRecoveryReceipt, Recovery!Out
  <2>2. o.srv.ver = s.ver + 1
    BY <2>1 DEF Recovery!Touched, Receipt
  <2>. QED BY <1>3, <2>2 DEF Later, Receipt
<1>. QED BY <1>1, <1>2, <1>3 DEF Recovery!Handle, InboundKinds, Recovery!Out

\* A request that sets out has no answer yet.
LEMMA SentInbound ==
  ASSUME NEW s, NEW m, InboundCommand(s, m), Recovery!Send(m)
  PROVE  InboundNet(s, net') /\ net'.cmd = m
<1>1. net' = [cmd |-> m, answer |-> None]
  BY DEF Recovery!Send
<1>2. net'.cmd = m /\ net'.answer = None /\ Packet(net')
  BY <1>1 DEF Packet
<1>. QED BY <1>2 DEF InboundNet

\* The actions of the inbound half.
LEMMA InboundStart ==
  ASSUME NEW op \in {"inspect", "retry"}
  PROVE  /\ Fields(Recovery!Start(op, <<>>), {"op", "mine", "steady"})
         /\ Recovery!Start(op, <<>>).op = op
<1>1. DOMAIN <<>> = {}
  OBVIOUS
<1>2. Recovery!Start(op, <<>>) = [op |-> op, mine |-> TRUE, steady |-> TRUE]
  BY <1>1 DEF Recovery!Start, Recovery!Over
<1>. QED BY <1>2 DEF Fields

\* Steps of the page on what it inspected inbound.
LEMMA InboundPage ==
  ASSUME InspectionsOK, form = "inbound", form' = form, srv' = srv, stray' = stray,
         InboundForm(srv, ui'), InboundNet(srv, net'), InboundRun(run', net')
  PROVE  InspectionsOK'
BY DEF InspectionsOK

\* The page does not change its half.
LEMMA RecoveryForm == ASSUME Recovery!Next PROVE form' = form
BY DEF Recovery!Next, Recovery!inspect, Recovery!checkTarget, Recovery!retryTargets,
   Recovery!editJob, Recovery!inspectJob, Recovery!setOutcome, Recovery!reconcile,
   Recovery!Inspected, Recovery!Retried, Recovery!QueueRead, Recovery!JobInspected,
   Recovery!ReconcileDone, Recovery!Revalidate, Recovery!Remount, Recovery!Rival,
   Recovery!Ingest, Recovery!Serve, Recovery!Lose, Recovery!ServeStray,
   Recovery!Read, Recovery!Write, Recovery!Look, Recovery!Type, Recovery!End, Recovery!Then,
   Recovery!Refresh, Recovery!Reenter, Recovery!Abandon, Recovery!Others, Recovery!ServeBy,
   Recovery!LoseBy, Recovery!StrayBy, Recovery!Here

\* Whatever happens to the receipt, its inspections stay true.
LEMMA InboundStep ==
  ASSUME RecoveryOK, RecoveryOK', InspectionsOK, Recovery!Next, form = "inbound"
  PROVE  InspectionsOK'
<1>0. /\ srv \in Receipt
      /\ net # None => Packet(net) /\ net.cmd.kind \in InboundKinds
      /\ InboundForm(srv, ui) /\ InboundNet(srv, net) /\ InboundRun(run, net)
      /\ \A m \in stray : m.kind = "retry" /\ InboundCommand(srv, m)
  BY DEF RecoveryOK, InspectionsOK
<1>1. CASE Recovery!inspect
  <2>1. /\ form' = form /\ srv' = srv /\ stray' = stray /\ ui' = ui
        /\ Recovery!Send([kind |-> "inspect"])
        /\ run' = Recovery!Start("inspect", <<>>)
    BY <1>1 DEF Recovery!inspect, Recovery!Read, Recovery!Here
  <2>2. InboundNet(srv, net') /\ net'.cmd.kind = "inspect"
    BY <2>1, SentInbound DEF InboundCommand
  <2>3. InboundRun(run', net')
    BY <2>1, <2>2, InboundStart DEF InboundRun
  <2>. QED BY <1>0, <2>1, <2>2, <2>3, InboundPage
<1>2. CASE Recovery!checkTarget
  <2>1. /\ form' = form /\ srv' = srv /\ stray' = stray /\ run' = run /\ net' = net
        /\ \E x : ui' = [ui EXCEPT !.targets = x]
    BY <1>2 DEF Recovery!checkTarget, Recovery!Look, Recovery!Here
  <2>2. InboundForm(srv, ui')
    BY <1>0, <2>1 DEF InboundForm, Fields
  <2>. QED BY <1>0, <2>1, <2>2, InboundPage
<1>3. CASE Recovery!retryTargets
  <2>. DEFINE m == [kind |-> "retry", ver |-> ui.inspection.ver, targets |-> ui.targets,
                    seen |-> ui.inspection.targets]
  <2>1. /\ form' = form /\ srv' = srv /\ stray' = stray /\ ui' = ui /\ Recovery!Send(m)
        /\ run' = Recovery!Start("retry", <<>>) /\ ui.inspection # None
    BY <1>3 DEF Recovery!retryTargets, Recovery!Write, Recovery!Here
  <2>2. InboundCommand(srv, m)
    BY <1>0, <2>1 DEF InboundForm, InboundCommand
  <2>3. InboundNet(srv, net')
    BY <2>1, <2>2, SentInbound
  <2>4. InboundRun(run', net')
    BY <2>1, InboundStart DEF InboundRun
  <2>. QED BY <1>0, <2>1, <2>3, <2>4, InboundPage
<1>4. CASE Recovery!Inspected
  <2>1. /\ form' = form /\ srv' = srv /\ stray' = stray /\ net' = None
        /\ run # None /\ net # None /\ net.answer # None /\ run.op = "inspect" /\ run' = None
        /\ ui' = IF net.answer.ok
                 THEN [ui EXCEPT !.inspection = net.answer.data, !.targets = {}, !.review = FALSE]
                 ELSE ui
    BY <1>4
    DEF Recovery!Inspected, Recovery!Doing, Recovery!Answered, Recovery!End, Recovery!Hang,
        Recovery!Here, Recovery!Got, Recovery!Stop
  <2>2. net.answer.ok => SeenTargets(srv, net.answer.data.ver, net.answer.data.targets)
    BY <1>0, <2>1 DEF InboundRun, InboundNet
  <2>3. InboundForm(srv, ui')
    BY <1>0, <2>1, <2>2 DEF InboundForm, Fields
  <2>. QED BY <1>0, <2>1, <2>3, InboundPage DEF InboundRun, InboundNet
<1>5. CASE Recovery!Retried
  <2>1. PICK u : /\ u \in {ui, [ui EXCEPT !.inspection = None],
                           [ui EXCEPT !.inspection = None, !.targets = {}, !.review = TRUE]}
                 /\ \/ Recovery!End(u)
                    \/ Recovery!Then("queue", [kind |-> "queue"], u) /\ run.op = "retry" /\ run # None
    BY <1>5 DEF Recovery!Retried, Recovery!Doing
  <2>2. InboundForm(srv, u)
    BY <1>0, <2>1 DEF InboundForm, Fields
  <2>3. form' = form /\ srv' = srv /\ stray' = stray /\ ui' = u
    BY <2>1 DEF Recovery!End, Recovery!Then, Recovery!Here
  <2>4. CASE Recovery!End(u)
    <3>1. net' = None /\ run' = None
      BY <2>4 DEF Recovery!End, Recovery!Hang, Recovery!Stop
    <3>. QED BY <2>2, <2>3, <3>1, InboundPage DEF InboundNet, InboundRun
  <2>5. CASE Recovery!Then("queue", [kind |-> "queue"], u)
    <3>1. Recovery!Send([kind |-> "queue"]) /\ run' = [run EXCEPT !.op = "queue"]
      BY <2>5 DEF Recovery!Then, Recovery!Step
    <3>2. InboundNet(srv, net')
      BY <3>1, SentInbound DEF InboundCommand
    <3>3. InboundRun(run', net')
      BY <1>0, <1>5, <3>1 DEF InboundRun, Fields, Recovery!Retried, Recovery!Doing
    <3>. QED BY <2>2, <2>3, <3>2, <3>3, InboundPage
  <2>. QED BY <2>1, <2>4, <2>5
<1>6. CASE Recovery!QueueRead
  <2>1. /\ form' = form /\ srv' = srv /\ stray' = stray /\ net' = None /\ run' = None
        /\ ui' = ui \/ \E x : ui' = [ui EXCEPT !.queue = x]
    BY <1>6 DEF Recovery!QueueRead, Recovery!End, Recovery!Hang, Recovery!Stop, Recovery!Here
  <2>2. InboundForm(srv, ui')
    BY <1>0, <2>1 DEF InboundForm, Fields
  <2>. QED BY <2>1, <2>2, InboundPage DEF InboundNet, InboundRun
<1>7. CASE Recovery!JobInspected \/ Recovery!ReconcileDone
  BY <1>0, <1>7
  DEF Recovery!JobInspected, Recovery!ReconcileDone, Recovery!Doing, InboundRun
<1>8. CASE Recovery!Revalidate
  <2>1. /\ form' = form /\ srv' = srv /\ stray' = stray /\ net' = net
        /\ run' \in {run, [run EXCEPT !.steady = FALSE]} /\ (run = None => run' = None)
        /\ ui' = [ui EXCEPT !.queue = ~@]
    BY <1>8
    DEF Recovery!Revalidate, Recovery!Refresh, Recovery!Moved, Recovery!Here
  <2>2. InboundForm(srv, ui')
    BY <1>0, <2>1 DEF InboundForm, Fields
  <2>3. InboundRun(run', net')
    BY <1>0, <2>1 DEF InboundRun, Fields
  <2>. QED BY <1>0, <2>1, <2>2, <2>3, InboundPage
<1>9. CASE Recovery!Remount
  <2>1. /\ form' = form /\ srv' = srv /\ net' = None /\ run' = None
        /\ stray' = stray \cup Recovery!Dropped(Recovery!Writes)
        /\ ui' = [queue |-> srv.st # "done", inspection |-> None, targets |-> {}, review |-> FALSE]
    BY <1>9 DEF Recovery!Remount, Recovery!Reenter, Recovery!Abandon, Recovery!Blank
  <2>2. \A m \in Recovery!Dropped(Recovery!Writes) : m.kind = "retry" /\ InboundCommand(srv, m)
    BY <1>0
    DEF Recovery!Dropped, Recovery!Writes, Recovery!Unanswered, InboundKinds, InboundNet
  <2>3. InboundForm(srv, ui')
    BY <2>1 DEF InboundForm, Fields
  <2>. QED BY <1>0, <2>1, <2>2, <2>3 DEF InspectionsOK, InboundNet, InboundRun
<1>10. ASSUME form' = form, ui' = ui, run' = run, srv' \in Receipt, Later(srv, srv'),
              InboundNet(srv', net'), net' # None /\ net # None => net'.cmd = net.cmd,
              net' # None => net # None,
              \A m \in stray' : m.kind = "retry" /\ InboundCommand(srv, m)
       PROVE  InspectionsOK'
  <2>1. srv.ver \in Int /\ srv'.ver \in Int
    BY <1>0, <1>10 DEF Receipt
  <2>2. InboundForm(srv', ui') /\ \A m \in stray' : m.kind = "retry" /\ InboundCommand(srv', m)
    BY <1>0, <1>10, <2>1, SeenLater
  <2>3. InboundRun(run', net')
    BY <1>0, <1>10 DEF InboundRun
  <2>. QED BY <1>10, <2>2, <2>3 DEF InspectionsOK
<1>11. srv' \in Receipt
  <2>1. form' = form
    BY RecoveryForm
  <2>. QED BY <2>1 DEF RecoveryOK
<1>12. CASE Recovery!Ingest
  <2>1. /\ form' = form /\ net' = net /\ stray' = stray /\ ui' = ui /\ run' = run
        /\ srv' \in Recovery!ClaimIngress(srv) \cup Recovery!processReceipt(srv)
                    \cup Recovery!FinishIngress(srv) \cup Recovery!Stops(srv)
    BY <1>12 DEF Recovery!Ingest
  <2>2. Later(srv, srv') /\ srv.ver \in Int /\ srv'.ver \in Int
    BY <1>0, <1>11, <2>1, IngestLater DEF Receipt
  <2>3. InboundNet(srv', net')
    BY <1>0, <2>1, <2>2, SeenLater
  <2>. QED BY <1>0, <1>10, <1>11, <2>1, <2>2, <2>3
<1>13. ASSUME net # None, NEW s, s \in Receipt, s = srv \/ (\E o \in Recovery!Handle(srv, net.cmd) : s = o.srv),
              NEW a, net' = [net EXCEPT !.answer = a],
              (a # None /\ a.ok) => \E o \in Recovery!Handle(srv, net.cmd) : s = o.srv /\ a = o.a
       PROVE  Later(srv, s) /\ InboundNet(s, net') /\ net'.cmd = net.cmd
  <2>1. srv.ver \in Int /\ s.ver \in Int /\ Later(srv, s)
    BY <1>0, <1>13, RequestLater DEF Later, Receipt
  <2>2. Packet(net') /\ net'.cmd = net.cmd /\ net'.answer = a
    BY <1>0, <1>13 DEF Packet
  <2>3. InboundCommand(s, net.cmd)
    BY <1>0, <1>13, <2>1, SeenLater DEF InboundNet
  <2>4. (a # None /\ net.cmd.kind = "inspect" /\ a.ok) => SeenTargets(s, a.data.ver, a.data.targets)
    BY <1>0, <1>13, RequestLater
  <2>. QED BY <2>1, <2>2, <2>3, <2>4 DEF InboundNet
<1>14. CASE Recovery!Serve
  <2>1. PICK o \in Recovery!Handle(srv, net.cmd) :
          /\ net # None /\ form' = form /\ stray' = stray /\ ui' = ui /\ run' = run
          /\ srv' = o.srv /\ net' = [net EXCEPT !.answer = o.a]
    BY <1>14 DEF Recovery!Serve, Recovery!ServeBy, Recovery!Unanswered, Recovery!Reply
  <2>2. Later(srv, srv') /\ InboundNet(srv', net') /\ net'.cmd = net.cmd
    BY <1>11, <1>13, <2>1
  <2>. QED BY <1>0, <1>10, <1>11, <2>1, <2>2
<1>15. CASE Recovery!Lose
  <2>1. /\ net # None /\ form' = form /\ ui' = ui /\ run' = run
        /\ srv' = srv \/ \E o \in Recovery!Handle(srv, net.cmd) : srv' = o.srv
        /\ \E a \in {Recovery!No, Recovery!Garbled} : net' = [net EXCEPT !.answer = a]
        /\ \/ stray' = stray
           \/ net.cmd.kind \in Recovery!Writes /\ stray' = stray \cup {net.cmd}
    BY <1>15 DEF Recovery!Lose, Recovery!LoseBy, Recovery!Unanswered, Recovery!Reply
  <2>2. PICK a : ~a.ok /\ net' = [net EXCEPT !.answer = a]
    BY <2>1 DEF Recovery!No, Recovery!Garbled
  <2>3. Later(srv, srv') /\ InboundNet(srv', net') /\ net'.cmd = net.cmd
    BY <1>11, <1>13, <2>1, <2>2
  <2>4. \A m \in stray' : m.kind = "retry" /\ InboundCommand(srv, m)
    BY <1>0, <2>1 DEF Recovery!Writes, InboundKinds, InboundNet
  <2>. QED BY <1>10, <1>11, <2>1, <2>3, <2>4
<1>16. CASE Recovery!ServeStray
  <2>1. PICK m \in stray : Recovery!StrayBy(m, Recovery!Handle(srv, m))
    BY <1>16 DEF Recovery!ServeStray
  <2>2. /\ form' = form /\ net' = net /\ stray' = stray \ {m} /\ ui' = ui /\ run' = run
        /\ \E o \in Recovery!Handle(srv, m) : srv' = o.srv
    BY <2>1 DEF Recovery!StrayBy
  <2>3. Later(srv, srv') /\ srv.ver \in Int /\ srv'.ver \in Int
    BY <1>0, <1>11, <2>1, <2>2, RequestLater DEF InboundKinds, Receipt
  <2>4. InboundNet(srv', net')
    BY <1>0, <2>2, <2>3, SeenLater
  <2>. QED BY <1>0, <1>10, <1>11, <2>2, <2>3, <2>4
<1>. QED
  BY <1>1, <1>2, <1>3, <1>4, <1>5, <1>6, <1>7, <1>8, <1>9, <1>12, <1>14, <1>15, <1>16
  DEF Recovery!Next, Recovery!Rival

-----------------------------------------------------------------------------
(* The outbound half.                                                      *)

\* No job goes back, and one that stays at its version stays as it is.
JobsLater(s, t) ==
  \A id \in Recovery!Jobs : /\ t.jobs[id].ver >= s.jobs[id].ver
                            /\ t.jobs[id].ver = s.jobs[id].ver => t.jobs[id].rcpt = s.jobs[id].rcpt

\* An inspection stays true of jobs that move on.
LEMMA SeenJobLater ==
  ASSUME NEW s, NEW t, JobsRow(s), JobsRow(t), JobsLater(s, t)
  PROVE  /\ \A id, ver, x : SeenJob(s, id, ver, x) => SeenJob(t, id, ver, x)
         /\ \A m : OutboundCommand(s, m) => OutboundCommand(t, m)
         /\ \A n : OutboundNet(s, n) => OutboundNet(t, n)
         /\ \A u : OutboundForm(s, u) => OutboundForm(t, u)
<1>1. ASSUME NEW id, NEW ver, NEW x, SeenJob(s, id, ver, x) PROVE SeenJob(t, id, ver, x)
  <2>1. /\ id \in Recovery!Jobs /\ ver \in Int /\ ver <= s.jobs[id].ver
        /\ ver = s.jobs[id].ver => x = s.jobs[id].rcpt
    BY <1>1 DEF SeenJob
  <2>2. s.jobs[id].ver \in Int /\ t.jobs[id].ver \in Int
    BY <2>1 DEF JobsRow
  <2>3. /\ t.jobs[id].ver >= s.jobs[id].ver
        /\ t.jobs[id].ver = s.jobs[id].ver => t.jobs[id].rcpt = s.jobs[id].rcpt
    BY <2>1 DEF JobsLater
  <2>4. ver <= t.jobs[id].ver /\ (ver = t.jobs[id].ver => x = t.jobs[id].rcpt)
    BY <2>1, <2>2, <2>3
  <2>. QED BY <2>1, <2>4 DEF SeenJob
<1>2. \A m : OutboundCommand(s, m) => OutboundCommand(t, m)
  BY <1>1 DEF OutboundCommand
<1>3. \A n : OutboundNet(s, n) => OutboundNet(t, n)
  BY <1>1, <1>2 DEF OutboundNet
<1>4. \A u : OutboundForm(s, u) => OutboundForm(t, u)
  BY <1>1 DEF OutboundForm
<1>. QED BY <1>1, <1>2, <1>3, <1>4

\* A job that is written gets the next version, and no other job changes.
LEMMA JobWritten ==
  ASSUME NEW s, JobsRow(s), NEW id \in Recovery!Jobs, NEW j,
         Fields(j, {"st", "ver", "rcpt"}), j.ver = s.jobs[id].ver + 1
  PROVE  JobsRow([s EXCEPT !.jobs[id] = j]) /\ JobsLater(s, [s EXCEPT !.jobs[id] = j])
<1>. DEFINE t == [s EXCEPT !.jobs[id] = j]
<1>1. /\ Fields(t, {"jobs"}) /\ Fields(t.jobs, Recovery!Jobs)
      /\ t.jobs[id] = j /\ \A x \in Recovery!Jobs \ {id} : t.jobs[x] = s.jobs[x]
  BY DEF JobsRow, Fields
<1>. HIDE DEF t
<1>2. \A x \in Recovery!Jobs : s.jobs[x].ver \in Int /\ Fields(s.jobs[x], {"st", "ver", "rcpt"})
  BY DEF JobsRow
<1>3. \A x \in Recovery!Jobs : t.jobs[x].ver \in Int /\ Fields(t.jobs[x], {"st", "ver", "rcpt"})
  BY <1>1, <1>2
<1>4. \A x \in Recovery!Jobs : t.jobs[x].ver >= s.jobs[x].ver
                              /\ (t.jobs[x].ver = s.jobs[x].ver => t.jobs[x].rcpt = s.jobs[x].rcpt)
  <2>. SUFFICES ASSUME NEW x \in Recovery!Jobs
                PROVE  t.jobs[x].ver >= s.jobs[x].ver
                       /\ (t.jobs[x].ver = s.jobs[x].ver => t.jobs[x].rcpt = s.jobs[x].rcpt)
    OBVIOUS
  <2>1. CASE x = id
    BY <1>1, <1>2, <2>1
  <2>2. CASE x # id
    BY <1>1, <1>2, <2>2
  <2>. QED BY <2>1, <2>2
<1>5. JobsRow(t) /\ JobsLater(s, t)
  BY <1>1, <1>3, <1>4 DEF JobsRow, JobsLater
<1>. QED BY <1>5 DEF t

\* An inspection shows its job; a reconciliation writes the job it names.
LEMMA JobRequest ==
  ASSUME NEW s, JobsRow(s), NEW m, OutboundCommand(s, m), NEW o \in Recovery!Handle(s, m)
  PROVE  /\ JobsRow(o.srv) /\ JobsLater(s, o.srv)
         /\ (m.kind = "job" /\ o.a.ok) => SeenJob(o.srv, o.a.data.id, o.a.data.ver, o.a.data.rcpt)
         /\ o.srv # s => /\ m.kind = "reconcile" /\ s.jobs[m.id].ver = m.ver
<1>0. JobsLater(s, s)
  BY DEF JobsRow, JobsLater
<1>1. CASE m.kind = "job"
  <2>. DEFINE d == Recovery!Over([id |-> m.id], s.jobs[m.id])
  <2>1. o = Recovery!Out(s, Recovery!Yes(d)) /\ m.id \in Recovery!Jobs
    BY <1>1 DEF Recovery!Handle, Recovery!InspectOutbound, OutboundCommand
  <2>2. DOMAIN s.jobs[m.id] = {"st", "ver", "rcpt"} /\ s.jobs[m.id].ver \in Int
    BY <2>1 DEF JobsRow, Fields
  <2>3. d.id = m.id /\ d.ver = s.jobs[m.id].ver /\ d.rcpt = s.jobs[m.id].rcpt
    BY <2>2 DEF Recovery!Over
  <2>. HIDE DEF d
  <2>4. o.srv = s /\ o.a.data = d
    BY <2>1 DEF Recovery!Out, Recovery!Yes
  <2>. QED BY <1>0, <1>1, <2>1, <2>2, <2>3, <2>4 DEF SeenJob
<1>2. CASE m.kind = "reconcile"
  <2>. DEFINE j == s.jobs[m.id]
              rcpt == Recovery!Over(m.results, j.rcpt)
              k == [st |-> Recovery!AfterReconciliation(j.st, rcpt), ver |-> j.ver + 1, rcpt |-> rcpt]
  <2>1. m.id \in Recovery!Jobs
    BY <1>2 DEF OutboundCommand, SeenJob
  <2>2. /\ o.srv = s \/ o.srv = [s EXCEPT !.jobs[m.id] = k]
        /\ o.srv # s => j.ver = m.ver
    BY <1>2 DEF Recovery!Handle, Recovery!ReconcileOutbound, Recovery!Out
  <2>3. Fields(k, {"st", "ver", "rcpt"}) /\ k.ver = s.jobs[m.id].ver + 1
    BY DEF Fields
  <2>. HIDE DEF k
  <2>4. JobsRow([s EXCEPT !.jobs[m.id] = k]) /\ JobsLater(s, [s EXCEPT !.jobs[m.id] = k])
    BY <2>1, <2>3, JobWritten
  <2>. QED BY <1>0, <1>2, <2>2, <2>4
<1>. QED BY <1>1, <1>2 DEF OutboundCommand

\* A request that sets out has no answer yet.
LEMMA SentOutbound ==
  ASSUME NEW s, NEW m, OutboundCommand(s, m), Recovery!Send(m)
  PROVE  OutboundNet(s, net') /\ net'.cmd = m
<1>1. net' = [cmd |-> m, answer |-> None]
  BY DEF Recovery!Send
<1>2. net'.cmd = m /\ net'.answer = None /\ Packet(net')
  BY <1>1 DEF Packet
<1>. QED BY <1>2 DEF OutboundNet

\* The actions of the outbound half.
LEMMA OutboundStart ==
  /\ \A x : LET r == Recovery!Start("job", [id |-> x]) IN
       Fields(r, {"id", "op", "mine", "steady"}) /\ r.op = "job" /\ r.id = x
  /\ LET r == Recovery!Start("reconcile", <<>>) IN
       Fields(r, {"op", "mine", "steady"}) /\ r.op = "reconcile"
<1>1. ASSUME NEW x
      PROVE  LET r == Recovery!Start("job", [id |-> x]) IN
             Fields(r, {"id", "op", "mine", "steady"}) /\ r.op = "job" /\ r.id = x
  <2>1. Recovery!Start("job", [id |-> x]) \in [id : {x}, op : {"job"}, mine : BOOLEAN, steady : BOOLEAN]
    BY DEF Recovery!Start, Recovery!Over
  <2>. QED BY <2>1 DEF Fields
<1>2. DOMAIN <<>> = {}
  OBVIOUS
<1>3. Recovery!Start("reconcile", <<>>) = [op |-> "reconcile", mine |-> TRUE, steady |-> TRUE]
  BY <1>2 DEF Recovery!Start, Recovery!Over
<1>. QED BY <1>1, <1>3 DEF Fields

\* Steps of the page on the jobs it inspected.
LEMMA OutboundPage ==
  ASSUME InspectionsOK, form = "outbound", form' = form, srv' = srv, stray' = stray,
         OutboundForm(srv, ui'), OutboundNet(srv, net'), OutboundRun(run', net', ui')
  PROVE  InspectionsOK'
BY DEF InspectionsOK

\* Whoever changes a job, its inspections stay true, and the one on the screen
\* is of the job in the field.
LEMMA OutboundStep ==
  ASSUME InspectionsOK, Recovery!Next, form = "outbound"
  PROVE  InspectionsOK'
<1>0. /\ JobsRow(srv) /\ OutboundForm(srv, ui) /\ OutboundNet(srv, net) /\ OutboundRun(run, net, ui)
      /\ \A m \in stray : m.kind = "reconcile" /\ OutboundCommand(srv, m)
  BY DEF InspectionsOK
<1>1. CASE Recovery!editJob
  <2>1. PICK id \in Recovery!Jobs :
          /\ form' = form /\ srv' = srv /\ stray' = stray /\ net' = net
          /\ ui' = [ui EXCEPT !.jobId = id, !.job = None, !.outcomes = <<>>, !.review = FALSE]
          /\ run' = IF run = None THEN None ELSE [run EXCEPT !.mine = FALSE]
    BY <1>1 DEF Recovery!editJob, Recovery!Type, Recovery!Edited, Recovery!Here
  <2>2. OutboundForm(srv, ui')
    BY <1>0, <2>1 DEF OutboundForm, Fields
  <2>3. OutboundRun(run', net', ui')
    BY <1>0, <2>1 DEF OutboundRun, Fields
  <2>. QED BY <1>0, <2>1, <2>2, <2>3, OutboundPage
<1>2. CASE Recovery!inspectJob
  <2>1. /\ form' = form /\ srv' = srv /\ stray' = stray /\ ui.jobId # ""
        /\ ui' = [ui EXCEPT !.job = None, !.outcomes = <<>>]
        /\ run' = Recovery!Start("job", [id |-> ui.jobId])
        /\ Recovery!Send([kind |-> "job", id |-> ui.jobId])
    BY <1>2 DEF Recovery!inspectJob, Recovery!Read, Recovery!Here
  <2>2. OutboundForm(srv, ui') /\ ui'.jobId = ui.jobId
    BY <1>0, <2>1 DEF OutboundForm, Fields
  <2>3. OutboundNet(srv, net') /\ net'.cmd.kind = "job"
    <3>1. ui.jobId \in Recovery!Jobs
      BY <1>0, <2>1 DEF OutboundForm
    <3>2. PICK m : m = [kind |-> "job", id |-> ui.jobId]
      OBVIOUS
    <3>3. OutboundCommand(srv, m) /\ m.kind = "job" /\ Recovery!Send(m)
      BY <2>1, <3>1, <3>2 DEF OutboundCommand
    <3>. QED BY <3>3, SentOutbound
  <2>4. OutboundRun(run', net', ui')
    BY <2>1, <2>2, <2>3, OutboundStart DEF OutboundRun
  <2>. QED BY <2>1, <2>2, <2>3, <2>4, OutboundPage
<1>3. CASE Recovery!JobInspected
  <2>1. /\ form' = form /\ srv' = srv /\ stray' = stray /\ net' = None /\ run' = None
        /\ run # None /\ run.op = "job" /\ net # None /\ net.answer # None
        /\ \/ ui' = ui
           \/ /\ net.answer.ok /\ run.mine /\ net.answer.data.id = run.id
              /\ ui' = [ui EXCEPT !.job = net.answer.data, !.review = FALSE]
    BY <1>3
    DEF Recovery!JobInspected, Recovery!Doing, Recovery!Answered, Recovery!End, Recovery!Hang,
        Recovery!Stop, Recovery!Here, Recovery!Got, Recovery!sameVersion
  <2>2. net.answer.ok => SeenJob(srv, net.answer.data.id, net.answer.data.ver, net.answer.data.rcpt)
    BY <1>0, <2>1 DEF OutboundRun, OutboundNet
  <2>3. run.mine => run.id = ui.jobId
    BY <1>0, <2>1 DEF OutboundRun
  <2>4. OutboundForm(srv, ui')
    BY <1>0, <2>1, <2>2, <2>3 DEF OutboundForm, Fields
  <2>. QED BY <2>1, <2>4, OutboundPage DEF OutboundNet, OutboundRun
<1>4. CASE Recovery!setOutcome
  <2>1. /\ form' = form /\ srv' = srv /\ stray' = stray /\ net' = net /\ run' = run
        /\ \E x : ui' = [ui EXCEPT !.outcomes = x]
    BY <1>4 DEF Recovery!setOutcome, Recovery!Look, Recovery!Here
  <2>2. OutboundForm(srv, ui') /\ ui'.jobId = ui.jobId
    BY <1>0, <2>1 DEF OutboundForm, Fields
  <2>3. OutboundRun(run', net', ui')
    BY <1>0, <2>1, <2>2 DEF OutboundRun
  <2>. QED BY <1>0, <2>1, <2>2, <2>3, OutboundPage
<1>5. CASE Recovery!reconcile
  <2>. DEFINE m == [kind |-> "reconcile", id |-> ui.job.id, ver |-> ui.job.ver,
                    results |-> Recovery!results(ui), seen |-> ui.job.rcpt, shown |-> ui.jobId]
  <2>1. /\ form' = form /\ srv' = srv /\ stray' = stray /\ ui' = ui /\ ui.job # None
        /\ run' = Recovery!Start("reconcile", <<>>) /\ Recovery!Send(m)
    BY <1>5 DEF Recovery!reconcile, Recovery!Write, Recovery!Here
  <2>2. OutboundCommand(srv, m)
    BY <1>0, <2>1 DEF OutboundCommand, OutboundForm
  <2>3. OutboundNet(srv, net')
    BY <2>1, <2>2, SentOutbound
  <2>4. OutboundRun(run', net', ui')
    BY <2>1, OutboundStart DEF OutboundRun
  <2>. QED BY <1>0, <2>1, <2>3, <2>4, OutboundPage
<1>6. CASE Recovery!ReconcileDone
  <2>1. /\ form' = form /\ srv' = srv /\ stray' = stray /\ net' = None /\ run' = None
        /\ ui' \in {ui, [ui EXCEPT !.job = None],
                    [ui EXCEPT !.job = None, !.outcomes = <<>>, !.review = TRUE]}
    BY <1>6 DEF Recovery!ReconcileDone, Recovery!End, Recovery!Hang, Recovery!Stop, Recovery!Here
  <2>2. OutboundForm(srv, ui')
    BY <1>0, <2>1 DEF OutboundForm, Fields
  <2>. QED BY <2>1, <2>2, OutboundPage DEF OutboundNet, OutboundRun
<1>7. CASE \/ Recovery!Inspected \/ Recovery!Retried \/ Recovery!QueueRead
  BY <1>0, <1>7
  DEF Recovery!Inspected, Recovery!Retried, Recovery!QueueRead, Recovery!Doing, OutboundRun
<1>8. CASE Recovery!Remount
  <2>1. /\ form' = form /\ srv' = srv /\ net' = None /\ run' = None
        /\ stray' = stray \cup Recovery!Dropped(Recovery!Writes)
        /\ ui' = [jobId |-> "", job |-> None, outcomes |-> <<>>, review |-> FALSE]
    BY <1>8 DEF Recovery!Remount, Recovery!Reenter, Recovery!Abandon, Recovery!Blank
  <2>2. \A m \in Recovery!Dropped(Recovery!Writes) : m.kind = "reconcile" /\ OutboundCommand(srv, m)
    BY <1>0
    DEF Recovery!Dropped, Recovery!Writes, Recovery!Unanswered, OutboundCommand, OutboundNet
  <2>3. OutboundForm(srv, ui')
    BY <2>1 DEF OutboundForm, Fields
  <2>. QED BY <1>0, <2>1, <2>2, <2>3 DEF InspectionsOK, OutboundNet, OutboundRun
<1>9. ASSUME form' = form, ui' = ui, run' = run, JobsRow(srv'), JobsLater(srv, srv'),
             OutboundNet(srv', net'), net' # None => net # None /\ net'.cmd = net.cmd,
             \A m \in stray' : m.kind = "reconcile" /\ OutboundCommand(srv, m)
      PROVE  InspectionsOK'
  <2>1. OutboundForm(srv', ui') /\ \A m \in stray' : m.kind = "reconcile" /\ OutboundCommand(srv', m)
    BY <1>0, <1>9, SeenJobLater
  <2>2. OutboundRun(run', net', ui')
    BY <1>0, <1>9 DEF OutboundRun
  <2>. QED BY <1>9, <2>1, <2>2 DEF InspectionsOK
<1>10. CASE Recovery!Rival
  <2>1. PICK id \in Recovery!Jobs, st \in {"failed", "processing"} :
          Recovery!Others([srv EXCEPT !.jobs[id].st = st, !.jobs[id].ver = @ + 1,
                             !.jobs[id].rcpt["u"] = IF st = "failed" THEN "accepted" ELSE @])
    BY <1>10 DEF Recovery!Rival
  <2>. DEFINE x == IF st = "failed" THEN "accepted" ELSE srv.jobs[id].rcpt["u"]
              j == [st |-> st, ver |-> srv.jobs[id].ver + 1,
                    rcpt |-> [srv.jobs[id].rcpt EXCEPT !["u"] = x]]
              a == [srv EXCEPT !.jobs[id].st = st]
              b == [a EXCEPT !.jobs[id].ver = @ + 1]
              c == [b EXCEPT !.jobs[id].rcpt["u"] = IF st = "failed" THEN "accepted" ELSE @]
  <2>2. /\ form' = form /\ ui' = ui /\ run' = run /\ net' = net /\ stray' = stray
        /\ srv' = [srv EXCEPT !.jobs[id] = j]
    <3>1. /\ form' = form /\ ui' = ui /\ run' = run /\ net' = net /\ stray' = stray
          /\ srv' = c
      BY <2>1 DEF Recovery!Others
    <3>2. /\ Fields(srv, {"jobs"}) /\ Fields(srv.jobs, Recovery!Jobs)
          /\ Fields(srv.jobs[id], {"st", "ver", "rcpt"})
      BY <1>0 DEF JobsRow
    <3>3. /\ Fields(a, {"jobs"}) /\ a.jobs = [srv.jobs EXCEPT ![id] = [@ EXCEPT !.st = st]]
      BY <3>2 DEF Fields
    <3>. HIDE DEF a
    <3>4. /\ Fields(b, {"jobs"})
          /\ b.jobs = [a.jobs EXCEPT ![id] = [a.jobs[id] EXCEPT !.ver = a.jobs[id].ver + 1]]
      BY <3>3 DEF Fields
    <3>. HIDE DEF b
    <3>5. /\ Fields(c, {"jobs"})
          /\ c.jobs = [b.jobs EXCEPT ![id] = [b.jobs[id] EXCEPT !.rcpt =
               [b.jobs[id].rcpt EXCEPT !["u"] = IF st = "failed" THEN "accepted" ELSE b.jobs[id].rcpt["u"]]]]
      BY <3>4 DEF Fields
    <3>. HIDE DEF c
    <3>6. /\ Fields(a.jobs, Recovery!Jobs) /\ a.jobs[id].ver = srv.jobs[id].ver
          /\ a.jobs[id].rcpt = srv.jobs[id].rcpt /\ a.jobs[id].st = st
          /\ Fields(a.jobs[id], {"st", "ver", "rcpt"})
          /\ \A y \in Recovery!Jobs \ {id} : a.jobs[y] = srv.jobs[y]
      BY <3>2, <3>3 DEF Fields
    <3>7. /\ Fields(b.jobs, Recovery!Jobs) /\ b.jobs[id].ver = srv.jobs[id].ver + 1
          /\ b.jobs[id].rcpt = srv.jobs[id].rcpt /\ b.jobs[id].st = st
          /\ Fields(b.jobs[id], {"st", "ver", "rcpt"})
          /\ \A y \in Recovery!Jobs \ {id} : b.jobs[y] = srv.jobs[y]
      BY <3>4, <3>6 DEF Fields
    <3>8. /\ Fields(c.jobs, Recovery!Jobs) /\ c.jobs[id].ver = srv.jobs[id].ver + 1
          /\ c.jobs[id].rcpt = [srv.jobs[id].rcpt EXCEPT !["u"] = x] /\ c.jobs[id].st = st
          /\ Fields(c.jobs[id], {"st", "ver", "rcpt"})
          /\ \A y \in Recovery!Jobs \ {id} : c.jobs[y] = srv.jobs[y]
      BY <3>5, <3>7 DEF Fields
    <3>9. c.jobs[id] = j
      BY <3>8 DEF Fields
    <3>10. c.jobs = [srv.jobs EXCEPT ![id] = j]
      BY <3>2, <3>8, <3>9 DEF Fields
    <3>. QED BY <3>1, <3>2, <3>5, <3>10 DEF Fields
  <2>3. Fields(j, {"st", "ver", "rcpt"}) /\ j.ver = srv.jobs[id].ver + 1
    BY <1>0 DEF JobsRow, Fields
  <2>. HIDE DEF j
  <2>4. JobsRow(srv') /\ JobsLater(srv, srv')
    BY <1>0, <2>2, <2>3, JobWritten
  <2>. QED BY <1>0, <1>9, <2>2, <2>4, SeenJobLater
<1>11. ASSUME net # None, NEW s, NEW a, net' = [net EXCEPT !.answer = a],
              s = srv \/ (\E o \in Recovery!Handle(srv, net.cmd) : s = o.srv),
              (a # None /\ a.ok) => \E o \in Recovery!Handle(srv, net.cmd) : s = o.srv /\ a = o.a
       PROVE  JobsRow(s) /\ JobsLater(srv, s) /\ OutboundNet(s, net') /\ net'.cmd = net.cmd
  <2>1. OutboundCommand(srv, net.cmd) /\ Packet(net)
    BY <1>0, <1>11 DEF OutboundNet
  <2>2. JobsLater(srv, srv)
    BY <1>0 DEF JobsRow, JobsLater
  <2>3. JobsRow(s) /\ JobsLater(srv, s)
    BY <1>0, <1>11, <2>1, <2>2, JobRequest
  <2>4. Packet(net') /\ net'.cmd = net.cmd /\ net'.answer = a
    BY <1>11, <2>1 DEF Packet
  <2>5. OutboundCommand(s, net.cmd)
    BY <1>0, <2>1, <2>3, SeenJobLater
  <2>6. (a # None /\ net.cmd.kind = "job" /\ a.ok) => SeenJob(s, a.data.id, a.data.ver, a.data.rcpt)
    BY <1>0, <1>11, <2>1, JobRequest
  <2>. QED BY <2>3, <2>4, <2>5, <2>6 DEF OutboundNet
<1>12. CASE Recovery!Serve
  <2>1. PICK o \in Recovery!Handle(srv, net.cmd) :
          /\ net # None /\ form' = form /\ stray' = stray /\ ui' = ui /\ run' = run
          /\ srv' = o.srv /\ net' = [net EXCEPT !.answer = o.a]
    BY <1>12 DEF Recovery!Serve, Recovery!ServeBy, Recovery!Unanswered, Recovery!Reply
  <2>2. JobsRow(srv') /\ JobsLater(srv, srv') /\ OutboundNet(srv', net') /\ net'.cmd = net.cmd
    BY <1>11, <2>1
  <2>. QED BY <1>0, <1>9, <2>1, <2>2
<1>13. CASE Recovery!Lose
  <2>1. /\ net # None /\ form' = form /\ ui' = ui /\ run' = run
        /\ srv' = srv \/ \E o \in Recovery!Handle(srv, net.cmd) : srv' = o.srv
        /\ \E a \in {Recovery!No, Recovery!Garbled} : net' = [net EXCEPT !.answer = a]
        /\ \/ stray' = stray
           \/ net.cmd.kind \in Recovery!Writes /\ stray' = stray \cup {net.cmd}
    BY <1>13 DEF Recovery!Lose, Recovery!LoseBy, Recovery!Unanswered, Recovery!Reply
  <2>2. PICK a : ~a.ok /\ net' = [net EXCEPT !.answer = a]
    BY <2>1 DEF Recovery!No, Recovery!Garbled
  <2>3. JobsRow(srv') /\ JobsLater(srv, srv') /\ OutboundNet(srv', net') /\ net'.cmd = net.cmd
    BY <1>11, <2>1, <2>2
  <2>4. \A m \in stray' : m.kind = "reconcile" /\ OutboundCommand(srv, m)
    BY <1>0, <2>1 DEF Recovery!Writes, OutboundCommand, OutboundNet
  <2>. QED BY <1>9, <2>1, <2>3, <2>4
<1>14. CASE Recovery!ServeStray
  <2>1. PICK m \in stray : Recovery!StrayBy(m, Recovery!Handle(srv, m))
    BY <1>14 DEF Recovery!ServeStray
  <2>2. /\ form' = form /\ net' = net /\ stray' = stray \ {m} /\ ui' = ui /\ run' = run
        /\ \E o \in Recovery!Handle(srv, m) : srv' = o.srv
    BY <2>1 DEF Recovery!StrayBy
  <2>3. JobsRow(srv') /\ JobsLater(srv, srv')
    BY <1>0, <2>1, <2>2, JobRequest
  <2>4. OutboundNet(srv', net')
    BY <1>0, <2>2, <2>3, SeenJobLater
  <2>. QED BY <1>0, <1>9, <2>2, <2>3, <2>4
<1>. QED
  BY <1>1, <1>2, <1>3, <1>4, <1>5, <1>6, <1>7, <1>8, <1>10, <1>12, <1>13, <1>14
  DEF Recovery!Next, Recovery!Revalidate, Recovery!Ingest

-----------------------------------------------------------------------------
(* What a confirmed command meets.                                         *)

\* A write that has an effect meets what was inspected.
LEMMA ServedAsSeen ==
  ASSUME RecoveryOK, InspectionsOK, form \in Recovery!Forms,
         NEW m \in Recovery!InFlight, NEW o \in Recovery!Handle(srv, m), o.srv # srv
  PROVE  /\ m.kind = "retry" => \A b \in m.targets : srv.targets[b] = m.seen[b]
         /\ m.kind = "reconcile" => srv.jobs[m.id].rcpt = m.seen /\ m.shown = m.id
<1>1. CASE form = "inbound"
  <2>1. m.kind = "retry" /\ InboundCommand(srv, m)
    BY <1>1
    DEF Recovery!InFlight, Recovery!Dropped, Recovery!Unanswered, Recovery!Writes,
        InspectionsOK, RecoveryOK, InboundNet, InboundKinds
  <2>2. o = Recovery!RetryRecoveryReceipt(srv, m) /\ Recovery!unchanged(srv, m)
    BY <2>1
    DEF Recovery!Handle, Recovery!RetryRecoveryReceipt, Recovery!Out
  <2>3. srv.targets = m.seen
    BY <2>1, <2>2 DEF Recovery!unchanged, InboundCommand, SeenTargets
  <2>. QED BY <2>1, <2>3
<1>2. CASE form = "outbound"
  <2>1. m.kind = "reconcile" /\ OutboundCommand(srv, m) /\ JobsRow(srv)
    BY <1>2
    DEF Recovery!InFlight, Recovery!Dropped, Recovery!Unanswered, Recovery!Writes,
        InspectionsOK, OutboundNet, OutboundCommand
  <2>2. srv.jobs[m.id].ver = m.ver
    BY <2>1, JobRequest
  <2>. QED BY <2>1, <2>2 DEF OutboundCommand, SeenJob
<1>. QED BY <1>1, <1>2 DEF Recovery!Forms

\* A retry and a reconciliation do what their inspection showed.
LEMMA RecoveryConfirmed ==
  ASSUME RecoveryOK, InspectionsOK, form \in Recovery!Forms, rivals \in Nat, Recovery!Next
  PROVE  Recovery!AsConfirmed
<1>. SUFFICES ASSUME NEW m \in Recovery!InFlight, m \notin Recovery!InFlight', rivals' = rivals,
                     srv' # srv
              PROVE  /\ m.kind = "retry" => \A b \in m.targets : srv.targets[b] = m.seen[b]
                     /\ m.kind = "reconcile" => srv.jobs[m.id].rcpt = m.seen /\ m.shown = m.id
  BY DEF Recovery!AsConfirmed
<1>1. ASSUME srv' = srv PROVE FALSE
  BY <1>1
<1>2. CASE Recovery!Rival
  BY <1>2 DEF Recovery!Rival, Recovery!Others
<1>3. CASE Recovery!Ingest
  <2>1. stray' = stray /\ net' = net
    BY <1>3 DEF Recovery!Ingest
  <2>. QED
    BY <2>1 DEF Recovery!InFlight, Recovery!Dropped, Recovery!Unanswered
<1>4. CASE Recovery!Serve
  <2>1. /\ stray' = stray
        /\ \E o \in Recovery!Handle(srv, net.cmd) : srv' = o.srv
    BY <1>4 DEF Recovery!Serve, Recovery!ServeBy
  <2>2. m = net.cmd
    BY <2>1 DEF Recovery!InFlight, Recovery!Dropped
  <2>. QED BY <2>1, <2>2, ServedAsSeen
<1>5. CASE Recovery!Lose
  <2>1. /\ stray \subseteq stray'
        /\ \E o \in Recovery!Handle(srv, net.cmd) : srv' = o.srv
    BY <1>5 DEF Recovery!Lose, Recovery!LoseBy
  <2>2. m = net.cmd
    BY <2>1 DEF Recovery!InFlight, Recovery!Dropped
  <2>. QED BY <2>1, <2>2, ServedAsSeen
<1>6. CASE Recovery!ServeStray
  <2>1. PICK n \in stray : Recovery!StrayBy(n, Recovery!Handle(srv, n))
    BY <1>6 DEF Recovery!ServeStray
  <2>2. /\ stray' = stray \ {n} /\ net' = net
        /\ \E o \in Recovery!Handle(srv, n) : srv' = o.srv
    BY <2>1 DEF Recovery!StrayBy
  <2>3. m = n
    BY <2>2 DEF Recovery!InFlight, Recovery!Dropped, Recovery!Unanswered
  <2>. QED BY <2>2, <2>3, ServedAsSeen
<1>. QED
  BY <1>1, <1>2, <1>3, <1>4, <1>5, <1>6
  DEF Recovery!Next, Recovery!inspect, Recovery!checkTarget, Recovery!retryTargets,
      Recovery!editJob, Recovery!inspectJob, Recovery!setOutcome, Recovery!reconcile,
      Recovery!Inspected, Recovery!Retried, Recovery!QueueRead, Recovery!JobInspected,
      Recovery!ReconcileDone, Recovery!Revalidate, Recovery!Remount,
      Recovery!Read, Recovery!Write, Recovery!Look, Recovery!Type, Recovery!End, Recovery!Then,
      Recovery!Refresh, Recovery!Reenter, Recovery!Abandon, Recovery!Here

\* The page keeps count.
LEMMA RecoveryCounts ==
  ASSUME rivals \in Nat, Recovery!Next PROVE rivals' \in Nat
<1>1. rivals' = rivals \/ rivals' = rivals + 1
  BY DEF Recovery!Next, Recovery!inspect, Recovery!checkTarget, Recovery!retryTargets,
     Recovery!editJob, Recovery!inspectJob, Recovery!setOutcome, Recovery!reconcile,
     Recovery!Inspected, Recovery!Retried, Recovery!QueueRead, Recovery!JobInspected,
     Recovery!ReconcileDone, Recovery!Revalidate, Recovery!Remount, Recovery!Rival,
     Recovery!Ingest, Recovery!Serve, Recovery!Lose, Recovery!ServeStray,
     Recovery!Read, Recovery!Write, Recovery!Look, Recovery!Type, Recovery!End, Recovery!Then,
     Recovery!Refresh, Recovery!Reenter, Recovery!Abandon, Recovery!Others, Recovery!ServeBy,
     Recovery!LoseBy, Recovery!StrayBy, Recovery!Here
<1>. QED BY <1>1

\* Nothing has been inspected yet.
LEMMA InspectionsStart == ASSUME Recovery!Init PROVE InspectionsOK
<1>1. CASE form = "inbound"
  <2>1. /\ ui = [queue |-> srv.st # "done", inspection |-> None, targets |-> {}, review |-> FALSE]
        /\ run = None /\ net = None /\ stray = {}
    BY <1>1 DEF Recovery!Init, Recovery!Quiet, Recovery!Blank
  <2>2. InboundForm(srv, ui)
    BY <2>1 DEF InboundForm, Fields
  <2>. QED BY <1>1, <2>1, <2>2 DEF InspectionsOK, InboundNet, InboundRun
<1>2. CASE form = "outbound"
  <2>1. /\ ui = [jobId |-> "", job |-> None, outcomes |-> <<>>, review |-> FALSE]
        /\ run = None /\ net = None /\ stray = {}
        /\ srv = [jobs |-> [id \in Recovery!Jobs |-> [st |-> "dead", ver |-> 1,
             rcpt |-> [a \in Recovery!Addresses |-> IF id = "j2" /\ a = "w" THEN "accepted" ELSE "uncertain"]]]]
    BY <1>2 DEF Recovery!Init, Recovery!Quiet, Recovery!Blank
  <2>2. OutboundForm(srv, ui)
    BY <2>1 DEF OutboundForm, Fields
  <2>3. JobsRow(srv)
    <3>1. Fields(srv, {"jobs"}) /\ Fields(srv.jobs, Recovery!Jobs)
      BY <2>1 DEF Fields
    <3>2. \A id \in Recovery!Jobs : \E x : srv.jobs[id] = [st |-> "dead", ver |-> 1, rcpt |-> x]
      BY <2>1
    <3>3. ASSUME NEW id \in Recovery!Jobs
          PROVE  Fields(srv.jobs[id], {"st", "ver", "rcpt"}) /\ srv.jobs[id].ver \in Int
      <4>1. PICK x : srv.jobs[id] = [st |-> "dead", ver |-> 1, rcpt |-> x]
        BY <3>2
      <4>. QED BY <4>1 DEF Fields
    <3>. QED BY <3>1, <3>3 DEF JobsRow
  <2>. QED BY <1>2, <2>1, <2>2, <2>3 DEF InspectionsOK, OutboundNet, OutboundRun
<1>. QED BY <1>1, <1>2 DEF InspectionsOK

\* What the page shows of a job is of the job in the field.
LEMMA InspectionsMean == ASSUME InspectionsOK PROVE Recovery!OwnInspection
BY DEF InspectionsOK, Recovery!OwnInspection, OutboundForm

-----------------------------------------------------------------------------
(* The onboarding page: invitations and their links.                       *)

Invitations(s) ==
  /\ Fields(s, {"inv", "next", "account"}) /\ s.next \in Nat
  /\ \A i \in s.inv : Fields(i, {"id", "who", "st"}) /\ i.id \in Nat /\ i.id < s.next
  /\ \A i, j \in s.inv : i.id = j.id => i = j

\* A link leads to an invitation that was not revoked here.
Alive(s, k) ==
  /\ k.id \in Nat /\ k.id < s.next
  /\ \A i \in s.inv : i.id = k.id => i.who = k.who /\ i.st # "revoked"

\* The action that revokes an invitation.
Revoking(id) == [id : {id}, op : {"revoke"}, mine : BOOLEAN, steady : BOOLEAN]

InviteForm(u) == Fields(u, {"who", "link", "list", "bad"})
InviteNet(r, n) ==
  n # None => /\ Packet(n) /\ n.cmd.kind \in {"invite", "revoke", "invitations"}
              /\ n.cmd.kind = "revoke" => r \in Revoking(n.cmd.id)
InviteRun(r, n) ==
  r # None =>
    \/ /\ r.op = "revoke" /\ r \in Revoking(r.id)
       /\ n # None => n.cmd.kind = "revoke" /\ n.cmd.id = r.id
    \/ /\ Fields(r, {"op", "mine", "steady"}) /\ r.op = "invite"
       /\ n # None => n.cmd.kind = "invite"
    \/ /\ Fields(r, {"op", "mine", "steady"}) /\ r.op \in {"list", "relist"}
       /\ n # None => n.cmd.kind = "invitations"
    \/ /\ Fields(r, {"id", "op", "mine", "steady"}) /\ r.op = "list"
       /\ n # None => n.cmd.kind = "invitations"

\* While a revocation is being confirmed its link is still on the page.
GoodAnswer(n) == n # None /\ n.answer # None /\ n.answer.ok
RevokedHere(r, n, id) == r \in Revoking(id) /\ n.answer = Onboard!Yes(None)
LinkKept(s, u, r, n) ==
  /\ u.link # None => u.link.id \in Nat /\ (Alive(s, u.link) \/ RevokedHere(r, n, u.link.id))
  /\ (r # None /\ r.op = "invite" /\ GoodAnswer(n)) => Alive(s, n.answer.data)

InviteOK ==
  /\ Invitations(srv) /\ InviteForm(ui) /\ InviteNet(run, net) /\ InviteRun(run, net)
  /\ \A m \in stray : m.kind \in {"invite", "revoke"}
  /\ lost = 0 => stray = {} /\ LinkKept(srv, ui, run, net)

-----------------------------------------------------------------------------
(* The activation page.                                                    *)

Accounts(s) == Fields(s, {"inv", "next", "account"}) /\ Fields(s.account, Onboard!Tokens)
ActivateForm(u) ==
  Fields(u, {"password", "confirm", "done", "sent", "shown", "hash", "owner", "events"})

\* A command for a token, and the account it has made when it was answered well.
Made(s, token, password) ==
  token \in Onboard!Tokens /\ password # None /\ s.account[token] = password
ActivateNet(s, n) ==
  n # None => /\ Packet(n) /\ n.cmd.kind = "activate"
              /\ n.cmd.token \in Onboard!Tokens /\ n.cmd.password \in Onboard!Passwords
              /\ GoodAnswer(n) => Made(s, n.cmd.token, n.cmd.password)
ActivateRun(r, n) ==
  r # None => /\ Fields(r, {"url", "password", "op", "mine", "steady"}) /\ r.op = "activate"
              /\ n # None => r.url = n.cmd.token /\ r.password = n.cmd.password
ActivateStray(str) ==
  \A m \in str : m.kind = "activate" /\ m.token \in Onboard!Tokens /\ m.password \in Onboard!Passwords
ActivateOK ==
  /\ Accounts(srv) /\ ActivateForm(ui) /\ ActivateNet(srv, net) /\ ActivateRun(run, net)
  /\ ActivateStray(stray) /\ (ui.password = "" \/ ui.password \in Onboard!Passwords)
  /\ ui.done => Made(srv, ui.shown.token, ui.sent)

OnboardOK ==
  /\ form = "invite" => InviteOK
  /\ form = "admin" => Fields(ui, {"open", "who", "result"})
                       /\ (run # None => Fields(run, {"op", "mine", "steady"}) /\ run.op = "inviteAdmin")
  /\ form = "activate" => ActivateOK

\* The page keeps count, and does not change its form.
LEMMA OnboardCounts ==
  ASSUME Counted, Onboard!Next PROVE Counted' /\ form' = form
<1>1. /\ form' = form /\ moves' \in {moves, moves + 1} /\ rivals' \in {rivals, rivals + 1}
      /\ lost' \in {lost, lost + 1}
  BY DEF Onboard!Next, Onboard!edit, Onboard!createInvitation, Onboard!revokeInvitation,
     Onboard!retryInvitations, Onboard!changeOpen, Onboard!typeAdmin, Onboard!handleInvite,
     Onboard!navigate, Onboard!readHash, Onboard!mountForm, Onboard!typePassword, Onboard!submit,
     Onboard!Invited, Onboard!ReadInvitations, Onboard!Revoked, Onboard!refreshInvitations,
     Onboard!AdminInvited, Onboard!Activated, Onboard!Revalidate, Onboard!Remount, Onboard!Rival,
     Onboard!Serve, Onboard!Lose, Onboard!ServeStray,
     Onboard!Read, Onboard!Write, Onboard!Look, Onboard!Type, Onboard!End, Onboard!Then,
     Onboard!Refresh, Onboard!Reenter, Onboard!Abandon, Onboard!Others, Onboard!ServeBy,
     Onboard!LoseBy, Onboard!StrayBy, Onboard!Here, Onboard!Move, Onboard!Call
<1>. QED BY <1>1 DEF Counted

\* A new invitation has an id of its own.
LEMMA Invited ==
  ASSUME NEW s, Invitations(s), NEW who
  PROVE  LET i == [id |-> s.next, who |-> who, st |-> "open"]
             t == [s EXCEPT !.inv = @ \cup {i}, !.next = @ + 1] IN
         /\ Invitations(t) /\ Alive(t, i) /\ \A k : Alive(s, k) => Alive(t, k)
<1>. DEFINE i == [id |-> s.next, who |-> who, st |-> "open"]
            t == [s EXCEPT !.inv = @ \cup {i}, !.next = @ + 1]
<1>1. /\ Fields(t, {"inv", "next", "account"}) /\ t.inv = s.inv \cup {i} /\ t.next = s.next + 1
      /\ s.next \in Nat
  BY DEF Invitations, Fields
<1>2. Fields(i, {"id", "who", "st"}) /\ i.id = s.next /\ i.who = who /\ i.st = "open"
  BY DEF Fields
<1>. HIDE DEF i, t
<1>3. /\ \A j \in s.inv : Fields(j, {"id", "who", "st"}) /\ j.id \in Nat /\ j.id < s.next
      /\ \A j, k \in s.inv : j.id = k.id => j = k
  BY DEF Invitations
<1>4. Invitations(t)
  <2>1. \A j \in t.inv : Fields(j, {"id", "who", "st"}) /\ j.id \in Nat /\ j.id < t.next
    BY <1>1, <1>2, <1>3
  <2>2. ASSUME NEW j \in t.inv, NEW k \in t.inv, j.id = k.id PROVE j = k
    BY <1>1, <1>2, <1>3, <2>2
  <2>. QED BY <1>1, <2>1, <2>2 DEF Invitations
<1>5. Alive(t, i)
  BY <1>1, <1>2, <1>3 DEF Alive
<1>6. ASSUME NEW k, Alive(s, k) PROVE Alive(t, k)
  BY <1>1, <1>2, <1>6 DEF Alive
<1>. QED BY <1>4, <1>5, <1>6 DEF i, t

\* Marking an invitation touches no other.
LEMMA Marked ==
  ASSUME NEW s, Invitations(s), NEW id, NEW st
  PROVE  LET t == Onboard!Mark(s, id, st) IN
         /\ Invitations(t)
         /\ \A k : Alive(s, k) /\ (k.id # id \/ st # "revoked") => Alive(t, k)
<1>. DEFINE f(i) == IF i.id = id THEN [i EXCEPT !.st = st] ELSE i
            t == [s EXCEPT !.inv = {f(i) : i \in @}]
<1>0. t = Onboard!Mark(s, id, st)
  BY DEF Onboard!Mark
<1>1. /\ Fields(t, {"inv", "next", "account"}) /\ t.inv = {f(i) : i \in s.inv}
      /\ t.next = s.next /\ s.next \in Nat
  BY DEF Invitations, Fields
<1>2. ASSUME NEW i \in s.inv
      PROVE  /\ Fields(f(i), {"id", "who", "st"}) /\ f(i).id = i.id /\ f(i).who = i.who
             /\ f(i).st = i.st \/ (i.id = id /\ f(i).st = st)
  BY DEF Invitations, Fields
<1>3. \A i \in s.inv : i.id \in Nat /\ i.id < s.next
  BY DEF Invitations
<1>4. \A i, j \in s.inv : i.id = j.id => i = j
  BY DEF Invitations
<1>. HIDE DEF f, t
<1>5. Invitations(t)
  <2>1. \A j \in t.inv : Fields(j, {"id", "who", "st"}) /\ j.id \in Nat /\ j.id < t.next
    BY <1>1, <1>2, <1>3
  <2>2. ASSUME NEW j \in t.inv, NEW k \in t.inv, j.id = k.id PROVE j = k
    <3>1. PICK a \in s.inv : j = f(a)
      BY <1>1
    <3>2. PICK b \in s.inv : k = f(b)
      BY <1>1
    <3>3. a.id = b.id
      BY <1>2, <2>2, <3>1, <3>2
    <3>. QED BY <1>4, <3>1, <3>2, <3>3
  <2>. QED BY <1>1, <2>1, <2>2 DEF Invitations
<1>6. ASSUME NEW k, Alive(s, k), k.id # id \/ st # "revoked" PROVE Alive(t, k)
  <2>1. \A i \in t.inv : i.id = k.id => i.who = k.who /\ i.st # "revoked"
    <3>. SUFFICES ASSUME NEW i \in t.inv, i.id = k.id PROVE i.who = k.who /\ i.st # "revoked"
      OBVIOUS
    <3>1. PICK a \in s.inv : i = f(a)
      BY <1>1
    <3>2. a.id = k.id /\ a.who = k.who /\ a.st # "revoked"
      BY <1>2, <1>6, <3>1 DEF Alive
    <3>. QED BY <1>2, <1>6, <3>1, <3>2
  <2>. QED BY <1>1, <1>6, <2>1 DEF Alive
<1>. QED BY <1>0, <1>5, <1>6

\* What a request of the page does to the invitations.
LEMMA InviteRequest ==
  ASSUME NEW s, Invitations(s), NEW m, m.kind \in {"invite", "revoke", "invitations"},
         NEW o \in Onboard!Handle(s, m)
  PROVE  /\ Invitations(o.srv)
         /\ \A k : Alive(s, k) => Alive(o.srv, k) \/ (m.kind = "revoke" /\ m.id = k.id /\ o.a = Onboard!Yes(None))
         /\ (m.kind = "invite" /\ o.a.ok) => Alive(o.srv, o.a.data)
<1>1. CASE m.kind = "invitations"
  BY <1>1 DEF Onboard!Handle, Onboard!Out
<1>2. CASE m.kind = "invite"
  <2>. DEFINE i == [id |-> s.next, who |-> m.who, st |-> "open"]
              t == [s EXCEPT !.inv = @ \cup {i}, !.next = @ + 1]
  <2>1. \/ o.srv = s /\ ~o.a.ok
        \/ o.srv = t /\ o.a.data = i
    BY <1>2
    DEF Onboard!Handle, Onboard!InviteEmployee, Onboard!Out, Onboard!Yes, Onboard!No, Onboard!Conflict
  <2>2. Invitations(t) /\ Alive(t, i) /\ \A k : Alive(s, k) => Alive(t, k)
    BY Invited
  <2>. HIDE DEF i, t
  <2>. QED BY <1>2, <2>1, <2>2
<1>3. CASE m.kind = "revoke"
  <2>. DEFINE t == Onboard!Mark(s, m.id, "revoked")
  <2>1. o.srv = s \/ (o.srv = t /\ o.a = Onboard!Yes(None))
    BY <1>3
    DEF Onboard!Handle, Onboard!RevokeEmployeeInvitation, Onboard!Out
  <2>2. Invitations(t) /\ \A k : Alive(s, k) /\ k.id # m.id => Alive(t, k)
    BY Marked
  <2>. HIDE DEF t
  <2>. QED BY <1>3, <2>1, <2>2
<1>. QED BY <1>1, <1>2, <1>3

\* A request without an answer was not answered well.
LEMMA OnboardNoAnswer ==
  ASSUME NoneApart PROVE None # Onboard!Yes(None) /\ \A id : None \notin Revoking(id)
<1>1. None # Onboard!Yes(None)
  BY SomeAnswer DEF Onboard!Yes, Yes
<1>2. ASSUME NEW id, NEW r \in Revoking(id) PROVE r # None
  <2>1. Fields(r, {"id", "op", "mine", "steady"})
    BY DEF Revoking, Fields
  <2>. QED BY <2>1, SomeRecord
<1>. QED BY <1>1, <1>2

\* The actions of the page.
LEMMA OnboardStart ==
  ASSUME NEW op \in {"invite", "revoke", "list", "relist", "inviteAdmin", "activate"}
  PROVE  /\ LET r == Onboard!Start(op, <<>>) IN Fields(r, {"op", "mine", "steady"}) /\ r.op = op
         /\ \A x : LET r == Onboard!Start(op, [id |-> x]) IN
              /\ Fields(r, {"id", "op", "mine", "steady"}) /\ r.op = op /\ r.id = x
              /\ op = "revoke" => r \in Revoking(x)
         /\ \A x, y : LET r == Onboard!Start(op, [url |-> x, password |-> y]) IN
              /\ Fields(r, {"url", "password", "op", "mine", "steady"}) /\ r.op = op
              /\ r.url = x /\ r.password = y
<1>1. LET r == Onboard!Start(op, <<>>) IN Fields(r, {"op", "mine", "steady"}) /\ r.op = op
  <2>1. DOMAIN <<>> = {}
    OBVIOUS
  <2>2. Onboard!Start(op, <<>>) = [op |-> op, mine |-> TRUE, steady |-> TRUE]
    BY <2>1 DEF Onboard!Start, Onboard!Over
  <2>. QED BY <2>2 DEF Fields
<1>2. ASSUME NEW x
      PROVE  LET r == Onboard!Start(op, [id |-> x]) IN
             /\ Fields(r, {"id", "op", "mine", "steady"}) /\ r.op = op /\ r.id = x
             /\ op = "revoke" => r \in Revoking(x)
  <2>1. Onboard!Start(op, [id |-> x]) \in [id : {x}, op : {op}, mine : BOOLEAN, steady : BOOLEAN]
    BY DEF Onboard!Start, Onboard!Over
  <2>. QED BY <2>1 DEF Fields, Revoking
<1>3. ASSUME NEW x, NEW y
      PROVE  LET r == Onboard!Start(op, [url |-> x, password |-> y]) IN
             /\ Fields(r, {"url", "password", "op", "mine", "steady"}) /\ r.op = op
             /\ r.url = x /\ r.password = y
  <2>1. Onboard!Start(op, [url |-> x, password |-> y])
          \in [url : {x}, password : {y}, op : {op}, mine : BOOLEAN, steady : BOOLEAN]
    BY DEF Onboard!Start, Onboard!Over
  <2>. QED BY <2>1 DEF Fields
<1>. QED BY <1>1, <1>2, <1>3

\* A request that sets out has no answer yet.
LEMMA OnboardSent ==
  ASSUME NEW m, Onboard!Send(m)
  PROVE  Packet(net') /\ net'.cmd = m /\ net'.answer = None /\ ~GoodAnswer(net')
<1>1. net' = [cmd |-> m, answer |-> None]
  BY DEF Onboard!Send
<1>. QED BY <1>1 DEF Packet, GoodAnswer

\* Whoever invites, revokes or uses an invitation, a link on the page leads to
\* one that was not revoked here.
LEMMA InviteStep ==
  ASSUME NoneApart, Counted, form = "invite", InviteOK, Onboard!Next
  PROVE  InviteOK'
<1>0. /\ Invitations(srv) /\ InviteForm(ui) /\ InviteNet(run, net) /\ InviteRun(run, net)
      /\ lost = 0 => stray = {} /\ LinkKept(srv, ui, run, net)
      /\ lost \in Nat /\ \A m \in stray : m.kind \in {"invite", "revoke"}
  BY DEF InviteOK, Counted
<1>1. CASE Onboard!edit
  <2>1. PICK w : ui' = [ui EXCEPT !.who = w]
    BY <1>1 DEF Onboard!edit, Onboard!Type
  <2>2. /\ srv' = srv /\ stray' = stray /\ lost' = lost /\ net' = net
        /\ run' = IF run = None THEN None ELSE [run EXCEPT !.mine = FALSE]
    BY <1>1 DEF Onboard!edit, Onboard!Type, Onboard!Edited, Onboard!Here
  <2>3. InviteForm(ui') /\ ui'.link = ui.link
    BY <1>0, <2>1 DEF InviteForm, Fields
  <2>4. InviteRun(run', net') /\ InviteNet(run', net')
    BY <1>0, <2>2 DEF InviteRun, InviteNet, Revoking, Fields
  <2>5. \A id : RevokedHere(run, net, id) => RevokedHere(run', net', id)
    BY <1>0, <2>2, <2>4 DEF InviteRun, Revoking, Fields, RevokedHere
  <2>6. (run' # None /\ run'.op = "invite") => (run # None /\ run.op = "invite")
    BY <1>0, <2>2 DEF InviteRun, Revoking, Fields
  <2>. QED BY <1>0, <2>2, <2>3, <2>4, <2>5, <2>6 DEF InviteOK, LinkKept
<1>2. CASE Onboard!createInvitation
  <2>1. /\ srv' = srv /\ stray' = stray /\ lost' = lost /\ ui' = ui /\ run = None
        /\ run' = Onboard!Start("invite", <<>>)
        /\ Onboard!Send([kind |-> "invite", who |-> ui.who])
    BY <1>2 DEF Onboard!createInvitation, Onboard!Write, Onboard!Here, Onboard!Idle
  <2>2. Packet(net') /\ net'.cmd.kind = "invite" /\ ~GoodAnswer(net')
    BY <2>1, OnboardSent
  <2>3. InviteRun(run', net') /\ InviteNet(run', net')
    BY <2>1, <2>2, OnboardStart DEF InviteRun, Revoking, InviteNet
  <2>. QED BY <1>0, <2>1, <2>2, <2>3, OnboardNoAnswer DEF InviteOK, LinkKept, Alive, RevokedHere, Revoking
<1>3. CASE Onboard!revokeInvitation
  <2>1. PICK i \in ui.list :
        /\ srv' = srv /\ stray' = stray /\ lost' = lost /\ ui' = ui /\ run = None
        /\ run' = Onboard!Start("revoke", [id |-> i.id])
        /\ Onboard!Send([kind |-> "revoke", id |-> i.id])
    BY <1>3 DEF Onboard!revokeInvitation, Onboard!Write, Onboard!Here, Onboard!Idle
  <2>2. Packet(net') /\ net'.cmd = [kind |-> "revoke", id |-> i.id] /\ ~GoodAnswer(net')
    BY <2>1, OnboardSent
  <2>3. InviteRun(run', net') /\ InviteNet(run', net')
    BY <2>1, <2>2, OnboardStart DEF InviteRun, Revoking, InviteNet
  <2>. QED BY <1>0, <2>1, <2>2, <2>3, OnboardNoAnswer DEF InviteOK, LinkKept, Alive, RevokedHere, Revoking
<1>4. CASE Onboard!retryInvitations
  <2>1. /\ srv' = srv /\ stray' = stray /\ lost' = lost /\ ui' = ui /\ run = None
        /\ run' = Onboard!Start("relist", <<>>)
        /\ Onboard!Send([kind |-> "invitations"])
    BY <1>4 DEF Onboard!retryInvitations, Onboard!Read, Onboard!Here, Onboard!Idle
  <2>2. Packet(net') /\ net'.cmd.kind = "invitations" /\ ~GoodAnswer(net')
    BY <2>1, OnboardSent
  <2>3. InviteRun(run', net') /\ InviteNet(run', net')
    BY <2>1, <2>2, OnboardStart DEF InviteRun, Revoking, InviteNet
  <2>. QED BY <1>0, <2>1, <2>2, <2>3, OnboardNoAnswer DEF InviteOK, LinkKept, Alive, RevokedHere, Revoking
<1>5. ASSUME NEW u, Onboard!End(u), InviteForm(u),
             lost = 0 /\ u.link # None => Alive(srv, u.link)
      PROVE  InviteOK'
  <2>1. /\ srv' = srv /\ stray' = stray /\ lost' = lost /\ ui' = u /\ run' = None /\ net' = None
    BY <1>5 DEF Onboard!End, Onboard!Here, Onboard!Stop, Onboard!Hang
  <2>. QED BY <1>0, <1>5, <2>1 DEF InviteOK, LinkKept, Alive, InviteNet, InviteRun
<1>6. ASSUME NEW u, Onboard!ReadInvitations(u), InviteForm(u), run # None,
             run.op \in {"invite", "revoke"},
             lost = 0 /\ u.link # None => Alive(srv, u.link)
      PROVE  InviteOK'
  <2>1. /\ srv' = srv /\ stray' = stray /\ lost' = lost /\ ui' = u
        /\ run' = [run EXCEPT !.op = "list"] /\ Onboard!Send([kind |-> "invitations"])
    BY <1>6 DEF Onboard!ReadInvitations, Onboard!Then, Onboard!Here, Onboard!Step
  <2>2. Packet(net') /\ net'.cmd.kind = "invitations" /\ ~GoodAnswer(net')
    BY <2>1, OnboardSent
  <2>3. InviteRun(run', net') /\ InviteNet(run', net') /\ run'.op = "list"
    BY <1>0, <1>6, <2>1, <2>2 DEF InviteRun, Revoking, InviteNet, Fields
  <2>. QED BY <1>0, <1>6, <2>1, <2>2, <2>3 DEF InviteOK, LinkKept, Alive
<1>7. CASE Onboard!Invited
  <2>1. /\ run # None /\ run.op = "invite" /\ net # None /\ net.answer # None
        /\ \/ Onboard!End(ui)
           \/ /\ net.answer.ok
              /\ \E v \in {ui, [ui EXCEPT !.who = ""]} :
                   Onboard!ReadInvitations([v EXCEPT !.link = net.answer.data])
    BY <1>7
    DEF Onboard!Invited, Onboard!Doing, Onboard!Answered, Onboard!Got, Onboard!formAfter
  <2>2. lost = 0 /\ ui.link # None => Alive(srv, ui.link)
    BY <1>0, <2>1 DEF LinkKept, RevokedHere, Revoking
  <2>3. CASE Onboard!End(ui)
    BY <1>0, <1>5, <2>2, <2>3
  <2>4. CASE net.answer.ok
    <3>1. lost = 0 => Alive(srv, net.answer.data)
      BY <1>0, <2>1, <2>4 DEF LinkKept, GoodAnswer
    <3>2. ASSUME NEW v \in {ui, [ui EXCEPT !.who = ""]},
                 Onboard!ReadInvitations([v EXCEPT !.link = net.answer.data])
          PROVE  InviteOK'
      <4>1. PICK u : u = [v EXCEPT !.link = net.answer.data]
        OBVIOUS
      <4>2. InviteForm(u) /\ u.link = net.answer.data
        BY <1>0, <4>1 DEF InviteForm, Fields
      <4>. QED BY <1>6, <2>1, <3>1, <3>2, <4>1, <4>2
    <3>. QED BY <2>1, <2>3, <3>2
  <2>. QED BY <2>1, <2>3, <2>4
<1>8. CASE Onboard!Revoked
  <2>1. /\ run # None /\ run.op = "revoke" /\ net # None /\ net.answer # None
        /\ \/ ~net.answer.ok /\ Onboard!End(ui)
           \/ net.answer.ok /\ Onboard!ReadInvitations(Onboard!withoutLink(ui, run.id))
    BY <1>8 DEF Onboard!Revoked, Onboard!Doing, Onboard!Answered, Onboard!Got
  <2>2. CASE ~net.answer.ok /\ Onboard!End(ui)
    <3>1. lost = 0 /\ ui.link # None => Alive(srv, ui.link)
      BY <1>0, <2>2 DEF LinkKept, RevokedHere, Revoking, Onboard!Yes
    <3>. QED BY <1>0, <1>5, <2>2, <3>1
  <2>3. CASE net.answer.ok /\ Onboard!ReadInvitations(Onboard!withoutLink(ui, run.id))
    <3>1. PICK u : u = Onboard!withoutLink(ui, run.id)
      OBVIOUS
    <3>2. /\ InviteForm(u) /\ (u.link = None \/ (u.link = ui.link /\ ui.link.id # run.id))
      BY <1>0, <3>1 DEF InviteForm, Fields, Onboard!withoutLink
    <3>3. lost = 0 /\ u.link # None => Alive(srv, u.link)
      BY <1>0, <3>2 DEF LinkKept, RevokedHere, Revoking
    <3>. QED BY <1>6, <2>1, <2>3, <3>1, <3>2, <3>3
  <2>. QED BY <2>1, <2>2, <2>3
<1>9. CASE Onboard!refreshInvitations
  <2>1. /\ run # None /\ run.op \in {"list", "relist"}
        /\ \E x, y : Onboard!End([ui EXCEPT !.list = x, !.bad = y]) \/ Onboard!End([ui EXCEPT !.bad = y])
    BY <1>9 DEF Onboard!refreshInvitations, Onboard!Doing
  <2>2. PICK u : /\ Onboard!End(u)
                 /\ \E x, y : u = [ui EXCEPT !.list = x, !.bad = y] \/ u = [ui EXCEPT !.bad = y]
    BY <2>1
  <2>3. InviteForm(u) /\ u.link = ui.link
    BY <1>0, <2>2 DEF InviteForm, Fields
  <2>4. lost = 0 /\ ui.link # None => Alive(srv, ui.link)
    BY <1>0, <2>1 DEF LinkKept, RevokedHere, Revoking
  <2>. QED BY <1>5, <2>2, <2>3, <2>4
<1>10. CASE Onboard!Revalidate
  <2>1. /\ srv' = srv /\ stray' = stray /\ lost' = lost /\ net' = net
        /\ ui' = [ui EXCEPT !.list = srv.inv]
        /\ run' = IF run = None THEN None ELSE [run EXCEPT !.steady = FALSE]
    BY <1>10 DEF Onboard!Revalidate, Onboard!Refresh, Onboard!Moved, Onboard!Here
  <2>3. InviteForm(ui') /\ ui'.link = ui.link
    BY <1>0, <2>1 DEF InviteForm, Fields
  <2>4. InviteRun(run', net') /\ InviteNet(run', net')
    BY <1>0, <2>1 DEF InviteRun, InviteNet, Revoking, Fields
  <2>5. \A id : RevokedHere(run, net, id) => RevokedHere(run', net', id)
    BY <1>0, <2>1, <2>4 DEF InviteRun, Revoking, Fields, RevokedHere
  <2>6. (run' # None /\ run'.op = "invite") => (run # None /\ run.op = "invite")
    BY <1>0, <2>1 DEF InviteRun, Revoking, Fields
  <2>. QED BY <1>0, <2>1, <2>3, <2>4, <2>5, <2>6 DEF InviteOK, LinkKept
<1>11. CASE Onboard!Remount
  <2>1. /\ srv' = srv /\ net' = None /\ run' = None
        /\ ui' = [who |-> "", link |-> None, list |-> srv.inv, bad |-> FALSE]
        /\ stray' = stray \cup Onboard!Dropped(Onboard!Writes)
        /\ IF Onboard!Dropped(Onboard!Writes) = {} THEN lost' = lost ELSE lost' = lost + 1
    BY <1>11
    DEF Onboard!Remount, Onboard!Reenter, Onboard!Abandon, Onboard!Blank
  <2>2. InviteForm(ui') /\ ui'.link = None
    BY <2>1 DEF InviteForm, Fields
  <2>3. lost' = 0 => lost = 0 /\ stray' = stray
    <3>. DEFINE d == Onboard!Dropped(Onboard!Writes)
    <3>1. stray' = stray \cup d /\ IF d = {} THEN lost' = lost ELSE lost' = lost + 1
      BY <2>1
    <3>. HIDE DEF d
    <3>. QED BY <1>0, <3>1
  <2>4. \A m \in stray' : m.kind \in {"invite", "revoke"}
    BY <1>0, <2>1 DEF Onboard!Dropped, Onboard!Writes, Onboard!Unanswered, InviteNet, Revoking
  <2>. QED BY <1>0, <2>1, <2>2, <2>3, <2>4 DEF InviteOK, LinkKept, InviteNet, InviteRun
<1>12. ASSUME NEW s, Invitations(s), srv' = s, ui' = ui, run' = run,
              net' = net \/ (net # None /\ \E a : net' = [net EXCEPT !.answer = a]),
              lost' = 0 => /\ lost = 0 /\ stray' = stray
                           /\ LinkKept(s, ui, run, net'),
              \A m \in stray' : m.kind \in {"invite", "revoke"}
       PROVE  InviteOK'
  <2>1. net # None /\ net' # None => Packet(net) /\ Packet(net') /\ net'.cmd = net.cmd
    BY <1>0, <1>12 DEF InviteNet, Packet, Revoking
  <2>2. InviteNet(run', net') /\ InviteRun(run', net')
    BY <1>0, <1>12, <2>1 DEF InviteNet, InviteRun, Revoking
  <2>. QED BY <1>0, <1>12, <2>2 DEF InviteOK
<1>13. CASE Onboard!Rival
  <2>1. PICK s : /\ Onboard!Others(s)
                 /\ \/ \E who : s = Onboard!InviteEmployee(srv, [who |-> who]).srv
                    \/ \E id, st : st # "revoked" /\ s = Onboard!Mark(srv, id, st)
    BY <1>13 DEF Onboard!Rival
  <2>2. srv' = s /\ net' = net /\ stray' = stray /\ run' = run /\ ui' = ui /\ lost' = lost
    BY <2>1 DEF Onboard!Others
  <2>3. Invitations(s) /\ \A k : Alive(srv, k) => Alive(s, k)
    <3>1. CASE \E id, st : st # "revoked" /\ s = Onboard!Mark(srv, id, st)
      BY <1>0, <3>1, Marked
    <3>2. ASSUME NEW who, s = Onboard!InviteEmployee(srv, [who |-> who]).srv
          PROVE  Invitations(s) /\ \A k : Alive(srv, k) => Alive(s, k)
      <4>. DEFINE i == [id |-> srv.next, who |-> who, st |-> "open"]
                  t == [srv EXCEPT !.inv = @ \cup {i}, !.next = @ + 1]
      <4>1. s = srv \/ s = t
        BY <3>2 DEF Onboard!InviteEmployee, Onboard!Out
      <4>2. Invitations(t) /\ \A k : Alive(srv, k) => Alive(t, k)
        BY <1>0, Invited
      <4>. QED BY <1>0, <4>1, <4>2
    <3>. QED BY <2>1, <3>1, <3>2
  <2>4. LinkKept(srv, ui, run, net) => LinkKept(s, ui, run, net)
    BY <2>3 DEF LinkKept
  <2>. QED BY <1>0, <1>12, <2>2, <2>3, <2>4
<1>14. CASE Onboard!Serve
  <2>1. PICK o \in Onboard!Handle(srv, net.cmd) :
          /\ net # None /\ net.answer = None /\ stray' = stray /\ ui' = ui /\ run' = run
          /\ lost' = lost /\ srv' = o.srv /\ net' = [net EXCEPT !.answer = o.a]
    BY <1>14 DEF Onboard!Serve, Onboard!ServeBy, Onboard!Unanswered, Onboard!Reply
  <2>2. Packet(net) /\ net.cmd.kind \in {"invite", "revoke", "invitations"}
    BY <1>0, <2>1 DEF InviteNet, Revoking
  <2>3. net'.answer = o.a /\ net'.cmd = net.cmd
    BY <2>1, <2>2 DEF Packet
  <2>4. /\ Invitations(o.srv)
        /\ \A k : Alive(srv, k) => Alive(o.srv, k) \/ (net.cmd.kind = "revoke" /\ net.cmd.id = k.id /\ o.a = Onboard!Yes(None))
        /\ (net.cmd.kind = "invite" /\ o.a.ok) => Alive(o.srv, o.a.data)
    BY <1>0, <2>2, InviteRequest
  <2>5. ASSUME LinkKept(srv, ui, run, net) PROVE LinkKept(o.srv, ui, run, net')
    <3>1. ui.link # None => Alive(srv, ui.link)
      BY <2>1, <2>5, OnboardNoAnswer DEF LinkKept, RevokedHere, Revoking
    <3>2. ui.link # None => Alive(o.srv, ui.link) \/ RevokedHere(run, net', ui.link.id)
      BY <1>0, <2>1, <2>3, <2>4, <3>1 DEF RevokedHere, InviteNet, Revoking
    <3>3. (run # None /\ run.op = "invite" /\ GoodAnswer(net')) => Alive(o.srv, net'.answer.data)
      <4>1. run # None /\ run.op = "invite" => net.cmd.kind = "invite"
        BY <1>0, <2>1 DEF InviteRun
      <4>2. SUFFICES ASSUME run # None, run.op = "invite", GoodAnswer(net')
                     PROVE  Alive(o.srv, net'.answer.data)
        OBVIOUS
      <4>3. net.cmd.kind = "invite"
        BY <4>1, <4>2
      <4>4. o.a.ok
        BY <2>3, <4>2 DEF GoodAnswer
      <4>5. Alive(o.srv, o.a.data)
        BY <2>4, <4>3, <4>4
      <4>. QED BY <2>3, <4>5
    <3>. QED BY <3>1, <3>2, <3>3 DEF LinkKept, Alive
  <2>. QED BY <1>0, <1>12, <2>1, <2>4, <2>5
<1>15. CASE Onboard!Lose
  <2>1. /\ net # None /\ net.answer = None /\ ui' = ui /\ run' = run /\ lost' = lost + 1
        /\ srv' = srv \/ \E o \in Onboard!Handle(srv, net.cmd) : srv' = o.srv
        /\ \E a : net' = [net EXCEPT !.answer = a]
        /\ stray' = stray \/ (net.cmd.kind \in Onboard!Writes /\ stray' = stray \cup {net.cmd})
    BY <1>15 DEF Onboard!Lose, Onboard!LoseBy, Onboard!Unanswered, Onboard!Reply
  <2>2. net.cmd.kind \in {"invite", "revoke", "invitations"}
    BY <1>0, <2>1 DEF InviteNet, Revoking
  <2>3. Invitations(srv')
    BY <1>0, <2>1, <2>2, InviteRequest
  <2>4. lost' # 0
    BY <1>0, <2>1
  <2>5. \A m \in stray' : m.kind \in {"invite", "revoke"}
    BY <1>0, <2>1, <2>2 DEF Onboard!Writes
  <2>. QED BY <1>12, <2>1, <2>3, <2>4, <2>5
<1>16. CASE Onboard!ServeStray
  <2>1. PICK m \in stray : /\ net' = net /\ stray' = stray \ {m} /\ ui' = ui /\ run' = run /\ lost' = lost
                           /\ \E o \in Onboard!Handle(srv, m) : srv' = o.srv
    BY <1>16 DEF Onboard!ServeStray, Onboard!StrayBy
  <2>2. m.kind \in {"invite", "revoke", "invitations"}
    BY <1>0, <2>1
  <2>3. Invitations(srv')
    BY <1>0, <2>1, <2>2, InviteRequest
  <2>. QED BY <1>0, <1>12, <2>1, <2>3
<1>17. CASE Onboard!AdminInvited \/ Onboard!Activated
  BY <1>0, <1>17 DEF Onboard!AdminInvited, Onboard!Activated, Onboard!Doing, InviteRun, Revoking
<1>. QED
  BY <1>1, <1>2, <1>3, <1>4, <1>7, <1>8, <1>9, <1>10, <1>11, <1>13, <1>14, <1>15, <1>16, <1>17
  DEF Onboard!Next

\* An account that was made stays as it is, and a request that is answered well
\* has made its own.
LEMMA AccountMade ==
  ASSUME NEW s, Accounts(s), NEW t \in Onboard!Tokens, NEW pw,
         NEW o, o = Onboard!ActivateEmployee(s, [token |-> t, password |-> pw])
                \/ \E m : m.token = t /\ m.password = pw /\ o = Onboard!ActivateEmployee(s, m)
  PROVE  /\ Accounts(o.srv)
         /\ \A u, q : Made(s, u, q) => Made(o.srv, u, q)
         /\ o.a.ok /\ pw # None => Made(o.srv, t, pw)
<1>1. \/ o.srv = s /\ ~o.a.ok
      \/ s.account[t] = None /\ o.srv = [s EXCEPT !.account[t] = pw]
  BY DEF Onboard!ActivateEmployee, Onboard!Out, Onboard!Yes, Onboard!No
<1>2. CASE o.srv = s /\ ~o.a.ok
  BY <1>2
<1>3. CASE s.account[t] = None /\ o.srv = [s EXCEPT !.account[t] = pw]
  <2>1. /\ Fields(o.srv, {"inv", "next", "account"}) /\ o.srv.account = [s.account EXCEPT ![t] = pw]
    BY <1>3 DEF Accounts, Fields
  <2>2. /\ Fields(o.srv.account, Onboard!Tokens) /\ o.srv.account[t] = pw
        /\ \A u \in Onboard!Tokens \ {t} : o.srv.account[u] = s.account[u]
    BY <2>1 DEF Accounts, Fields
  <2>. QED BY <1>3, <2>1, <2>2 DEF Accounts, Made
<1>. QED BY <1>1, <1>2, <1>3

\* What a request of the activation page does.
LEMMA ActivateRequest ==
  ASSUME NEW s, Accounts(s), NEW m, m.kind = "activate", m.token \in Onboard!Tokens,
         m.password \in Onboard!Passwords, NEW o \in Onboard!Handle(s, m)
  PROVE  /\ Accounts(o.srv)
         /\ \A u, q : Made(s, u, q) => Made(o.srv, u, q)
         /\ o.a.ok => Made(o.srv, m.token, m.password)
<1>1. m.password # None
  BY ConsoleBounds
<1>2. CASE o = Onboard!ActivateEmployee(s, m)
  BY <1>1, <1>2, AccountMade
<1>3. CASE o.srv = s /\ ~o.a.ok
  BY <1>3
<1>. QED BY <1>2, <1>3 DEF Onboard!Handle, Onboard!Out, Onboard!No

\* A form of the activation page that is mounted for an owner.
LEMMA FormMounted ==
  ASSUME NEW u, ActivateForm(u) \/ Fields(u, {"hash", "owner", "events"}), NEW inv
  PROVE  LET w == Onboard!Over(Onboard!Fresh(inv), u) IN
         /\ ActivateForm(w) /\ w.password = "" /\ ~w.done /\ w.hash = u.hash /\ w.shown = inv
<1>. DEFINE f == Onboard!Fresh(inv)
            keys == {"password", "confirm", "done", "sent", "shown"}
            w == Onboard!Over(f, u)
<1>1. Fields(f, keys) /\ f["password"] = "" /\ f["done"] = FALSE /\ f["shown"] = inv
  BY DEF Onboard!Fresh, Fields
<1>2. keys \cup DOMAIN u = keys \cup {"hash", "owner", "events"}
  BY DEF ActivateForm, Fields
<1>3. DOMAIN f = keys
  BY <1>1 DEF Fields
<1>. HIDE DEF f
<1>4. w = [k \in keys \cup DOMAIN u |-> IF k \in keys THEN f[k] ELSE u[k]]
  BY <1>3 DEF Onboard!Over
<1>. HIDE DEF w
<1>5. /\ DOMAIN w = keys \cup {"hash", "owner", "events"} /\ w = [k \in DOMAIN w |-> w[k]]
      /\ w["password"] = f["password"] /\ w["done"] = f["done"] /\ w["shown"] = f["shown"]
      /\ w["hash"] = u["hash"]
  BY <1>2, <1>4
<1>6. ActivateForm(w)
  BY <1>5 DEF ActivateForm, Fields
<1>. QED BY <1>1, <1>5, <1>6 DEF w, f

\* Whoever uses a link, a form that says "activated" has made its account.
LEMMA ActivateStep ==
  ASSUME form = "activate", ActivateOK, Onboard!Next
  PROVE  ActivateOK'
<1>0. /\ Accounts(srv) /\ ActivateForm(ui) /\ ActivateNet(srv, net) /\ ActivateRun(run, net)
      /\ ActivateStray(stray) /\ (ui.password = "" \/ ui.password \in Onboard!Passwords)
      /\ ui.done => Made(srv, ui.shown.token, ui.sent)
  BY DEF ActivateOK
<1>1. ASSUME srv' = srv, stray' = stray, run' = run, net' = net, NEW u, ui' = u,
             ActivateForm(u), u.password = "" \/ u.password \in Onboard!Passwords,
             u.done => ui.done /\ u.shown = ui.shown /\ u.sent = ui.sent
      PROVE  ActivateOK'
  BY <1>0, <1>1 DEF ActivateOK
<1>2. CASE Onboard!navigate \/ Onboard!readHash \/ Onboard!typePassword
  <2>1. /\ srv' = srv /\ stray' = stray /\ run' = run /\ net' = net
        /\ \/ \E t : ui' = [ui EXCEPT !.hash = t, !.events = @ + 1]
           \/ \E o : ui' = [ui EXCEPT !.events = @ - 1, !.owner = o]
           \/ \E pw \in Onboard!Passwords : ui' = [ui EXCEPT !.password = pw, !.confirm = pw]
    BY <1>2
    DEF Onboard!navigate, Onboard!readHash, Onboard!typePassword, Onboard!Look, Onboard!Here
  <2>2. /\ ActivateForm(ui') /\ ui'.done = ui.done /\ ui'.shown = ui.shown /\ ui'.sent = ui.sent
        /\ ui'.password = ui.password \/ ui'.password \in Onboard!Passwords
    BY <1>0, <2>1 DEF ActivateForm, Fields
  <2>. QED BY <1>0, <1>1, <2>1, <2>2
<1>3. CASE Onboard!mountForm
  <2>1. /\ srv' = srv /\ stray' = stray \cup Onboard!Dropped(Onboard!Writes)
        /\ net' = None /\ run' = None /\ ui' = Onboard!Over(Onboard!Fresh(ui.owner), ui)
    BY <1>3 DEF Onboard!mountForm, Onboard!Abandon
  <2>2. ActivateForm(ui') /\ ui'.password = "" /\ ~ui'.done
    BY <1>0, <2>1, FormMounted
  <2>3. ActivateStray(stray')
    BY <1>0, <2>1 DEF Onboard!Dropped, Onboard!Unanswered, ActivateStray, ActivateNet
  <2>. QED BY <1>0, <2>1, <2>2, <2>3 DEF ActivateOK, ActivateNet, ActivateRun
<1>4. CASE Onboard!submit
  <2>. DEFINE m == [kind |-> "activate", token |-> ui.shown.token, password |-> ui.password]
  <2>1. /\ srv' = srv /\ stray' = stray /\ ui' = ui
        /\ ui.password # "" /\ ui.shown.token \in Onboard!Tokens /\ ui.hash = ui.shown.token
        /\ run' = Onboard!Start("activate", [url |-> ui.hash, password |-> ui.password])
        /\ Onboard!Send(m)
    BY <1>4 DEF Onboard!submit, Onboard!Write, Onboard!Here, Onboard!current
  <2>2. /\ Packet(net') /\ ~GoodAnswer(net')
        /\ net'.cmd.kind = "activate" /\ net'.cmd.token = ui.shown.token /\ net'.cmd.password = ui.password
    <3>1. PICK c : c = m
      OBVIOUS
    <3>2. Packet(net') /\ ~GoodAnswer(net') /\ net'.cmd = c
      BY <2>1, <3>1, OnboardSent
    <3>. QED BY <3>1, <3>2
  <2>. HIDE DEF m
  <2>3. ActivateNet(srv, net')
    BY <1>0, <2>1, <2>2 DEF ActivateNet
  <2>4. /\ Fields(run', {"url", "password", "op", "mine", "steady"}) /\ run'.op = "activate"
        /\ run'.url = ui.hash /\ run'.password = ui.password
    <3>1. PICK x, y : x = ui.hash /\ y = ui.password /\ run' = Onboard!Start("activate", [url |-> x, password |-> y])
      BY <2>1
    <3>. QED BY <3>1, OnboardStart
  <2>5. ActivateRun(run', net')
    BY <2>1, <2>2, <2>4 DEF ActivateRun
  <2>. QED BY <1>0, <2>1, <2>3, <2>5 DEF ActivateOK
<1>5. CASE Onboard!Activated
  <2>1. /\ run # None /\ net # None /\ net.answer # None
        /\ srv' = srv /\ stray' = stray /\ net' = None /\ run' = None
        /\ \/ ui' = ui
           \/ /\ net.answer.ok /\ ui.hash = run.url /\ ui.hash = ui.shown.token
              /\ ui' = [ui EXCEPT !.hash = "", !.password = "", !.confirm = "", !.done = TRUE,
                                  !.sent = run.password]
    BY <1>5
    DEF Onboard!Activated, Onboard!Doing, Onboard!Answered, Onboard!Got, Onboard!End,
        Onboard!Stop, Onboard!Hang, Onboard!Here, Onboard!current
  <2>2. CASE ui' = ui
    BY <1>0, <2>1, <2>2 DEF ActivateOK, ActivateNet, ActivateRun
  <2>3. CASE /\ net.answer.ok /\ ui.hash = run.url /\ ui.hash = ui.shown.token
             /\ ui' = [ui EXCEPT !.hash = "", !.password = "", !.confirm = "", !.done = TRUE,
                                 !.sent = run.password]
    <3>1. Made(srv, ui.shown.token, run.password)
      BY <1>0, <2>1, <2>3 DEF ActivateNet, ActivateRun, GoodAnswer
    <3>2. /\ ActivateForm(ui') /\ ui'.password = "" /\ ui'.sent = run.password
          /\ ui'.shown = ui.shown
      BY <1>0, <2>3 DEF ActivateForm, Fields
    <3>. QED BY <1>0, <2>1, <3>1, <3>2 DEF ActivateOK, ActivateNet, ActivateRun
  <2>. QED BY <2>1, <2>2, <2>3
<1>6. ASSUME NEW s, srv' = s, ui' = ui, run' = run, Accounts(s), ActivateStray(stray'),
             \A u, q : Made(srv, u, q) => Made(s, u, q),
             \/ net' = net
             \/ /\ net # None
                /\ \E a : /\ net' = [net EXCEPT !.answer = a]
                          /\ a.ok => Made(s, net.cmd.token, net.cmd.password)
      PROVE  ActivateOK'
  <2>1. ActivateNet(s, net') /\ ActivateRun(run', net')
    <3>1. CASE net' = net
      BY <1>0, <1>6, <3>1 DEF ActivateNet, ActivateRun
    <3>2. CASE net # None /\ \E a : /\ net' = [net EXCEPT !.answer = a]
                                    /\ a.ok => Made(s, net.cmd.token, net.cmd.password)
      <4>1. PICK a : /\ net' = [net EXCEPT !.answer = a]
                     /\ a.ok => Made(s, net.cmd.token, net.cmd.password)
        BY <3>2
      <4>2. Packet(net') /\ net'.cmd = net.cmd /\ net'.answer = a
        BY <1>0, <3>2, <4>1 DEF ActivateNet, Packet
      <4>3. GoodAnswer(net') => Made(s, net'.cmd.token, net'.cmd.password)
        BY <4>1, <4>2 DEF GoodAnswer
      <4>4. ActivateNet(s, net')
        BY <1>0, <3>2, <4>2, <4>3 DEF ActivateNet
      <4>5. ActivateRun(run', net')
        BY <1>0, <1>6, <3>2, <4>2 DEF ActivateRun
      <4>. QED BY <4>4, <4>5
    <3>. QED BY <1>6, <3>1, <3>2
  <2>2. ui.done => Made(s, ui.shown.token, ui.sent)
    BY <1>0, <1>6
  <2>. QED BY <1>0, <1>6, <2>1, <2>2 DEF ActivateOK
<1>7. CASE Onboard!Rival
  <2>1. PICK t \in Onboard!Tokens :
          Onboard!Others(Onboard!ActivateEmployee(srv, [token |-> t, password |-> "other"]).srv)
    BY <1>7 DEF Onboard!Rival
  <2>2. PICK pw, o : pw = "other" /\ o = Onboard!ActivateEmployee(srv, [token |-> t, password |-> pw])
    OBVIOUS
  <2>3. srv' = o.srv /\ net' = net /\ stray' = stray /\ run' = run /\ ui' = ui
    BY <2>1, <2>2 DEF Onboard!Others
  <2>4. Accounts(o.srv) /\ \A u, q : Made(srv, u, q) => Made(o.srv, u, q)
    BY <1>0, <2>2, AccountMade
  <2>. QED BY <1>0, <1>6, <2>3, <2>4
<1>8. CASE Onboard!Serve
  <2>1. PICK o \in Onboard!Handle(srv, net.cmd) :
          /\ net # None /\ stray' = stray /\ ui' = ui /\ run' = run
          /\ srv' = o.srv /\ net' = [net EXCEPT !.answer = o.a]
    BY <1>8 DEF Onboard!Serve, Onboard!ServeBy, Onboard!Unanswered, Onboard!Reply
  <2>2. /\ Accounts(o.srv) /\ \A u, q : Made(srv, u, q) => Made(o.srv, u, q)
        /\ o.a.ok => Made(o.srv, net.cmd.token, net.cmd.password)
    BY <1>0, <2>1, ActivateRequest DEF ActivateNet
  <2>. QED BY <1>0, <1>6, <2>1, <2>2
<1>9. CASE Onboard!Lose
  <2>1. /\ net # None /\ ui' = ui /\ run' = run
        /\ srv' = srv \/ \E o \in Onboard!Handle(srv, net.cmd) : srv' = o.srv
        /\ \E a : ~a.ok /\ net' = [net EXCEPT !.answer = a]
        /\ stray' = stray \/ stray' = stray \cup {net.cmd}
    BY <1>9
    DEF Onboard!Lose, Onboard!LoseBy, Onboard!Unanswered, Onboard!Reply, Onboard!No, Onboard!Garbled
  <2>2. ActivateStray(stray')
    BY <1>0, <2>1 DEF ActivateNet, ActivateStray
  <2>3. Accounts(srv') /\ \A u, q : Made(srv, u, q) => Made(srv', u, q)
    <3>1. ASSUME NEW o \in Onboard!Handle(srv, net.cmd)
          PROVE  Accounts(o.srv) /\ \A u, q : Made(srv, u, q) => Made(o.srv, u, q)
      BY <1>0, <2>1, ActivateRequest DEF ActivateNet
    <3>2. CASE srv' = srv
      BY <1>0, <3>2
    <3>3. CASE \E o \in Onboard!Handle(srv, net.cmd) : srv' = o.srv
      BY <3>1, <3>3
    <3>. QED BY <2>1, <3>2, <3>3
  <2>. QED BY <1>6, <2>1, <2>2, <2>3
<1>10. CASE Onboard!ServeStray
  <2>1. PICK m \in stray : /\ net' = net /\ stray' = stray \ {m} /\ ui' = ui /\ run' = run
                           /\ \E o \in Onboard!Handle(srv, m) : srv' = o.srv
    BY <1>10 DEF Onboard!ServeStray, Onboard!StrayBy
  <2>2. Accounts(srv') /\ \A u, q : Made(srv, u, q) => Made(srv', u, q)
    <3>1. ASSUME NEW o \in Onboard!Handle(srv, m)
          PROVE  Accounts(o.srv) /\ \A u, q : Made(srv, u, q) => Made(o.srv, u, q)
      BY <1>0, <2>1, ActivateRequest DEF ActivateStray
    <3>. QED BY <2>1, <3>1
  <2>3. ActivateStray(stray')
    BY <1>0, <2>1 DEF ActivateStray
  <2>. QED BY <1>6, <2>1, <2>2, <2>3
<1>11. CASE Onboard!Invited \/ Onboard!Revoked \/ Onboard!refreshInvitations \/ Onboard!AdminInvited
  BY <1>0, <1>11
  DEF Onboard!Invited, Onboard!Revoked, Onboard!refreshInvitations, Onboard!AdminInvited,
      Onboard!Doing, ActivateRun
<1>. QED
  BY <1>2, <1>3, <1>4, <1>5, <1>7, <1>8, <1>9, <1>10, <1>11
  DEF Onboard!Next, Onboard!Revalidate, Onboard!Remount

\* The dialog for another administrator runs one action.
LEMMA AdminStep ==
  ASSUME form = "admin", Onboard!Next,
         run # None => Fields(run, {"op", "mine", "steady"}) /\ run.op = "inviteAdmin",
         Fields(ui, {"open", "who", "result"})
  PROVE  /\ Fields(ui', {"open", "who", "result"})
         /\ run' # None => Fields(run', {"op", "mine", "steady"}) /\ run'.op = "inviteAdmin"
<1>1. CASE Onboard!changeOpen
  <2>1. ui' = [open |-> ~ui.open, who |-> "", result |-> None] /\ run' = None
    BY <1>1 DEF Onboard!changeOpen, Onboard!Reenter, Onboard!Abandon
  <2>. QED BY <2>1 DEF Fields
<1>2. CASE Onboard!typeAdmin
  <2>1. /\ \E w : ui' = [ui EXCEPT !.who = w]
        /\ run' = IF run = None THEN None ELSE [run EXCEPT !.mine = FALSE]
    BY <1>2 DEF Onboard!typeAdmin, Onboard!Type, Onboard!Edited
  <2>. QED BY <2>1 DEF Fields
<1>3. CASE Onboard!handleInvite
  BY <1>3, OnboardStart DEF Onboard!handleInvite, Onboard!Write
<1>4. CASE Onboard!AdminInvited
  <2>1. run' = None /\ (ui' = ui \/ \E x : ui' = [ui EXCEPT !.result = x, !.who = ""])
    BY <1>4 DEF Onboard!AdminInvited, Onboard!End, Onboard!Stop
  <2>. QED BY <2>1 DEF Fields
<1>5. CASE ui' = ui /\ run' = run
  BY <1>5
<1>6. CASE Onboard!Invited \/ Onboard!Revoked \/ Onboard!refreshInvitations \/ Onboard!Activated
  BY <1>6
  DEF Onboard!Invited, Onboard!Revoked, Onboard!refreshInvitations, Onboard!Activated, Onboard!Doing
<1>. QED
  BY <1>1, <1>2, <1>3, <1>4, <1>5, <1>6
  DEF Onboard!Next, Onboard!Revalidate, Onboard!Remount, Onboard!Rival, Onboard!Serve, Onboard!Lose,
      Onboard!ServeStray, Onboard!ServeBy, Onboard!LoseBy, Onboard!StrayBy

\* Whatever happens, what the onboarding pages show stays so.
LEMMA OnboardStep ==
  ASSUME NoneApart, Counted, OnboardOK, Onboard!Next PROVE OnboardOK'
<1>1. form' = form
  BY OnboardCounts
<1>2. CASE form = "invite"
  BY <1>1, <1>2, InviteStep DEF OnboardOK
<1>3. CASE form = "admin"
  BY <1>1, <1>3, AdminStep DEF OnboardOK
<1>4. CASE form = "activate"
  BY <1>1, <1>4, ActivateStep DEF OnboardOK
<1>5. CASE form \notin {"invite", "admin", "activate"}
  BY <1>1, <1>5 DEF OnboardOK
<1>. QED BY <1>2, <1>3, <1>4, <1>5

\* No link has been issued and no account made yet.
LEMMA OnboardBegins == ASSUME Onboard!Init PROVE OnboardOK /\ Counted
<1>1. /\ run = None /\ net = None /\ stray = {} /\ ui = Onboard!Blank
      /\ srv = [inv |-> {}, next |-> 1, account |-> [t \in Onboard!Tokens |-> None]]
      /\ Counted
  BY DEF Onboard!Init, Onboard!Quiet, Counted
<1>2. CASE form = "invite"
  <2>1. ui = [who |-> "", link |-> None, list |-> srv.inv, bad |-> FALSE]
    BY <1>1, <1>2 DEF Onboard!Blank
  <2>2. InviteForm(ui) /\ ui.link = None
    BY <2>1 DEF InviteForm, Fields
  <2>3. Invitations(srv)
    BY <1>1 DEF Invitations, Fields
  <2>. QED BY <1>1, <1>2, <2>2, <2>3 DEF OnboardOK, InviteOK, InviteNet, InviteRun, LinkKept
<1>3. CASE form = "admin"
  <2>1. ui = [open |-> FALSE, who |-> "", result |-> None]
    BY <1>1, <1>3 DEF Onboard!Blank
  <2>. QED BY <1>1, <1>3, <2>1 DEF OnboardOK, Fields
<1>4. CASE form = "activate"
  <2>. DEFINE o == [token |-> "t1", gen |-> 1]
              u == [hash |-> "t1", owner |-> o, events |-> 0]
  <2>1. ui = Onboard!Over(Onboard!Fresh(o), u)
    BY <1>1, <1>4 DEF Onboard!Blank
  <2>2. Fields(u, {"hash", "owner", "events"})
    BY DEF Fields
  <2>. HIDE DEF u, o
  <2>3. ActivateForm(ui) /\ ui.password = "" /\ ~ui.done
    BY <2>1, <2>2, FormMounted
  <2>4. Accounts(srv)
    BY <1>1 DEF Accounts, Fields
  <2>. QED
    BY <1>1, <1>4, <2>3, <2>4 DEF OnboardOK, ActivateOK, ActivateNet, ActivateRun, ActivateStray
<1>. QED BY <1>1, <1>2, <1>3, <1>4 DEF Onboard!Init, Onboard!Forms

\* The page shows a live link and a true activation.
LEMMA OnboardMeans == ASSUME NoneApart, OnboardOK PROVE Onboard!LinkIsLive /\ Onboard!ActivationIsTrue
<1>1. Onboard!LinkIsLive
  <2>. SUFFICES ASSUME form = "invite", lost = 0, run = None, ui.link # None
                PROVE  \A i \in srv.inv : i.id = ui.link.id => i.who = ui.link.who /\ i.st # "revoked"
    BY DEF Onboard!LinkIsLive, Onboard!Idle
  <2>. QED BY OnboardNoAnswer DEF OnboardOK, InviteOK, LinkKept, RevokedHere, Alive
<1>2. Onboard!ActivationIsTrue
  BY DEF Onboard!ActivationIsTrue, OnboardOK, ActivateOK, Made
<1>. QED BY <1>1, <1>2

\* What was typed is taken off the form only by its own submission.
LEMMA OnboardTyped ==
  ASSUME OnboardOK, form \in Onboard!Forms, moves \in Nat, Onboard!Next
  PROVE  Onboard!TypedKept
<1>. SUFFICES ASSUME form # "activate", ui'.who # ui.who, moves' = moves
              PROVE  run # None /\ run.mine /\ net # None /\ net.answer # None /\ net.answer.ok
  <2>1. form' = form
    BY DEF Onboard!Next, Onboard!edit, Onboard!createInvitation, Onboard!revokeInvitation,
       Onboard!retryInvitations, Onboard!changeOpen, Onboard!typeAdmin, Onboard!handleInvite,
       Onboard!navigate, Onboard!readHash, Onboard!mountForm, Onboard!typePassword, Onboard!submit,
       Onboard!Invited, Onboard!ReadInvitations, Onboard!Revoked, Onboard!refreshInvitations,
       Onboard!AdminInvited, Onboard!Activated, Onboard!Revalidate, Onboard!Remount, Onboard!Rival,
       Onboard!Serve, Onboard!Lose, Onboard!ServeStray,
       Onboard!Read, Onboard!Write, Onboard!Look, Onboard!Type, Onboard!End, Onboard!Then,
       Onboard!Refresh, Onboard!Reenter, Onboard!Abandon, Onboard!Others, Onboard!ServeBy,
       Onboard!LoseBy, Onboard!StrayBy, Onboard!Here
  <2>. QED BY <2>1 DEF Onboard!TypedKept, Onboard!Typed, Onboard!Answered, Onboard!Got
<1>1. Fields(ui, {"who", "link", "list", "bad"}) \/ Fields(ui, {"open", "who", "result"})
  BY DEF OnboardOK, InviteOK, InviteForm, Onboard!Forms
<1>2. ASSUME ui' = ui PROVE FALSE
  BY <1>2
<1>3. moves' # moves + 1
  OBVIOUS
<1>4. CASE Onboard!Invited
  <2>1. /\ run # None /\ net # None /\ net.answer # None
        /\ \/ ui' = ui
           \/ net.answer.ok /\ ui' = [Onboard!formAfter(ui, run) EXCEPT !.link = net.answer.data]
    BY <1>4
    DEF Onboard!Invited, Onboard!Doing, Onboard!Answered, Onboard!Got, Onboard!End,
        Onboard!ReadInvitations, Onboard!Then
  <2>2. ~run.mine => Onboard!formAfter(ui, run) = ui
    BY DEF Onboard!formAfter
  <2>3. ASSUME ui' = [ui EXCEPT !.link = net.answer.data] PROVE FALSE
    BY <1>1, <2>3 DEF Fields
  <2>. QED BY <1>2, <2>1, <2>2, <2>3
<1>5. CASE Onboard!AdminInvited
  BY <1>2, <1>5
  DEF Onboard!AdminInvited, Onboard!Doing, Onboard!Answered, Onboard!Got, Onboard!End,
      Onboard!ownsDraft
<1>6. CASE Onboard!Revoked
  <2>1. ui' = ui \/ ui' = Onboard!withoutLink(ui, run.id)
    BY <1>6 DEF Onboard!Revoked, Onboard!End, Onboard!ReadInvitations, Onboard!Then
  <2>. QED BY <1>1, <1>2, <2>1 DEF Onboard!withoutLink, Fields
<1>7. CASE Onboard!refreshInvitations \/ Onboard!Revalidate
  <2>1. (\E x, y : ui' = [ui EXCEPT !.list = x, !.bad = y]) \/ (\E y : ui' = [ui EXCEPT !.bad = y])
        \/ (\E x : ui' = [ui EXCEPT !.list = x])
    BY <1>7 DEF Onboard!refreshInvitations, Onboard!End, Onboard!Revalidate, Onboard!Refresh
  <2>. QED BY <1>1, <1>2, <2>1 DEF Fields
<1>8. CASE Onboard!Activated
  BY <1>2, <1>8
  DEF Onboard!Activated, Onboard!Doing, OnboardOK, InviteOK, InviteRun, Revoking, Onboard!Forms
<1>. QED
  BY <1>2, <1>3, <1>4, <1>5, <1>6, <1>7, <1>8
  DEF Onboard!Next, Onboard!edit, Onboard!createInvitation, Onboard!revokeInvitation,
      Onboard!retryInvitations, Onboard!changeOpen, Onboard!typeAdmin, Onboard!handleInvite,
      Onboard!Remount, Onboard!Rival, Onboard!Serve, Onboard!Lose, Onboard!ServeStray,
      Onboard!Read, Onboard!Write, Onboard!Look, Onboard!Type, Onboard!Reenter, Onboard!Move,
      Onboard!Others, Onboard!ServeBy, Onboard!LoseBy, Onboard!StrayBy

\* Only a used token is taken out of the URL.
LEMMA OnboardToken ==
  ASSUME OnboardOK, Onboard!Next PROVE Onboard!TokenKept
<1>. SUFFICES ASSUME form = "activate", ui.hash # "", ui'.hash = ""
              PROVE  srv.account[ui.hash] # None
  BY DEF Onboard!TokenKept
<1>0. ActivateForm(ui) /\ ActivateNet(srv, net) /\ ActivateRun(run, net)
  BY DEF OnboardOK, ActivateOK
<1>1. ASSUME ui' = ui PROVE FALSE
  BY <1>1
<1>2. CASE Onboard!navigate
  <2>1. PICK t \in Onboard!Tokens : ui' = [ui EXCEPT !.hash = t, !.events = @ + 1]
    BY <1>2 DEF Onboard!navigate, Onboard!Look
  <2>2. ui'.hash = t
    BY <1>0, <2>1 DEF ActivateForm, Fields
  <2>. QED BY <2>2 DEF Onboard!Tokens
<1>3. CASE Onboard!readHash \/ Onboard!typePassword
  <2>1. \/ \E x, y : ui' = [ui EXCEPT !.events = x, !.owner = y]
        \/ \E x, y : ui' = [ui EXCEPT !.password = x, !.confirm = y]
    BY <1>3 DEF Onboard!readHash, Onboard!typePassword, Onboard!Look
  <2>. QED BY <1>0, <2>1 DEF ActivateForm, Fields
<1>4. CASE Onboard!mountForm
  <2>1. ui' = Onboard!Over(Onboard!Fresh(ui.owner), ui)
    BY <1>4 DEF Onboard!mountForm, Onboard!Abandon
  <2>. QED BY <1>0, <2>1, FormMounted
<1>5. CASE Onboard!Activated
  <2>1. /\ run # None /\ net # None /\ net.answer # None
        /\ ui' = ui \/ (net.answer.ok /\ ui.hash = run.url)
    BY <1>5
    DEF Onboard!Activated, Onboard!Doing, Onboard!Answered, Onboard!Got, Onboard!End, Onboard!current
  <2>2. CASE net.answer.ok /\ ui.hash = run.url
    BY <1>0, <2>1, <2>2 DEF ActivateNet, ActivateRun, GoodAnswer, Made
  <2>. QED BY <1>1, <2>1, <2>2
<1>6. CASE Onboard!Invited \/ Onboard!Revoked \/ Onboard!refreshInvitations \/ Onboard!AdminInvited
  BY <1>0, <1>6
  DEF Onboard!Invited, Onboard!Revoked, Onboard!refreshInvitations, Onboard!AdminInvited,
      Onboard!Doing, ActivateRun
<1>. QED
  BY <1>1, <1>2, <1>3, <1>4, <1>5, <1>6
  DEF Onboard!Next, Onboard!Revalidate, Onboard!Remount, Onboard!submit, Onboard!Write,
      Onboard!Rival, Onboard!Serve, Onboard!Lose, Onboard!ServeStray,
      Onboard!Others, Onboard!ServeBy, Onboard!LoseBy, Onboard!StrayBy

-----------------------------------------------------------------------------
(* The forms that are filled from the directory.                           *)

\* Plans have ids of their own, and keep them and their selection.
PlanRow(q) == Fields(q, {"id", "sel", "print", "state"})
DirRow(s) ==
  /\ Fields(s, {"active", "assets", "plans", "next", "boxes", "grants"}) /\ s.next \in Int
  /\ \A q \in s.plans : PlanRow(q) /\ q.id \in Int /\ q.id < s.next
  /\ \A q, t \in s.plans : q.id = t.id => q = t
Known(s, x) == \E q \in s.plans : q.id = x.id /\ q.sel = x.sel

\* What a command means: the plan as it was selected, and a retention that is
\* unlimited when zero was typed.
Meant(s, m) ==
  /\ m.kind = "execute" => Known(s, m)
  /\ m.kind = "create" => (m.hours = 0 <=> m.typed = 0)

DirOps(f) == IF f = "offboard" THEN {"preview", "execute", "members"}
             ELSE IF f = "create" THEN {"create", "boxes"} ELSE {"grant", "grants"}
DirRun(r) == Fields(r, {"op", "mine", "steady"}) \/ Fields(r, {"draft", "op", "mine", "steady"})
DirNet(r, n) ==
  /\ r # None => DirRun(r) /\ r.op \in DirOps(form)
  /\ n # None => r # None /\ Packet(n) /\ n.cmd.kind = r.op

\* The panel: a preview that may still be executed is one of the selection.
PanelForm(u) == Fields(u, {"active", "sel", "inspection", "conflict"})
PanelShown(s, u, r, n) ==
  /\ u.inspection # None =>
       /\ Fields(u.inspection, {"plan", "intent", "selection"}) /\ Known(s, u.inspection.plan)
       /\ u.inspection.intent => u.inspection.plan.sel = u.sel
  /\ (r # None /\ ~(r.mine /\ r.steady)) => (u.inspection = None \/ ~u.inspection.intent)
  /\ (r # None /\ r.mine /\ r.op # "members" /\ n # None) => n.cmd.sel = u.sel
  /\ Acknowledged(r, n, "preview") \/ Acknowledged(r, n, "execute")
       => n.answer.data.sel = n.cmd.sel /\ Known(s, n.answer.data)
PanelSettled(s, u, r, n, str) ==
  /\ str = {}
  /\ LET q == Directory!plan(u) IN
     (q # None /\ q \notin s.plans) => q.state # "executed" /\ Acknowledged(r, n, "execute")
  /\ Acknowledged(r, n, "preview") \/ Acknowledged(r, n, "execute") => n.answer.data \in s.plans

\* The lists are read again after every change.
ListSettled(list, shown, r, n, str, write, read) ==
  /\ str = {}
  /\ (r = None \/ r.op = write) /\ ~Acknowledged(r, n, write) => shown = list
  /\ (r # None /\ r.op = read /\ n # None /\ n.answer # None) => n.answer.ok /\ n.answer.data = list
MailboxForm(u) == Fields(u, {"active", "local", "kind", "owner", "error", "boxes", "retention"})
TemplateGrantForm(u) == Fields(u, {"active", "grants", "grantee"})

DirectoryOK ==
  /\ DirRow(srv) /\ DirNet(run, net)
  /\ net # None => Meant(srv, net.cmd)
  /\ \A m \in stray : Meant(srv, m) /\ m.kind \in Directory!Writes
  /\ form = "offboard" =>
       /\ PanelForm(ui) /\ PanelShown(srv, ui, run, net)
       /\ lost = 0 /\ rivals = 0 => PanelSettled(srv, ui, run, net, stray)
  /\ form = "create" =>
       /\ MailboxForm(ui) /\ ui.retention \in Directory!Decimals
       /\ lost = 0 /\ rivals = 0 => ListSettled(srv.boxes, ui.boxes, run, net, stray, "create", "boxes")
  /\ form = "grants" =>
       /\ TemplateGrantForm(ui)
       /\ lost = 0 /\ rivals = 0 => ListSettled(srv.grants, ui.grants, run, net, stray, "grant", "grants")

\* The page keeps count, and does not change its form.
LEMMA DirCounts ==
  ASSUME Counted, Directory!Next PROVE Counted' /\ form' = form
<1>1. /\ form' = form /\ moves' \in {moves, moves + 1} /\ rivals' \in {rivals, rivals + 1}
      /\ lost' \in {lost, lost + 1}
  BY DEF Directory!Next, Directory!select, Directory!previewPlan, Directory!revise,
     Directory!executePlan, Directory!editCreate, Directory!createMailbox, Directory!retryBoxes,
     Directory!selectGrantee, Directory!changeGrant, Directory!Previewed, Directory!Executed,
     Directory!MembersRead, Directory!Created, Directory!refreshBoxes, Directory!GrantChanged,
     Directory!GrantsAgain, Directory!GrantsRead, Directory!Revalidate, Directory!Remount,
     Directory!Rival, Directory!Serve, Directory!Lose, Directory!ServeStray,
     Directory!Type, Directory!Look, Directory!Read, Directory!Write, Directory!End, Directory!Then,
     Directory!Refresh, Directory!RefreshFails, Directory!Reenter, Directory!Abandon,
     Directory!Others, Directory!ServeBy, Directory!LoseBy, Directory!StrayBy, Directory!Here,
     Directory!Move, Directory!Call
<1>. QED BY <1>1 DEF Counted

\* A request that sets out.
LEMMA DirSent ==
  ASSUME NEW m, Directory!Send(m)
  PROVE  Packet(net') /\ net'.cmd = m /\ net'.answer = None
<1>1. net' = [cmd |-> m, answer |-> None]
  BY DEF Directory!Send
<1>. QED BY <1>1 DEF Packet

\* The actions of the forms.
LEMMA DirStart ==
  ASSUME NEW op
  PROVE  /\ LET r == Directory!Start(op, <<>>) IN DirRun(r) /\ r.op = op /\ r.mine /\ r.steady
         /\ \A x : LET r == Directory!Start(op, [draft |-> x]) IN
              DirRun(r) /\ r.op = op /\ r.mine /\ r.steady
<1>1. LET r == Directory!Start(op, <<>>) IN DirRun(r) /\ r.op = op /\ r.mine /\ r.steady
  <2>1. DOMAIN <<>> = {}
    OBVIOUS
  <2>2. Directory!Start(op, <<>>) = [op |-> op, mine |-> TRUE, steady |-> TRUE]
    BY <2>1 DEF Directory!Start, Directory!Over
  <2>. QED BY <2>2 DEF DirRun, Fields
<1>2. ASSUME NEW x
      PROVE  LET r == Directory!Start(op, [draft |-> x]) IN
             DirRun(r) /\ r.op = op /\ r.mine /\ r.steady
  <2>1. Directory!Start(op, [draft |-> x]) \in [draft : {x}, op : {op}, mine : {TRUE}, steady : {TRUE}]
    BY DEF Directory!Start, Directory!Over
  <2>. QED BY <2>1 DEF DirRun, Fields
<1>. QED BY <1>1, <1>2

\* What a request does.
LEMMA DirRequest ==
  ASSUME NoneApart, NEW s, DirRow(s), NEW m, Meant(s, m),
         m.kind \in {"members", "boxes", "grants"} \cup Directory!Writes,
         NEW o \in Directory!Handle(s, m)
  PROVE  /\ DirRow(o.srv)
         /\ \A x : Known(s, x) => Known(o.srv, x)
         /\ m.kind \notin Directory!Writes => o.srv = s /\ o.a.ok
         /\ m.kind = "boxes" => o.a.data = s.boxes
         /\ m.kind = "grants" => o.a.data = s.grants
         /\ m.kind = "create" /\ ~o.a.ok => o.srv.boxes = s.boxes
         /\ m.kind = "grant" /\ ~o.a.ok => o.srv.grants = s.grants
         /\ m.kind \in {"preview", "execute"} /\ o.a.ok
              => o.a.data \in o.srv.plans /\ o.a.data.sel = m.sel
         /\ \A q \in s.plans : q \notin o.srv.plans => q.state # "executed" /\ m.kind = "execute" /\ o.a.ok
         /\ m.kind = "execute" /\ o.srv # s
              => Directory!Plan(s, m.id).sel = m.sel /\ Directory!Plan(s, m.id).print = s.assets
<1>. USE DEF Directory!Writes
<1>0. ~Directory!No.ok /\ ~Directory!Conflict.ok /\ \A x : Directory!Yes(x).ok /\ Directory!Yes(x).data = x
  BY DEF Directory!No, Directory!Conflict, Directory!Yes
<1>a. \A x, a : Directory!Out(x, a).srv = x /\ Directory!Out(x, a).a = a
  BY DEF Directory!Out
<1>1. CASE m.kind \in {"members", "boxes", "grants"}
  <2>1. \/ m.kind = "members" /\ o = Directory!Out(s, Directory!Yes(s.active))
        \/ m.kind = "boxes" /\ o = Directory!Out(s, Directory!Yes(s.boxes))
        \/ m.kind = "grants" /\ o = Directory!Out(s, Directory!Yes(s.grants))
    BY <1>1 DEF Directory!Handle
  <2>. QED BY <1>0, <1>a, <2>1
<1>2. CASE m.kind = "preview"
  <2>. DEFINE q == [id |-> s.next, sel |-> m.sel, print |-> s.assets, state |-> "preview"]
              t == [s EXCEPT !.plans = @ \cup {q}, !.next = @ + 1]
  <2>1. o = Directory!Out(s, Directory!No) \/ o = Directory!Out(t, Directory!Yes(q))
    BY <1>2 DEF Directory!Handle, Directory!PreviewOffboarding
  <2>2. PlanRow(q) /\ q.id = s.next /\ q.sel = m.sel
    BY DEF PlanRow, Fields
  <2>3. /\ Fields(t, {"active", "assets", "plans", "next", "boxes", "grants"})
        /\ t.next = s.next + 1 /\ t.plans = s.plans \cup {q}
    BY DEF DirRow, Fields
  <2>. HIDE DEF q, t
  <2>4. DirRow(t)
    BY <2>2, <2>3 DEF DirRow
  <2>5. \A x : Known(s, x) => Known(t, x)
    BY <2>3 DEF Known
  <2>. QED BY <1>0, <1>2, <1>a, <2>1, <2>2, <2>3, <2>4, <2>5
<1>3. CASE m.kind = "execute"
  <2>1. PICK q : q = Directory!Plan(s, m.id)
    OBVIOUS
  <2>2. q \in s.plans /\ q.id = m.id /\ q.sel = m.sel
    BY <1>3, <2>1 DEF Meant, Known, DirRow, Directory!Plan
  <2>3. PICK done : done = [q EXCEPT !.state = "executed"]
    OBVIOUS
  <2>4. PICK t : t = [s EXCEPT !.plans = (@ \ {q}) \cup {done}, !.active = @ \ {q.sel.target}]
    OBVIOUS
  <2>5. \/ q.state = "executed" /\ o = Directory!Out(s, Directory!Yes(q))
        \/ o = Directory!Out(s, Directory!Conflict)
        \/ Directory!executable(s, q) /\ o = Directory!Out(t, Directory!Yes(done))
    BY <1>3, <2>1, <2>3, <2>4 DEF Directory!Handle, Directory!ExecuteOffboarding
  <2>6. PlanRow(done) /\ done.id = q.id /\ done.sel = q.sel
    BY <2>2, <2>3 DEF DirRow, PlanRow, Fields
  <2>7. /\ Fields(t, {"active", "assets", "plans", "next", "boxes", "grants"})
        /\ t.next = s.next /\ t.plans = (s.plans \ {q}) \cup {done}
    BY <2>4 DEF DirRow, Fields
  <2>8. DirRow(t)
    BY <2>2, <2>6, <2>7 DEF DirRow
  <2>9. \A x : Known(s, x) => Known(t, x)
    BY <2>2, <2>6, <2>7 DEF Known
  <2>10. Directory!executable(s, q) => q.state # "executed" /\ q.print = s.assets
    BY DEF Directory!executable
  <2>. QED BY <1>0, <1>3, <1>a, <2>1, <2>2, <2>5, <2>6, <2>7, <2>8, <2>9, <2>10
<1>4. CASE m.kind = "create"
  <2>. DEFINE t == [s EXCEPT !.boxes = @ \cup {[local |-> m.local, hours |-> m.hours]}]
  <2>1. \/ o = Directory!Out(s, Directory!No)
        \/ o = Directory!Out(s, Directory!Conflict)
        \/ o = Directory!Out(t, Directory!Yes(None))
    BY <1>4 DEF Directory!Handle, Directory!CreateWorkMailbox
  <2>2. DirRow(t) /\ t.plans = s.plans
    BY DEF DirRow, Fields
  <2>. HIDE DEF t
  <2>. QED BY <1>0, <1>4, <1>a, <2>1, <2>2 DEF Known
<1>5. CASE m.kind = "grant"
  <2>. DEFINE t == [s EXCEPT !.grants = IF m.enabled THEN @ \cup {m.user} ELSE @ \ {m.user}]
  <2>1. \/ o = Directory!Out(s, Directory!No)
        \/ o = Directory!Out(t, Directory!Yes(None))
    BY <1>5 DEF Directory!Handle, Directory!SetTemplateGrant
  <2>2. DirRow(t) /\ t.plans = s.plans
    BY DEF DirRow, Fields
  <2>. HIDE DEF t
  <2>. QED BY <1>0, <1>5, <1>a, <2>1, <2>2 DEF Known
<1>. QED BY <1>1, <1>2, <1>3, <1>4, <1>5

\* Others keep the plans known.
LEMMA DirRivals ==
  ASSUME DirRow(srv), Directory!Rival
  PROVE  DirRow(srv') /\ \A x : Known(srv, x) => Known(srv', x)
<1>1. \/ srv' = [srv EXCEPT !.assets = @ + 1]
      \/ srv' = [srv EXCEPT !.active = @ \ {"y"}]
      \/ \E q \in srv.plans : srv' = [srv EXCEPT !.plans = (@ \ {q}) \cup {[q EXCEPT !.state = "expired"]}]
  BY DEF Directory!Rival, Directory!Others
<1>2. CASE \/ srv' = [srv EXCEPT !.assets = @ + 1]
           \/ srv' = [srv EXCEPT !.active = @ \ {"y"}]
  BY <1>2 DEF DirRow, Fields, Known
<1>3. ASSUME NEW q \in srv.plans,
             srv' = [srv EXCEPT !.plans = (@ \ {q}) \cup {[q EXCEPT !.state = "expired"]}]
      PROVE  DirRow(srv') /\ \A x : Known(srv, x) => Known(srv', x)
  <2>1. PICK e : e = [q EXCEPT !.state = "expired"]
    OBVIOUS
  <2>2. PlanRow(e) /\ e.id = q.id /\ e.sel = q.sel
    BY <1>3, <2>1 DEF DirRow, PlanRow, Fields
  <2>3. /\ Fields(srv', {"active", "assets", "plans", "next", "boxes", "grants"})
        /\ srv'.next = srv.next /\ srv'.plans = (srv.plans \ {q}) \cup {e}
    BY <1>3, <2>1 DEF DirRow, Fields
  <2>4. DirRow(srv')
    BY <1>3, <2>2, <2>3 DEF DirRow
  <2>5. \A x : Known(srv, x) => Known(srv', x)
    BY <1>3, <2>2, <2>3 DEF Known
  <2>. QED BY <2>4, <2>5
<1>. QED BY <1>1, <1>2, <1>3

\* A retention that may be sent is unlimited when zero was typed.
LEMMA RetentionExact ==
  ASSUME None \notin Int, NEW v \in Directory!Decimals, Directory!parseRetentionHours(v) # None
  PROVE  Directory!parseRetentionHours(v) = 0 <=> v.digits = 0
<1>1. CASE v = [digits |-> 0, places |-> 0]
  <2>1. 10 ^ 0 = 1
    OBVIOUS
  <2>2. Directory!Number(v) = 0
    BY <1>1, <2>1 DEF Directory!Number
  <2>. QED BY <1>1, <2>2 DEF Directory!parseRetentionHours
<1>2. CASE v = [digits |-> 5, places |-> 400]
  <2>1. Directory!trailingZeros(5) \in 0..6
    <3>1. 5 % 10 ^ 0 = 0 /\ 5 % 10 ^ (0 + 1) # 0
      OBVIOUS
    <3>2. 0 \in 0..6
      OBVIOUS
    <3>. QED BY <3>1, <3>2 DEF Directory!trailingZeros
  <2>. QED BY <1>2, <2>1 DEF Directory!parseRetentionHours
<1>3. CASE v = [digits |-> 150, places |-> 1]
  <2>1. 10 ^ 1 = 10
    OBVIOUS
  <2>2. Directory!Number(v) = 15
    BY <1>3, <2>1 DEF Directory!Number
  <2>. QED BY <1>3, <2>2 DEF Directory!parseRetentionHours
<1>4. CASE v = [digits |-> 15, places |-> 1]
  <2>1. 10 ^ 1 = 10
    OBVIOUS
  <2>2. Directory!Number(v) = None
    BY <1>4, <2>1 DEF Directory!Number
  <2>. QED BY <2>2 DEF Directory!parseRetentionHours
<1>. QED BY <1>1, <1>2, <1>3, <1>4 DEF Directory!Decimals

\* What an inspection is retired to: it can no longer be executed, and is shown
\* only if it was.
Inspection(x) == x # None => Fields(x, {"plan", "intent", "selection"})
Retired(u, w) ==
  /\ PanelForm(w) /\ w.sel = u.sel /\ Inspection(w.inspection)
  /\ w.inspection # None =>
       /\ u.inspection # None /\ w.inspection.plan = u.inspection.plan /\ ~w.inspection.intent
  /\ Directory!plan(w) # None =>
       Directory!plan(w) = Directory!plan(u) /\ Directory!plan(w).state = "executed"

\* When an inspection is dropped, the panel is as the invariant wants it.
LEMMA PanelRetired ==
  ASSUME NoneApart, NEW u, PanelForm(u), Inspection(u.inspection)
  PROVE  /\ Retired(u, Directory!Reselected(u)) /\ Retired(u, Directory!Reread(u))
         /\ \A a : Retired(u, Directory!Directory(u, a))
<1>1. ASSUME NEW v, PanelForm(v), Inspection(v.inspection), NEW w,
             w = Directory!Reselected(v) \/ w = Directory!Reread(v)
      PROVE  Retired(v, w)
  <2>1. CASE v.inspection = None
    <3>1. w = v
      BY <1>1, <2>1 DEF Directory!Reselected, Directory!Reread
    <3>. QED BY <1>1, <2>1, <3>1 DEF Retired, Directory!plan
  <2>2. CASE v.inspection # None
    <3>1. \/ w = [v EXCEPT !.inspection = [@ EXCEPT !.intent = FALSE, !.selection = FALSE]]
          \/ w = [v EXCEPT !.inspection = [@ EXCEPT !.intent = FALSE]]
      BY <1>1, <2>2 DEF Directory!Reselected, Directory!Reread, PanelForm, Fields
    <3>2. PICK x : /\ w = [v EXCEPT !.inspection = x]
                   /\ \/ x = [v.inspection EXCEPT !.intent = FALSE, !.selection = FALSE]
                      \/ x = [v.inspection EXCEPT !.intent = FALSE]
      BY <1>1, <3>1 DEF PanelForm, Fields
    <3>3. /\ Fields(x, {"plan", "intent", "selection"}) /\ x.plan = v.inspection.plan
          /\ x.intent = FALSE /\ x.selection \in {FALSE, v.inspection.selection}
      BY <1>1, <2>2, <3>2 DEF Inspection, Fields
    <3>4. x # None
      BY <3>3, SomeRecord
    <3>5. PanelForm(w) /\ w.sel = v.sel /\ w.inspection = x
      BY <1>1, <3>2 DEF PanelForm, Fields
    <3>6. Directory!plan(w) # None =>
            Directory!plan(w) = Directory!plan(v) /\ Directory!plan(w).state = "executed"
      BY <2>2, <3>3, <3>4, <3>5 DEF Directory!plan
    <3>. QED BY <2>2, <3>3, <3>4, <3>5, <3>6 DEF Retired, Inspection
  <2>. QED BY <2>1, <2>2
<1>2. ASSUME NEW a PROVE Retired(u, Directory!Directory(u, a))
  <2>1. PICK q, v : q = [u EXCEPT !.active = a] /\ v = Directory!Reread(q)
    OBVIOUS
  <2>2. PanelForm(q) /\ q.sel = u.sel /\ q.inspection = u.inspection
    BY <2>1 DEF PanelForm, Fields
  <2>3. Directory!plan(q) = Directory!plan(u)
    BY <2>2 DEF Directory!plan
  <2>4. Retired(q, v)
    BY <1>1, <2>1, <2>2
  <2>5. PanelForm(v) /\ Inspection(v.inspection)
    BY <2>4 DEF Retired
  <2>6. Retired(v, Directory!Reselected(v))
    BY <1>1, <2>5
  <2>7. Directory!Directory(u, a) = v \/ Directory!Directory(u, a) = Directory!Reselected(v)
    BY <2>1 DEF Directory!Directory
  <2>. QED BY <2>2, <2>3, <2>4, <2>6, <2>7 DEF Retired
<1>. QED BY <1>1, <1>2

\* Whatever happens to the panel, what it shows stays so.
LEMMA PanelStep ==
  ASSUME NoneApart, form = "offboard", form' = form, Counted, DirectoryOK, Directory!Next
  PROVE  DirectoryOK'
<1>0. /\ DirRow(srv) /\ DirNet(run, net)
      /\ net # None => Meant(srv, net.cmd)
      /\ \A m \in stray : Meant(srv, m) /\ m.kind \in Directory!Writes
      /\ PanelForm(ui) /\ PanelShown(srv, ui, run, net)
      /\ lost = 0 /\ rivals = 0 => PanelSettled(srv, ui, run, net, stray)
      /\ Inspection(ui.inspection)
      /\ lost \in Nat /\ rivals \in Nat
  BY DEF DirectoryOK, Counted, Inspection, PanelShown
<1>a. ASSUME NEW r, NEW n, DirNet(r, n), n # None
      PROVE  /\ Packet(n) /\ n.cmd.kind \in {"preview", "execute", "members"} /\ r # None
             /\ n.cmd.kind = r.op
  BY <1>a DEF DirNet, DirOps

\* The page moves on.
<1>1. ASSUME srv' = srv, stray' = stray, lost' = lost \/ lost' = lost + 1, rivals' = rivals,
             NEW u, ui' = u, PanelForm(u), DirNet(run', net'), net' # None => Meant(srv, net'.cmd),
             PanelShown(srv, u, run', net'),
             lost' = lost /\ lost = 0 /\ rivals = 0 => PanelSettled(srv, u, run', net', stray)
      PROVE  DirectoryOK'
  <2>1. lost' = 0 => lost = 0 /\ lost' = lost
    BY <1>0, <1>1
  <2>2. DirNet(run, net)'
    BY <1>1 DEF DirNet
  <2>. QED BY <1>0, <1>1, <2>1, <2>2 DEF DirectoryOK

\* The inspection is retired under the running action.
<1>2. ASSUME srv' = srv, stray' = stray, lost' = lost \/ lost' = lost + 1, rivals' = rivals,
             net' = net, NEW u, ui' = u, Retired(ui, u),
             run = None => run' = None,
             run # None => run' = [run EXCEPT !.steady = FALSE]
      PROVE  DirectoryOK'
  <2>1. /\ DirNet(run', net') /\ (run' # None => run # None)
        /\ run # None => run'.op = run.op /\ run'.mine = run.mine
    <3>1. CASE run = None
      BY <1>0, <1>2, <3>1 DEF DirNet
    <3>2. CASE run # None
      <4>1. DirRun(run) /\ run.op \in DirOps(form)
        BY <1>0, <3>2 DEF DirNet
      <4>2. DirRun(run') /\ run'.op = run.op /\ run'.mine = run.mine
        BY <1>2, <3>2, <4>1 DEF DirRun, Fields
      <4>3. run' # None
        BY <4>2, SomeRecord DEF DirRun
      <4>. QED BY <1>0, <1>2, <3>2, <4>1, <4>2, <4>3 DEF DirNet
    <3>. QED BY <3>1, <3>2
  <2>2. PanelShown(srv, u, run', net')
    BY <1>0, <1>2, <2>1 DEF PanelShown, Retired, Inspection, Acknowledged
  <2>3. lost = 0 /\ rivals = 0 => PanelSettled(srv, u, run', net', stray)
    BY <1>0, <1>2, <2>1 DEF PanelSettled, Retired, Acknowledged
  <2>. QED BY <1>0, <1>1, <1>2, <2>1, <2>2, <2>3 DEF Retired
<1>3. CASE Directory!select
  <2>1. PICK sel, v, u :
          /\ srv' = srv /\ stray' = stray /\ lost' = lost /\ rivals' = rivals /\ net' = net
          /\ Directory!plan(ui) = None
          /\ v = [ui EXCEPT !.sel = sel] /\ u = Directory!Reselected(v) /\ ui' = u
          /\ run' = IF run = None THEN None ELSE [run EXCEPT !.mine = FALSE]
    BY <1>3 DEF Directory!select, Directory!Type, Directory!Here, Directory!Edited
  <2>2. PanelForm(v) /\ v.inspection = ui.inspection
    BY <1>0, <2>1 DEF PanelForm, Fields
  <2>3. Retired(v, u)
    BY <1>0, <2>1, <2>2, PanelRetired
  <2>4. Directory!plan(u) = None
    BY <2>1, <2>2, <2>3 DEF Retired, Directory!plan
  <2>5. /\ DirNet(run', net') /\ (run' # None => run # None /\ ~run'.mine)
        /\ run # None => run'.op = run.op
    <3>1. CASE run = None
      BY <1>0, <2>1, <3>1 DEF DirNet
    <3>2. CASE run # None
      <4>1. DirRun(run) /\ run.op \in DirOps(form)
        BY <1>0, <3>2 DEF DirNet
      <4>2. DirRun(run') /\ run'.op = run.op /\ run'.mine = FALSE
        BY <2>1, <3>2, <4>1 DEF DirRun, Fields
      <4>3. run' # None
        BY <4>2, SomeRecord DEF DirRun
      <4>. QED BY <1>0, <2>1, <3>2, <4>1, <4>2, <4>3 DEF DirNet
    <3>. QED BY <3>1, <3>2
  <2>6. PanelShown(srv, u, run', net')
    BY <1>0, <2>1, <2>2, <2>3, <2>5 DEF PanelShown, Retired, Inspection, Acknowledged
  <2>7. lost = 0 /\ rivals = 0 => PanelSettled(srv, u, run', net', stray)
    BY <1>0, <2>1, <2>4, <2>5 DEF PanelSettled, Acknowledged
  <2>. QED BY <1>0, <1>1, <2>1, <2>3, <2>5, <2>6, <2>7 DEF Retired
<1>4. CASE Directory!previewPlan
  <2>1. PICK m : /\ srv' = srv /\ stray' = stray /\ lost' = lost /\ rivals' = rivals /\ run = None
                 /\ ui' = ui /\ run' = Directory!Start("preview", <<>>) /\ Directory!Send(m)
                 /\ m = [kind |-> "preview", sel |-> ui.sel]
    BY <1>4 DEF Directory!previewPlan, Directory!Write, Directory!Here, Directory!Idle
  <2>2. m.kind = "preview" /\ m.sel = ui.sel /\ Meant(srv, m)
    BY <2>1 DEF Meant
  <2>3. Packet(net') /\ net'.cmd = m /\ net'.answer = None
    BY <2>1, DirSent
  <2>4. DirRun(run') /\ run'.op = "preview" /\ run'.mine /\ run'.steady /\ run' # None
    BY <2>1, DirStart, SomeRecord DEF DirRun
  <2>5. DirNet(run', net')
    BY <1>0, <2>2, <2>3, <2>4 DEF DirNet, DirOps
  <2>6. PanelShown(srv, ui, run', net')
    BY <1>0, <2>1, <2>2, <2>3, <2>4 DEF PanelShown, Acknowledged
  <2>7. lost = 0 /\ rivals = 0 => PanelSettled(srv, ui, run', net', stray)
    BY <1>0, <2>1, <2>3 DEF PanelSettled, Acknowledged
  <2>. QED BY <1>0, <1>1, <2>1, <2>2, <2>3, <2>5, <2>6, <2>7
<1>5. CASE Directory!executePlan
  <2>1. PICK m : /\ srv' = srv /\ stray' = stray /\ lost' = lost /\ rivals' = rivals /\ run = None
                 /\ ui' = ui /\ run' = Directory!Start("execute", <<>>) /\ Directory!Send(m)
                 /\ m = [kind |-> "execute", id |-> Directory!plan(ui).id, sel |-> ui.sel]
                 /\ Directory!plan(ui) # None /\ Directory!plan(ui).state = "preview"
    BY <1>5 DEF Directory!executePlan, Directory!Write, Directory!Here, Directory!Idle
  <2>2. /\ ui.inspection # None /\ ui.inspection.intent /\ Directory!plan(ui) = ui.inspection.plan
    BY <2>1 DEF Directory!plan
  <2>3. m.kind = "execute" /\ m.sel = ui.sel /\ m.id = ui.inspection.plan.id
    BY <2>1, <2>2
  <2>4. Meant(srv, m)
    BY <1>0, <2>2, <2>3 DEF PanelShown, Known, Meant
  <2>5. Packet(net') /\ net'.cmd = m /\ net'.answer = None
    BY <2>1, DirSent
  <2>6. DirRun(run') /\ run'.op = "execute" /\ run'.mine /\ run'.steady /\ run' # None
    BY <2>1, DirStart, SomeRecord DEF DirRun
  <2>7. DirNet(run', net')
    BY <1>0, <2>3, <2>5, <2>6 DEF DirNet, DirOps
  <2>8. PanelShown(srv, ui, run', net')
    BY <1>0, <2>1, <2>3, <2>5, <2>6 DEF PanelShown, Acknowledged
  <2>9. lost = 0 /\ rivals = 0 => PanelSettled(srv, ui, run', net', stray)
    BY <1>0, <2>1, <2>5 DEF PanelSettled, Acknowledged
  <2>. QED BY <1>0, <1>1, <2>1, <2>4, <2>5, <2>7, <2>8, <2>9
<1>6. CASE Directory!revise
  <2>1. /\ srv' = srv /\ stray' = stray /\ lost' = lost /\ rivals' = rivals /\ net' = net
        /\ run' = run /\ run = None /\ ui' = [ui EXCEPT !.inspection = None]
    BY <1>6 DEF Directory!revise, Directory!Look, Directory!Here, Directory!Idle
  <2>2. PanelForm(ui') /\ ui'.inspection = None
    BY <1>0, <2>1 DEF PanelForm, Fields
  <2>3. Directory!plan(ui') = None
    BY <2>2 DEF Directory!plan
  <2>4. PanelShown(srv, ui', run', net')
    BY <1>0, <2>1, <2>2 DEF PanelShown, Acknowledged
  <2>5. lost = 0 /\ rivals = 0 => PanelSettled(srv, ui', run', net', stray)
    BY <1>0, <2>1, <2>3 DEF PanelSettled, Acknowledged
  <2>. QED BY <1>0, <1>1, <2>1, <2>2, <2>4, <2>5

\* A plan that was answered is inspected.
<1>7. ASSUME run # None, net # None, net.answer # None, net.answer.ok, run.mine, run.steady,
             run.op \in {"preview", "execute"}, NEW u, NEW i, i = Directory!Inspect(net.answer.data),
             PanelForm(u), u.inspection = i, u.sel = ui.sel, srv' = srv, stray' = stray,
             lost' = lost, rivals' = rivals, ui' = u, DirNet(run', net'),
             net' # None => Meant(srv, net'.cmd) /\ net'.answer = None,
             run' # None => run'.op = "members" /\ run'.mine /\ run'.steady
      PROVE  DirectoryOK'
  <2>1. /\ net.answer.data.sel = ui.sel /\ Known(srv, net.answer.data)
    BY <1>0, <1>7 DEF PanelShown, Acknowledged
  <2>2. /\ Fields(i, {"plan", "intent", "selection"}) /\ i.plan = net.answer.data /\ i.intent /\ i.selection
    BY <1>7 DEF Directory!Inspect, Fields
  <2>3. i # None
    BY <2>2, SomeRecord
  <2>4. Directory!plan(u) = net.answer.data
    BY <1>7, <2>2, <2>3 DEF Directory!plan
  <2>5. PanelShown(srv, u, run', net')
    BY <1>0, <1>7, <2>1, <2>2, <2>3 DEF PanelShown, Acknowledged
  <2>6. lost = 0 /\ rivals = 0 => PanelSettled(srv, u, run', net', stray)
    BY <1>0, <1>7, <2>4 DEF PanelSettled, Acknowledged
  <2>. QED BY <1>0, <1>1, <1>7, <2>5, <2>6

\* Nothing is left of the action.
<1>8. ASSUME run # None, srv' = srv, stray' = stray, lost' = lost, rivals' = rivals, run' = None, net' = None,
             NEW u, ui' = u, PanelForm(u), u.sel = ui.sel,
             u.inspection = ui.inspection \/ u.inspection = None,
             Acknowledged(run, net, "execute") =>
               (u.inspection = None \/ ~u.inspection.intent)
      PROVE  DirectoryOK'
  <2>1. /\ DirNet(None, None) /\ PanelShown(srv, u, None, None)
    BY <1>0, <1>8 DEF DirNet, PanelShown, Acknowledged
  <2>2. /\ Directory!plan(u) # None => u.inspection # None /\ Directory!plan(u) = Directory!plan(ui)
        /\ Directory!plan(u) # None /\ ~u.inspection.intent => Directory!plan(u).state = "executed"
    BY <1>8 DEF Directory!plan
  <2>3. lost = 0 /\ rivals = 0 => PanelSettled(srv, u, None, None, stray)
    BY <1>0, <1>8, <2>2 DEF PanelSettled, Acknowledged
  <2>. QED BY <1>0, <1>1, <1>8, <2>1, <2>3
<1>9. CASE Directory!Previewed
  <2>1. /\ run # None /\ run.op = "preview" /\ net # None /\ net.answer # None
        /\ srv' = srv /\ stray' = stray /\ lost' = lost /\ rivals' = rivals
        /\ run' = None /\ net' = None
        /\ \/ ui' = ui
           \/ /\ net.answer.ok /\ run.mine /\ run.steady
              /\ ui' = [ui EXCEPT !.inspection = Directory!Inspect(net.answer.data), !.conflict = FALSE]
    BY <1>9
    DEF Directory!Previewed, Directory!Doing, Directory!Answered, Directory!Got, Directory!End,
        Directory!Stop, Directory!Hang, Directory!Here, Directory!owns
  <2>2. CASE ui' = ui
    BY <1>0, <1>8, <2>1, <2>2 DEF Acknowledged
  <2>3. CASE /\ net.answer.ok /\ run.mine /\ run.steady
             /\ ui' = [ui EXCEPT !.inspection = Directory!Inspect(net.answer.data), !.conflict = FALSE]
    <3>1. PICK i : i = Directory!Inspect(net.answer.data)
      OBVIOUS
    <3>2. PanelForm(ui') /\ ui'.inspection = i /\ ui'.sel = ui.sel
      BY <1>0, <2>3, <3>1 DEF PanelForm, Fields
    <3>3. DirNet(run', net')
      BY <2>1 DEF DirNet
    <3>. QED BY <1>7, <2>1, <2>3, <3>1, <3>2, <3>3
  <2>. QED BY <2>1, <2>2, <2>3
<1>10. CASE Directory!Executed
  <2>1. /\ run # None /\ run.op = "execute" /\ net # None /\ net.answer # None
        /\ srv' = srv /\ stray' = stray /\ lost' = lost /\ rivals' = rivals
        /\ \/ run' = None /\ net' = None /\ ui' = ui /\ ~(run.mine /\ run.steady)
           \/ run' = None /\ net' = None /\ ui' = ui /\ ~net.answer.ok
           \/ /\ run' = None /\ net' = None /\ ui' = [ui EXCEPT !.inspection = None, !.conflict = TRUE]
           \/ /\ net.answer.ok /\ run.mine /\ run.steady
              /\ run' = [run EXCEPT !.op = "members"] /\ Directory!Send([kind |-> "members"])
              /\ ui' = [ui EXCEPT !.inspection = Directory!Inspect(net.answer.data)]
    BY <1>10
    DEF Directory!Executed, Directory!Doing, Directory!Answered, Directory!Got, Directory!End,
        Directory!Then, Directory!Step, Directory!Stop, Directory!Hang, Directory!Here, Directory!owns
  <2>2. CASE run' = None /\ net' = None /\ ui' = ui /\ ~(run.mine /\ run.steady)
    BY <1>0, <1>8, <2>1, <2>2 DEF PanelShown
  <2>3. CASE run' = None /\ net' = None /\ ui' = ui /\ ~net.answer.ok
    BY <1>0, <1>8, <2>1, <2>3 DEF Acknowledged
  <2>4. CASE /\ run' = None /\ net' = None /\ ui' = [ui EXCEPT !.inspection = None, !.conflict = TRUE]
    <3>1. PanelForm(ui') /\ ui'.inspection = None /\ ui'.sel = ui.sel
      BY <1>0, <2>4 DEF PanelForm, Fields
    <3>. QED BY <1>8, <2>1, <2>4, <3>1
  <2>5. CASE /\ net.answer.ok /\ run.mine /\ run.steady
             /\ run' = [run EXCEPT !.op = "members"] /\ Directory!Send([kind |-> "members"])
             /\ ui' = [ui EXCEPT !.inspection = Directory!Inspect(net.answer.data)]
    <3>1. PICK i : i = Directory!Inspect(net.answer.data)
      OBVIOUS
    <3>2. PanelForm(ui') /\ ui'.inspection = i /\ ui'.sel = ui.sel
      BY <1>0, <2>5, <3>1 DEF PanelForm, Fields
    <3>3. Packet(net') /\ net'.cmd = [kind |-> "members"] /\ net'.answer = None
      BY <2>5, DirSent
    <3>4. DirRun(run)
      BY <1>0, <2>1 DEF DirNet
    <3>5. DirRun(run') /\ run'.op = "members" /\ run'.mine /\ run'.steady
      BY <2>5, <3>4 DEF DirRun, Fields
    <3>6. run' # None
      BY <3>5, SomeRecord DEF DirRun
    <3>7. DirNet(run', net') /\ Meant(srv, net'.cmd)
      BY <1>0, <3>3, <3>5, <3>6 DEF DirNet, DirOps, Meant
    <3>. QED BY <1>7, <2>1, <2>5, <3>1, <3>2, <3>3, <3>5, <3>7
  <2>. QED BY <2>1, <2>2, <2>3, <2>4, <2>5
<1>11. CASE Directory!MembersRead
  <2>1. /\ run # None /\ run.op = "members" /\ net # None /\ net.answer # None
        /\ srv' = srv /\ stray' = stray /\ lost' = lost /\ rivals' = rivals
        /\ run' = None /\ net' = None
        /\ ui' = Directory!Directory(ui, net.answer.data) \/ ui' = Directory!Reread(ui)
    BY <1>11
    DEF Directory!MembersRead, Directory!Doing, Directory!Answered, Directory!Got, Directory!End,
        Directory!Stop, Directory!Hang, Directory!Here
  <2>2. Retired(ui, ui')
    BY <1>0, <2>1, PanelRetired
  <2>3. DirNet(None, None) /\ PanelShown(srv, ui', None, None)
    BY <1>0, <2>2 DEF DirNet, PanelShown, Retired, Inspection, Acknowledged
  <2>4. lost = 0 /\ rivals = 0 => PanelSettled(srv, ui', None, None, stray)
    BY <1>0, <2>1, <2>2 DEF PanelSettled, Retired, Acknowledged
  <2>. QED BY <1>0, <1>1, <2>1, <2>2, <2>3, <2>4 DEF Retired
<1>12. CASE Directory!Revalidate
  <2>1. /\ srv' = srv /\ stray' = stray /\ lost' = lost /\ rivals' = rivals /\ net' = net
        /\ run' = IF run = None THEN None ELSE [run EXCEPT !.steady = FALSE]
        /\ ui' = Directory!Directory(ui, srv.active)
    BY <1>12
    DEF Directory!Revalidate, Directory!Refresh, Directory!Here, Directory!Moved, Directory!Seen
  <2>. QED BY <1>0, <1>2, <2>1, PanelRetired
<1>13. CASE Directory!Remount
  <2>. DEFINE d == Directory!Dropped(Directory!Writes)
  <2>1. /\ srv' = srv /\ stray' = stray \cup d /\ net' = None /\ run' = None /\ rivals' = rivals
        /\ IF d = {} THEN lost' = lost ELSE lost' = lost + 1
        /\ ui' = [active |-> srv.active, sel |-> Directory!Filled, inspection |-> None, conflict |-> FALSE]
    BY <1>13 DEF Directory!Remount, Directory!Reenter, Directory!Abandon, Directory!Blank
  <2>2. \A m \in d : Meant(srv, m) /\ m.kind \in Directory!Writes
    BY <1>0 DEF Directory!Dropped, Directory!Unanswered
  <2>. HIDE DEF d
  <2>3. PanelForm(ui') /\ ui'.inspection = None
    BY <2>1 DEF PanelForm, Fields
  <2>4. Directory!plan(ui') = None
    BY <2>3 DEF Directory!plan
  <2>5. lost' = 0 => lost = 0 /\ stray' = stray
    BY <1>0, <2>1
  <2>6. PanelShown(srv, ui', None, None)
    BY <2>3 DEF PanelShown, Acknowledged
  <2>7. lost' = 0 /\ rivals = 0 => PanelSettled(srv, ui', None, None, stray')
    BY <1>0, <2>4, <2>5 DEF PanelSettled, Acknowledged
  <2>8. DirNet(run, net)'
    BY <2>1 DEF DirNet
  <2>. QED BY <1>0, <2>1, <2>2, <2>3, <2>6, <2>7, <2>8 DEF DirectoryOK

\* The server moves on.
<1>14. ASSUME NEW s, srv' = s, DirRow(s), \A x : Known(srv, x) => Known(s, x), ui' = ui, run' = run,
              \A m \in stray' : (Meant(srv, m) /\ m.kind \in Directory!Writes),
              DirNet(run, net'), net' # None => Meant(srv, net'.cmd),
              PanelShown(s, ui, run, net'),
              lost' = 0 /\ rivals' = 0 => PanelSettled(s, ui, run, net', stray')
       PROVE  DirectoryOK'
  <2>1. DirNet(run, net)'
    BY <1>14 DEF DirNet
  <2>2. \A m : Meant(srv, m) => Meant(s, m)
    BY <1>14 DEF Meant
  <2>. QED BY <1>0, <1>14, <2>1, <2>2 DEF DirectoryOK
<1>15. ASSUME NEW s, \A x : Known(srv, x) => Known(s, x) PROVE PanelShown(s, ui, run, net)
  BY <1>0, <1>15 DEF PanelShown
<1>16. ASSUME NEW s, \A x : Known(srv, x) => Known(s, x), net # None, NEW a,
              net' = [net EXCEPT !.answer = a],
              (a.ok /\ net.cmd.kind \in {"preview", "execute"}) => a.data.sel = net.cmd.sel /\ Known(s, a.data)
       PROVE  /\ Packet(net') /\ net'.cmd = net.cmd /\ net'.answer = a
              /\ DirNet(run, net') /\ Meant(srv, net'.cmd) /\ PanelShown(s, ui, run, net')
  <2>1. Packet(net) /\ run # None /\ net.cmd.kind = run.op
    BY <1>0, <1>16, <1>a
  <2>2. Packet(net') /\ net'.cmd = net.cmd /\ net'.answer = a
    BY <1>16, <2>1 DEF Packet
  <2>3. DirNet(run, net') /\ Meant(srv, net'.cmd)
    BY <1>0, <1>16, <2>1, <2>2 DEF DirNet
  <2>4. PanelShown(s, ui, run, net)
    BY <1>15, <1>16
  <2>5. PanelShown(s, ui, run, net')
    BY <1>16, <2>1, <2>2, <2>4 DEF PanelShown, Acknowledged
  <2>. QED BY <2>2, <2>3, <2>5
<1>17. CASE Directory!Rival
  <2>1. net' = net /\ stray' = stray /\ ui' = ui /\ run' = run /\ rivals' = rivals + 1
    BY <1>17 DEF Directory!Rival, Directory!Others
  <2>2. rivals' # 0
    BY <1>0, <2>1
  <2>4. DirRow(srv') /\ \A x : Known(srv, x) => Known(srv', x)
    BY <1>0, <1>17, DirRivals
  <2>. QED BY <1>0, <1>14, <1>15, <2>1, <2>2, <2>4
<1>18. CASE Directory!Serve
  <2>1. PICK o \in Directory!Handle(srv, net.cmd) :
          /\ net # None /\ net.answer = None /\ stray' = stray /\ ui' = ui /\ run' = run
          /\ lost' = lost /\ rivals' = rivals /\ srv' = o.srv /\ net' = [net EXCEPT !.answer = o.a]
    BY <1>18 DEF Directory!Serve, Directory!ServeBy, Directory!Unanswered, Directory!Reply
  <2>2. net.cmd.kind \in {"preview", "execute", "members"} /\ run # None /\ net.cmd.kind = run.op
    BY <1>0, <2>1, <1>a
  <2>3. net.cmd.kind \in {"members", "boxes", "grants"} \cup Directory!Writes
    BY <2>2 DEF Directory!Writes
  <2>4. /\ DirRow(o.srv) /\ \A x : Known(srv, x) => Known(o.srv, x)
        /\ net.cmd.kind \in {"preview", "execute"} /\ o.a.ok
             => o.a.data \in o.srv.plans /\ o.a.data.sel = net.cmd.sel
        /\ \A q \in srv.plans : q \notin o.srv.plans =>
             q.state # "executed" /\ net.cmd.kind = "execute" /\ o.a.ok
    BY <1>0, <2>1, <2>3, DirRequest
  <2>5. /\ Packet(net') /\ net'.cmd = net.cmd /\ net'.answer = o.a
        /\ DirNet(run, net') /\ Meant(srv, net'.cmd) /\ PanelShown(o.srv, ui, run, net')
    BY <1>16, <2>1, <2>4 DEF Known
  <2>6. net'.answer.ok /\ net.cmd.kind = "execute" => net'.answer # None
    <3>1. PICK s, m : s = srv /\ m = net.cmd
      OBVIOUS
    <3>2. \A x : Directory!Yes(x) # None
      BY SomeAnswer DEF Directory!Yes, Yes
    <3>3. \A x, a : Directory!Out(x, a).a = a
      BY DEF Directory!Out
    <3>4. ~Directory!Conflict.ok
      BY DEF Directory!Conflict, Directory!No
    <3>5. net.cmd.kind = "execute" => (\E x : o.a = Directory!Yes(x)) \/ o.a = Directory!Conflict
      BY <2>1, <3>3 DEF Directory!Handle, Directory!ExecuteOffboarding
    <3>. QED BY <2>5, <3>2, <3>4, <3>5
  <2>7. lost = 0 /\ rivals = 0 => PanelSettled(o.srv, ui, run, net', stray)
    <3>. SUFFICES ASSUME lost = 0, rivals = 0 PROVE PanelSettled(o.srv, ui, run, net', stray)
      OBVIOUS
    <3>1. PanelSettled(srv, ui, run, net, stray)
      BY <1>0
    <3>2. Directory!plan(ui) # None => Directory!plan(ui) \in srv.plans
      BY <2>1, <3>1 DEF PanelSettled, Acknowledged
    <3>. QED
      BY <1>0, <2>2, <2>4, <2>5, <2>6, <3>1, <3>2, SomeAnswer DEF PanelSettled, Acknowledged
  <2>. QED BY <1>0, <1>14, <2>1, <2>4, <2>5, <2>7
<1>19. CASE Directory!Lose
  <2>1. PICK a :
        /\ net # None /\ ui' = ui /\ run' = run /\ lost' = lost + 1
        /\ srv' = srv \/ \E o \in Directory!Handle(srv, net.cmd) : srv' = o.srv
        /\ ~a.ok /\ net' = [net EXCEPT !.answer = a]
        /\ stray' = stray \/ (net.cmd.kind \in Directory!Writes /\ stray' = stray \cup {net.cmd})
    BY <1>19
    DEF Directory!Lose, Directory!LoseBy, Directory!Unanswered, Directory!Reply, Directory!No,
        Directory!Garbled
  <2>2. net.cmd.kind \in {"members", "boxes", "grants"} \cup Directory!Writes
    BY <1>0, <2>1, <1>a DEF Directory!Writes
  <2>3. /\ DirRow(srv') /\ \A x : Known(srv, x) => Known(srv', x)
    BY <1>0, <2>1, <2>2, DirRequest
  <2>4. DirNet(run, net') /\ Meant(srv, net'.cmd) /\ PanelShown(srv', ui, run, net')
    BY <1>16, <2>1, <2>3
  <2>5. lost' # 0
    BY <1>0, <2>1
  <2>6. \A m \in stray' : Meant(srv, m) /\ m.kind \in Directory!Writes
    BY <1>0, <2>1
  <2>. QED BY <1>0, <1>14, <2>1, <2>3, <2>4, <2>5, <2>6
<1>20. CASE Directory!ServeStray
  <2>1. PICK m \in stray : /\ net' = net /\ stray' = stray \ {m} /\ ui' = ui /\ run' = run
                           /\ lost' = lost /\ rivals' = rivals
                           /\ \E o \in Directory!Handle(srv, m) : srv' = o.srv
    BY <1>20 DEF Directory!ServeStray, Directory!StrayBy
  <2>2. /\ DirRow(srv') /\ \A x : Known(srv, x) => Known(srv', x)
    BY <1>0, <2>1, DirRequest DEF Directory!Writes
  <2>3. ~(lost = 0 /\ rivals = 0)
    BY <1>0, <2>1 DEF PanelSettled
  <2>. QED BY <1>0, <1>14, <1>15, <2>1, <2>2, <2>3
<1>21. ~(Directory!Created \/ Directory!refreshBoxes \/ Directory!GrantChanged \/ Directory!GrantsRead)
  BY <1>0
  DEF Directory!Created, Directory!refreshBoxes, Directory!GrantChanged, Directory!GrantsRead,
      Directory!Doing, DirNet, DirOps
<1>. QED
  BY <1>3, <1>4, <1>5, <1>6, <1>9, <1>10, <1>11, <1>12, <1>13, <1>17, <1>18, <1>19, <1>20, <1>21
  DEF Directory!Next

\* The form of a list: what it shows, and what is read and written.
Listing(s) == IF form = "create" THEN s.boxes ELSE s.grants
Listed(u) == IF form = "create" THEN u.boxes ELSE u.grants
Writing == IF form = "create" THEN "create" ELSE "grant"
Reading == IF form = "create" THEN "boxes" ELSE "grants"
ListForm(u) == IF form = "create" THEN MailboxForm(u) /\ u.retention \in Directory!Decimals
               ELSE TemplateGrantForm(u)

\* Whatever happens to a list, what it shows stays so.
LEMMA ListStep ==
  ASSUME NoneApart, form \in {"create", "grants"}, form' = form, Counted, DirectoryOK, Directory!Next
  PROVE  DirectoryOK'
<1>. DEFINE Now(s, u, r, n, str) == ListSettled(Listing(s), Listed(u), r, n, str, Writing, Reading)
<1>0. /\ DirRow(srv) /\ DirNet(run, net)
      /\ net # None => Meant(srv, net.cmd)
      /\ \A m \in stray : Meant(srv, m) /\ m.kind \in Directory!Writes
      /\ ListForm(ui)
      /\ lost = 0 /\ rivals = 0 => Now(srv, ui, run, net, stray)
      /\ lost \in Nat /\ rivals \in Nat
  BY DEF DirectoryOK, Counted, Listing, Listed, ListForm, Writing, Reading
<1>a. ASSUME NEW r, NEW n, DirNet(r, n), n # None
      PROVE  /\ Packet(n) /\ r # None /\ n.cmd.kind = r.op
             /\ (r.op = Writing /\ n.cmd.kind \in {"create", "grant"})
                  \/ (r.op = Reading /\ n.cmd.kind \in {"boxes", "grants"})
  BY <1>a DEF DirNet, DirOps, Writing, Reading
<1>b. Writing # Reading
  BY DEF Writing, Reading
<1>c. ASSUME DirRow(srv'), DirNet(run', net'), net' # None => Meant(srv', net'.cmd),
             \A m \in stray' : (Meant(srv', m) /\ m.kind \in Directory!Writes),
             ListForm(ui'),
             lost' = 0 /\ rivals' = 0 => Now(srv', ui', run', net', stray')
      PROVE  DirectoryOK'
  <2>1. DirNet(run, net)'
    BY <1>c DEF DirNet
  <2>2. DirRow(srv)' /\ form' \in {"create", "grants"}
    BY <1>c
  <2>3. form' = "create" => /\ MailboxForm(ui') /\ ui'.retention \in Directory!Decimals
                            /\ lost' = 0 /\ rivals' = 0 => ListSettled(srv'.boxes, ui'.boxes, run', net', stray', "create", "boxes")
    BY <1>c DEF Listing, Listed, ListForm, Writing, Reading
  <2>4. form' = "grants" => /\ TemplateGrantForm(ui')
                            /\ lost' = 0 /\ rivals' = 0 => ListSettled(srv'.grants, ui'.grants, run', net', stray', "grant", "grants")
    BY <1>c DEF Listing, Listed, ListForm, Writing, Reading
  <2>. QED BY <1>c, <2>1, <2>2, <2>3, <2>4 DEF DirectoryOK

\* The page moves on.
<1>1. ASSUME srv' = srv, stray' = stray, lost' = lost, rivals' = rivals,
             NEW u, ui' = u, ListForm(u), DirNet(run', net'), net' # None => Meant(srv, net'.cmd),
             lost = 0 /\ rivals = 0 => Now(srv, u, run', net', stray)
      PROVE  DirectoryOK'
  BY <1>0, <1>1, <1>c

\* The running action learns that something was typed or read.
<1>2. ASSUME run' = run \/ run' = (IF run = None THEN None ELSE [run EXCEPT !.mine = FALSE])
               \/ run' = (IF run = None THEN None ELSE [run EXCEPT !.steady = FALSE]),
             net' = net
      PROVE  /\ DirNet(run', net') /\ (run' = None <=> run = None)
             /\ run # None => run'.op = run.op
  <2>1. CASE run = None \/ run' = run
    BY <1>0, <1>2, <2>1
  <2>2. CASE run # None /\ run' # run
    <3>1. DirRun(run) /\ run.op \in DirOps(form)
      BY <1>0, <2>2 DEF DirNet
    <3>2. DirRun(run') /\ run'.op = run.op
      BY <1>2, <2>2, <3>1 DEF DirRun, Fields
    <3>3. run' # None
      BY <3>2, SomeRecord DEF DirRun
    <3>. QED BY <1>0, <1>2, <2>2, <3>1, <3>2, <3>3 DEF DirNet
  <2>. QED BY <2>1, <2>2
<1>3. CASE (form = "create" /\ Directory!editCreate) \/ (form = "grants" /\ Directory!selectGrantee) \/ Directory!Revalidate
  <2>1. /\ srv' = srv /\ stray' = stray /\ lost' = lost /\ rivals' = rivals /\ net' = net
        /\ run' = run \/ run' = (IF run = None THEN None ELSE [run EXCEPT !.mine = FALSE])
             \/ run' = (IF run = None THEN None ELSE [run EXCEPT !.steady = FALSE])
        /\ \/ /\ form = "create"
              /\ \/ \E v : ui' = [ui EXCEPT !.local = v]
                 \/ \E v : ui' = [ui EXCEPT !.kind = v]
                 \/ \E v \in Directory!Decimals : ui' = [ui EXCEPT !.retention = v]
                 \/ \E v : ui' = [ui EXCEPT !.owner = v]
                 \/ \E x, y : ui' = [ui EXCEPT !.active = x, !.owner = y]
           \/ /\ form = "grants"
              /\ \/ \E v : ui' = [ui EXCEPT !.grantee = v]
                 \/ \E v : ui' = [ui EXCEPT !.active = v]
                 \/ ui' = [ui EXCEPT !.grants = srv.grants]
    BY <1>3
    DEF Directory!editCreate, Directory!selectGrantee, Directory!Revalidate, Directory!Type,
        Directory!Look, Directory!Refresh, Directory!Here, Directory!Edited, Directory!Moved,
        Directory!Seen, Directory!retireOwner
  <2>2. ListForm(ui') /\ (Listed(ui') = Listed(ui) \/ Listed(ui') = Listing(srv))
    BY <1>0, <2>1 DEF ListForm, MailboxForm, TemplateGrantForm, Fields, Listed, Listing
  <2>3. /\ DirNet(run', net') /\ (run' = None <=> run = None)
        /\ run # None => run'.op = run.op
    BY <1>2, <2>1
  <2>4. lost = 0 /\ rivals = 0 => Now(srv, ui', run', net', stray)
    BY <1>0, <2>1, <2>2, <2>3 DEF ListSettled, Acknowledged
  <2>. QED BY <1>0, <1>1, <2>1, <2>2, <2>3, <2>4

\* A request sets out.
<1>4. ASSUME srv' = srv, stray' = stray, lost' = lost, rivals' = rivals,
             run = None \/ Acknowledged(run, net, Writing),
             NEW u, ui' = u, ListForm(u), NEW m, Directory!Send(m), Meant(srv, m),
             DirRun(run'), run'.op \in DirOps(form), m.kind = run'.op,
             run'.op = Writing => run = None /\ Listed(u) = Listed(ui)
      PROVE  DirectoryOK'
  <2>1. Packet(net') /\ net'.cmd = m /\ net'.answer = None
    BY <1>4, DirSent
  <2>2. run' # None
    BY <1>4, SomeRecord DEF DirRun
  <2>3. DirNet(run', net') /\ Meant(srv, net'.cmd)
    BY <1>4, <2>1, <2>2 DEF DirNet
  <2>4. lost = 0 /\ rivals = 0 => Now(srv, u, run', net', stray)
    BY <1>0, <1>4, <2>1, <2>2 DEF ListSettled, Acknowledged
  <2>. QED BY <1>1, <1>4, <2>3, <2>4
<1>5. CASE form = "create" /\ Directory!createMailbox
  <2>1. PICK x, m : /\ srv' = srv /\ stray' = stray /\ lost' = lost /\ rivals' = rivals /\ ui' = ui
                 /\ run = None /\ run' = Directory!Start("create", [draft |-> x]) /\ Directory!Send(m)
                 /\ Directory!validCreate(ui)
                 /\ m = [kind |-> "create", local |-> ui.local,
                         owner |-> IF Directory!personal(ui) THEN ui.owner ELSE "",
                         hours |-> IF Directory!personal(ui) THEN 0
                                   ELSE Directory!parseRetentionHours(ui.retention),
                         typed |-> IF Directory!personal(ui) THEN 0 ELSE ui.retention.digits]
    BY <1>5 DEF Directory!createMailbox, Directory!Write, Directory!Here, Directory!Idle
  <2>2. /\ m.kind = "create"
        /\ m.hours = IF Directory!personal(ui) THEN 0 ELSE Directory!parseRetentionHours(ui.retention)
        /\ m.typed = IF Directory!personal(ui) THEN 0 ELSE ui.retention.digits
    BY <2>1
  <2>3. ~Directory!personal(ui) => Directory!parseRetentionHours(ui.retention) # None
    BY <2>1 DEF Directory!validCreate
  <2>4. Meant(srv, m)
    BY <1>0, <1>5, <2>2, <2>3, RetentionExact, ConsoleBounds DEF Meant, ListForm
  <2>5. DirRun(run') /\ run'.op = "create"
    BY <2>1, DirStart
  <2>. QED BY <1>0, <1>4, <1>5, <2>1, <2>2, <2>4, <2>5 DEF DirOps
<1>6. CASE form = "create" /\ Directory!retryBoxes
  <2>1. PICK m : /\ srv' = srv /\ stray' = stray /\ lost' = lost /\ rivals' = rivals /\ ui' = ui
                 /\ run = None /\ run' = Directory!Start("boxes", <<>>) /\ Directory!Send(m)
                 /\ m = [kind |-> "boxes"]
    BY <1>6 DEF Directory!retryBoxes, Directory!Read, Directory!Here, Directory!Idle
  <2>2. DirRun(run') /\ run'.op = "boxes" /\ m.kind = "boxes" /\ Meant(srv, m)
    BY <2>1, DirStart DEF Meant
  <2>. QED BY <1>0, <1>4, <1>6, <2>1, <2>2 DEF DirOps, Writing
<1>7. CASE form = "grants" /\ Directory!changeGrant
  <2>a. /\ srv' = srv /\ stray' = stray /\ lost' = lost /\ rivals' = rivals /\ ui' = ui
        /\ run = None /\ run' = Directory!Start("grant", <<>>)
        /\ \E x, y : Directory!Send([kind |-> "grant", user |-> x, enabled |-> y])
    BY <1>7 DEF Directory!changeGrant, Directory!Write, Directory!Here, Directory!Idle
  <2>1. PICK m : Directory!Send(m) /\ \E x, y : m = [kind |-> "grant", user |-> x, enabled |-> y]
    BY <2>a
  <2>2. DirRun(run') /\ run'.op = "grant" /\ m.kind = "grant" /\ Meant(srv, m)
    BY <2>a, <2>1, DirStart DEF Meant
  <2>. QED BY <1>0, <1>4, <1>7, <2>a, <2>1, <2>2 DEF DirOps
<1>8. CASE Directory!Created \/ Directory!GrantChanged
  <2>1. /\ run # None /\ net # None /\ net.answer # None
        /\ run.op = Writing /\ srv' = srv /\ stray' = stray /\ lost' = lost /\ rivals' = rivals
        /\ \/ /\ net.answer.ok /\ run' = [run EXCEPT !.op = Reading]
              /\ Directory!Send([kind |-> Reading])
              /\ ui' = ui \/ (form = "create" /\ ui' = [ui EXCEPT !.local = ""])
           \/ run' = None /\ net' = None /\ ui' = ui /\ ~net.answer.ok
    BY <1>0, <1>8
    DEF Directory!Created, Directory!GrantChanged, Directory!GrantsAgain, Directory!Doing,
        Directory!Answered, Directory!Got, Directory!End, Directory!Then, Directory!Step,
        Directory!Stop, Directory!Hang, Directory!Here, DirNet, DirOps, Writing, Reading
  <2>2. CASE /\ net.answer.ok /\ run' = [run EXCEPT !.op = Reading]
             /\ Directory!Send([kind |-> Reading])
             /\ ui' = ui \/ (form = "create" /\ ui' = [ui EXCEPT !.local = ""])
    <3>1. ListForm(ui')
      BY <1>0, <2>2 DEF ListForm, MailboxForm, TemplateGrantForm, Fields
    <3>2. PICK m : m = [kind |-> Reading] /\ Directory!Send(m)
      BY <2>2
    <3>3. m.kind = Reading /\ Meant(srv, m)
      BY <3>2 DEF Meant, Reading
    <3>4. DirRun(run)
      BY <1>0, <2>1 DEF DirNet
    <3>5. DirRun(run') /\ run'.op = Reading
      BY <2>2, <3>4 DEF DirRun, Fields
    <3>6. Reading \in DirOps(form)
      BY DEF Reading, DirOps
    <3>. QED BY <1>4, <1>b, <2>1, <2>2, <3>1, <3>2, <3>3, <3>5, <3>6 DEF Acknowledged
  <2>3. CASE run' = None /\ net' = None /\ ui' = ui /\ ~net.answer.ok
    <3>1. DirNet(None, None)
      BY DEF DirNet
    <3>2. lost = 0 /\ rivals = 0 => Now(srv, ui, None, None, stray)
      BY <1>0, <2>1, <2>3 DEF ListSettled, Acknowledged
    <3>. QED BY <1>0, <1>1, <2>1, <2>3, <3>1, <3>2
  <2>. QED BY <2>1, <2>2, <2>3
<1>9. CASE Directory!refreshBoxes \/ Directory!GrantsRead
  <2>1. /\ run # None /\ net # None /\ net.answer # None
        /\ run.op = Reading /\ srv' = srv /\ stray' = stray /\ lost' = lost /\ rivals' = rivals
        /\ run' = None /\ net' = None
        /\ \/ /\ net.answer.ok
              /\ \/ form = "create" /\ ui' = [ui EXCEPT !.boxes = net.answer.data, !.error = FALSE]
                 \/ form = "grants" /\ ui' = [ui EXCEPT !.grants = net.answer.data]
           \/ /\ ~net.answer.ok
              /\ \/ form = "create" /\ ui' = [ui EXCEPT !.error = TRUE]
                 \/ form = "grants" /\ ui' = ui
    BY <1>0, <1>9
    DEF Directory!refreshBoxes, Directory!GrantsRead, Directory!Doing,
        Directory!Answered, Directory!Got, Directory!End,
        Directory!Stop, Directory!Hang, Directory!Here, DirNet, DirOps, Reading
  <2>2. ListForm(ui') /\ (net.answer.ok => Listed(ui') = net.answer.data)
    BY <1>0, <2>1 DEF ListForm, MailboxForm, TemplateGrantForm, Fields, Listed
  <2>3. DirNet(None, None)
    BY DEF DirNet
  <2>4. lost = 0 /\ rivals = 0 => Now(srv, ui', None, None, stray)
    BY <1>0, <2>1, <2>2 DEF ListSettled, Acknowledged
  <2>. QED BY <1>1, <2>1, <2>2, <2>3, <2>4
<1>10. CASE Directory!Remount
  <2>. DEFINE d == Directory!Dropped(Directory!Writes)
  <2>1. /\ srv' = srv /\ stray' = stray \cup d /\ net' = None /\ run' = None /\ rivals' = rivals
        /\ IF d = {} THEN lost' = lost ELSE lost' = lost + 1
        /\ ui' = Directory!Blank
    BY <1>10 DEF Directory!Remount, Directory!Reenter, Directory!Abandon
  <2>2. \A m \in d : Meant(srv, m) /\ m.kind \in Directory!Writes
    BY <1>0 DEF Directory!Dropped, Directory!Unanswered
  <2>. HIDE DEF d
  <2>3. \/ /\ form = "create"
           /\ ui' = [active |-> srv.active, local |-> "", kind |-> "shared", owner |-> "", error |-> FALSE,
                     boxes |-> srv.boxes, retention |-> [digits |-> 0, places |-> 0]]
        \/ form = "grants" /\ ui' = [active |-> srv.active, grants |-> srv.grants, grantee |-> ""]
    BY <2>1 DEF Directory!Blank
  <2>4. ListForm(ui') /\ Listed(ui') = Listing(srv)
    <3>1. PICK z : z = [digits |-> 0, places |-> 0]
      OBVIOUS
    <3>2. z \in Directory!Decimals
      BY <3>1 DEF Directory!Decimals
    <3>3. CASE /\ form = "create"
               /\ ui' = [active |-> srv.active, local |-> "", kind |-> "shared", owner |-> "", error |-> FALSE,
                         boxes |-> srv.boxes, retention |-> z]
      BY <3>2, <3>3 DEF ListForm, MailboxForm, Fields, Listed, Listing
    <3>4. CASE form = "grants" /\ ui' = [active |-> srv.active, grants |-> srv.grants, grantee |-> ""]
      BY <3>4 DEF ListForm, TemplateGrantForm, Fields, Listed, Listing
    <3>. QED BY <2>3, <3>1, <3>3, <3>4
  <2>5. lost' = 0 => lost = 0 /\ stray' = stray
    BY <1>0, <2>1
  <2>6. lost' = 0 /\ rivals = 0 => Now(srv, ui', None, None, stray')
    BY <1>0, <2>4, <2>5 DEF ListSettled, Acknowledged
  <2>7. DirNet(None, None)
    BY DEF DirNet
  <2>. QED BY <1>0, <1>c, <2>1, <2>2, <2>4, <2>6, <2>7

\* The server moves on.
<1>11. ASSUME NEW s, srv' = s, DirRow(s), \A x : Known(srv, x) => Known(s, x), ui' = ui, run' = run,
              \A m \in stray' : (Meant(srv, m) /\ m.kind \in Directory!Writes),
              net' = net \/ (net # None /\ \E a : net' = [net EXCEPT !.answer = a]),
              lost' = 0 /\ rivals' = 0 => Now(s, ui, run, net', stray')
       PROVE  DirectoryOK'
  <2>1. net # None /\ net' # net => Packet(net') /\ net'.cmd = net.cmd
    BY <1>0, <1>a, <1>11 DEF Packet
  <2>2. DirNet(run, net')
    BY <1>0, <1>11, <2>1 DEF DirNet
  <2>3. \A m : Meant(srv, m) => Meant(s, m)
    BY <1>11 DEF Meant
  <2>4. net' # None => Meant(s, net'.cmd)
    BY <1>0, <1>11, <2>1, <2>3
  <2>. QED BY <1>0, <1>11, <1>c, <2>2, <2>3, <2>4
<1>12. CASE Directory!Rival
  <2>1. net' = net /\ stray' = stray /\ ui' = ui /\ run' = run /\ rivals' = rivals + 1
    BY <1>12 DEF Directory!Rival, Directory!Others
  <2>2. rivals' # 0
    BY <1>0, <2>1
  <2>3. DirRow(srv') /\ \A x : Known(srv, x) => Known(srv', x)
    BY <1>0, <1>12, DirRivals
  <2>. QED BY <1>0, <1>11, <2>1, <2>2, <2>3
<1>13. CASE Directory!Serve
  <2>1. PICK o \in Directory!Handle(srv, net.cmd) :
          /\ net # None /\ net.answer = None /\ stray' = stray /\ ui' = ui /\ run' = run
          /\ lost' = lost /\ rivals' = rivals /\ srv' = o.srv /\ net' = [net EXCEPT !.answer = o.a]
    BY <1>13 DEF Directory!Serve, Directory!ServeBy, Directory!Unanswered, Directory!Reply
  <2>2. /\ Packet(net) /\ run # None /\ net.cmd.kind = run.op
        /\ (run.op = Writing /\ net.cmd.kind \in {"create", "grant"})
             \/ (run.op = Reading /\ net.cmd.kind \in {"boxes", "grants"})
    BY <1>0, <2>1, <1>a
  <2>3. net.cmd.kind \in {"members", "boxes", "grants"} \cup Directory!Writes
    BY <2>2 DEF Directory!Writes
  <2>4. /\ DirRow(o.srv) /\ \A x : Known(srv, x) => Known(o.srv, x)
        /\ run.op = Writing /\ ~o.a.ok => Listing(o.srv) = Listing(srv)
        /\ run.op = Reading => o.srv = srv /\ o.a.ok /\ o.a.data = Listing(srv)
    BY <1>0, <2>1, <2>2, <2>3, DirRequest DEF Listing, Reading, Writing, Directory!Writes
  <2>5. Packet(net') /\ net'.answer = o.a
    BY <2>1, <2>2 DEF Packet
  <2>6. o.a.ok => o.a # None
    <3>1. o.a.ok => \E x : o.a = Directory!Yes(x)
      <4>1. \A x, a : Directory!Out(x, a).a = a
        BY DEF Directory!Out
      <4>2. ~Directory!No.ok /\ ~Directory!Conflict.ok
        BY DEF Directory!No, Directory!Conflict
      <4>3. CASE net.cmd.kind = "create"
        <5>1. o = Directory!CreateWorkMailbox(srv, net.cmd)
          BY <2>1, <4>3 DEF Directory!Handle
        <5>2. \/ o = Directory!Out(srv, Directory!No)
              \/ o = Directory!Out(srv, Directory!Conflict)
              \/ \E s : o = Directory!Out(s, Directory!Yes(None))
          BY <5>1 DEF Directory!CreateWorkMailbox
        <5>. QED BY <4>1, <4>2, <5>2
      <4>4. CASE net.cmd.kind = "grant"
        BY <2>1, <4>1, <4>2, <4>4 DEF Directory!Handle, Directory!SetTemplateGrant
      <4>5. CASE net.cmd.kind = "boxes"
        BY <2>1, <4>1, <4>5 DEF Directory!Handle
      <4>6. CASE net.cmd.kind = "grants"
        BY <2>1, <4>1, <4>6 DEF Directory!Handle
      <4>. QED BY <2>2, <4>3, <4>4, <4>5, <4>6
    <3>. QED BY <3>1, SomeAnswer DEF Directory!Yes, Yes
  <2>7. lost = 0 /\ rivals = 0 => Now(o.srv, ui, run, net', stray)
    <3>. SUFFICES ASSUME lost = 0, rivals = 0 PROVE Now(o.srv, ui, run, net', stray)
      OBVIOUS
    <3>1. Now(srv, ui, run, net, stray)
      BY <1>0
    <3>2. net' # None
      BY <2>5, SomeAnswer
    <3>. QED BY <1>b, <2>1, <2>2, <2>4, <2>5, <2>6, <3>1, <3>2 DEF ListSettled, Acknowledged
  <2>. QED BY <1>0, <1>11, <2>1, <2>4, <2>7
<1>14. CASE Directory!Lose
  <2>1. /\ net # None /\ ui' = ui /\ run' = run /\ lost' = lost + 1
        /\ srv' = srv \/ \E o \in Directory!Handle(srv, net.cmd) : srv' = o.srv
        /\ \E a : net' = [net EXCEPT !.answer = a]
        /\ stray' = stray \/ (net.cmd.kind \in Directory!Writes /\ stray' = stray \cup {net.cmd})
    BY <1>14 DEF Directory!Lose, Directory!LoseBy, Directory!Unanswered, Directory!Reply
  <2>2. net.cmd.kind \in {"members", "boxes", "grants"} \cup Directory!Writes
    BY <1>0, <2>1, <1>a DEF Directory!Writes
  <2>3. /\ DirRow(srv') /\ \A x : Known(srv, x) => Known(srv', x)
    BY <1>0, <2>1, <2>2, DirRequest
  <2>4. lost' # 0
    BY <1>0, <2>1
  <2>5. \A m \in stray' : Meant(srv, m) /\ m.kind \in Directory!Writes
    BY <1>0, <2>1
  <2>. QED BY <1>0, <1>11, <2>1, <2>3, <2>4, <2>5
<1>15. CASE Directory!ServeStray
  <2>1. PICK m \in stray : /\ net' = net /\ stray' = stray \ {m} /\ ui' = ui /\ run' = run
                           /\ lost' = lost /\ rivals' = rivals
                           /\ \E o \in Directory!Handle(srv, m) : srv' = o.srv
    BY <1>15 DEF Directory!ServeStray, Directory!StrayBy
  <2>2. /\ DirRow(srv') /\ \A x : Known(srv, x) => Known(srv', x)
    BY <1>0, <2>1, DirRequest DEF Directory!Writes
  <2>3. ~(lost = 0 /\ rivals = 0)
    BY <1>0, <2>1 DEF ListSettled
  <2>. QED BY <1>0, <1>11, <2>1, <2>2, <2>3
<1>16. ~(Directory!Previewed \/ Directory!Executed \/ Directory!MembersRead)
  BY <1>0 DEF Directory!Previewed, Directory!Executed, Directory!MembersRead, Directory!Doing, DirNet, DirOps
<1>. QED
  BY <1>3, <1>5, <1>6, <1>7, <1>8, <1>9, <1>10, <1>12, <1>13, <1>14, <1>15, <1>16
  DEF Directory!Next

\* Whatever happens, what the forms of the directory hold stays so.
LEMMA DirectoryStep ==
  ASSUME NoneApart, form \in Directory!Forms, Counted, DirectoryOK, Directory!Next
  PROVE  DirectoryOK'
<1>1. form' = form
  BY DirCounts
<1>. QED BY <1>1, PanelStep, ListStep DEF Directory!Forms

\* The forms start from what the server has.
LEMMA DirectoryBegins == ASSUME Directory!Init PROVE DirectoryOK /\ Counted
<1>1. /\ run = None /\ net = None /\ stray = {} /\ Counted /\ ui = Directory!Blank
      /\ srv = [active |-> Directory!People, assets |-> 0, plans |-> {}, next |-> 1, boxes |-> {}, grants |-> {"z"}]
      /\ form \in Directory!Forms
  BY DEF Directory!Init, Directory!Quiet, Counted
<1>2. DirRow(srv) /\ DirNet(run, net)
  BY <1>1 DEF DirRow, DirNet, Fields
<1>3. CASE form = "offboard"
  <2>1. ui = [active |-> srv.active, sel |-> Directory!Filled, inspection |-> None, conflict |-> FALSE]
    BY <1>1, <1>3 DEF Directory!Blank
  <2>2. PanelForm(ui) /\ ui.inspection = None
    BY <2>1 DEF PanelForm, Fields
  <2>3. Directory!plan(ui) = None
    BY <2>2 DEF Directory!plan
  <2>. QED
    BY <1>1, <1>2, <1>3, <2>2, <2>3 DEF DirectoryOK, PanelShown, PanelSettled, Acknowledged
<1>4. CASE form = "create"
  <2>1. PICK z : z = [digits |-> 0, places |-> 0]
    OBVIOUS
  <2>2. z \in Directory!Decimals
    BY <2>1 DEF Directory!Decimals
  <2>3. ui = [active |-> srv.active, local |-> "", kind |-> "shared", owner |-> "", error |-> FALSE,
              boxes |-> srv.boxes, retention |-> z]
    BY <1>1, <1>4, <2>1 DEF Directory!Blank
  <2>4. MailboxForm(ui) /\ ui.retention \in Directory!Decimals /\ ui.boxes = srv.boxes
    BY <2>2, <2>3 DEF MailboxForm, Fields
  <2>. QED BY <1>1, <1>2, <1>4, <2>4 DEF DirectoryOK, ListSettled, Acknowledged
<1>5. CASE form = "grants"
  <2>1. ui = [active |-> srv.active, grants |-> srv.grants, grantee |-> ""]
    BY <1>1, <1>5 DEF Directory!Blank
  <2>2. TemplateGrantForm(ui) /\ ui.grants = srv.grants
    BY <2>1 DEF TemplateGrantForm, Fields
  <2>. QED BY <1>1, <1>2, <1>5, <2>2 DEF DirectoryOK, ListSettled, Acknowledged
<1>. QED BY <1>1, <1>3, <1>4, <1>5 DEF Directory!Forms

\* An idle form shows what the server has.
LEMMA DirectoryMeans ==
  ASSUME DirectoryOK, form \in Directory!Forms PROVE Directory!Settled
<1>. SUFFICES ASSUME run = None, lost = 0, rivals = 0
              PROVE  CASE form = "offboard" -> Directory!plan(ui) # None => Directory!plan(ui) \in srv.plans
                       [] form = "create" -> ui.boxes = srv.boxes
                       [] form = "grants" -> ui.grants = srv.grants
  BY DEF Directory!Settled, Directory!Idle
<1>1. CASE form = "offboard"
  BY <1>1 DEF DirectoryOK, PanelSettled, Acknowledged
<1>2. CASE form = "create"
  BY <1>2 DEF DirectoryOK, ListSettled, Acknowledged
<1>3. CASE form = "grants"
  BY <1>3 DEF DirectoryOK, ListSettled, Acknowledged
<1>. QED BY <1>1, <1>2, <1>3 DEF Directory!Forms

\* A plan is executed as it was selected, over the assets of its preview, and a
\* mailbox keeps its mail forever only when zero was typed.
LEMMA DirectoryConfirmed ==
  ASSUME NoneApart, DirectoryOK, form \in Directory!Forms, rivals \in Nat, Directory!Next
  PROVE  Directory!AsConfirmed
<1>. SUFFICES ASSUME NEW m \in Directory!InFlight, m \notin Directory!InFlight', rivals' = rivals,
                     srv' # srv
              PROVE  /\ m.kind = "execute" => /\ Directory!Plan(srv, m.id).sel = m.sel
                                              /\ Directory!Plan(srv, m.id).print = srv.assets
                     /\ m.kind = "create" => (m.hours = 0 <=> m.typed = 0)
  BY DEF Directory!AsConfirmed
<1>1. m \in stray \/ (m = net.cmd /\ net # None)
  BY DEF Directory!InFlight, Directory!Dropped, Directory!Unanswered
<1>2. Meant(srv, m) /\ m.kind \in Directory!Writes /\ DirRow(srv)
  BY <1>1 DEF DirectoryOK, Directory!InFlight, Directory!Dropped, Directory!Unanswered
<1>3. ASSUME NEW o \in Directory!Handle(srv, m), srv' = o.srv
      PROVE  m.kind = "execute" => /\ Directory!Plan(srv, m.id).sel = m.sel
                                   /\ Directory!Plan(srv, m.id).print = srv.assets
  BY <1>2, <1>3, DirRequest
<1>4. m.kind = "create" => (m.hours = 0 <=> m.typed = 0)
  BY <1>2 DEF Meant
<1>5. CASE Directory!Rival
  BY <1>5 DEF Directory!Rival, Directory!Others
<1>6. CASE Directory!Serve \/ Directory!Lose
  <2>1. /\ stray \subseteq stray'
        /\ \E o \in Directory!Handle(srv, net.cmd) : srv' = o.srv
    BY <1>6 DEF Directory!Serve, Directory!ServeBy, Directory!Lose, Directory!LoseBy
  <2>2. m = net.cmd
    BY <1>1, <2>1 DEF Directory!InFlight
  <2>. QED BY <1>3, <1>4, <2>1, <2>2
<1>7. CASE Directory!ServeStray
  <2>1. PICK n \in stray : /\ stray' = stray \ {n} /\ net' = net
                           /\ \E o \in Directory!Handle(srv, n) : srv' = o.srv
    BY <1>7 DEF Directory!ServeStray, Directory!StrayBy
  <2>2. m = n
    BY <2>1 DEF Directory!InFlight, Directory!Dropped, Directory!Unanswered
  <2>. QED BY <1>3, <1>4, <2>1, <2>2
<1>. QED
  BY <1>5, <1>6, <1>7
  DEF Directory!Next, Directory!select, Directory!previewPlan, Directory!revise,
     Directory!executePlan, Directory!editCreate, Directory!createMailbox, Directory!retryBoxes,
     Directory!selectGrantee, Directory!changeGrant, Directory!Previewed, Directory!Executed,
     Directory!MembersRead, Directory!Created, Directory!refreshBoxes, Directory!GrantChanged,
     Directory!GrantsAgain, Directory!GrantsRead, Directory!Revalidate, Directory!Remount,
     Directory!Type, Directory!Look, Directory!Read, Directory!Write, Directory!End, Directory!Then,
     Directory!Refresh, Directory!Reenter, Directory!Abandon, Directory!Here

\* The address that was typed leaves the form only with the mailbox.
LEMMA DirectoryTyped ==
  ASSUME DirectoryOK, form \in Directory!Forms, moves \in Nat, Directory!Next
  PROVE  Directory!TypedKept
<1>. SUFFICES ASSUME Directory!Typed # None, Directory!Typed' # Directory!Typed, moves' = moves
              PROVE  run # None /\ run.mine /\ net # None /\ net.answer # None /\ net.answer.ok
  BY DEF Directory!TypedKept, Directory!Answered, Directory!Got
<1>1. form = "create" /\ MailboxForm(ui)
  BY DEF Directory!Typed, DirectoryOK
<1>2. ASSUME form' = form, ui'.local = ui.local PROVE FALSE
  BY <1>2 DEF Directory!Typed
<1>3. moves' # moves + 1
  OBVIOUS
<1>4. CASE Directory!Created
  <2>1. /\ run # None /\ net # None /\ net.answer # None /\ form' = form
        /\ ui' = ui \/ (net.answer.ok /\ run.mine)
    BY <1>4
    DEF Directory!Created, Directory!Doing, Directory!Answered, Directory!Got, Directory!Then,
        Directory!End, Directory!Here
  <2>. QED BY <1>2, <2>1
<1>5. CASE Directory!refreshBoxes \/ Directory!Revalidate
  <2>1. /\ form' = form
        /\ \/ ui' = [ui EXCEPT !.boxes = net.answer.data, !.error = FALSE]
           \/ ui' = [ui EXCEPT !.error = TRUE]
           \/ \E x, y : ui' = [ui EXCEPT !.active = x, !.owner = y]
    <3>1. CASE Directory!refreshBoxes
      BY <3>1 DEF Directory!refreshBoxes, Directory!End, Directory!Here, Directory!Got
    <3>2. CASE Directory!Revalidate
      <4>1. form' = form /\ ui' = Directory!Seen(ui, srv.active)
        BY <1>1, <3>2 DEF Directory!Revalidate, Directory!Refresh, Directory!Here
      <4>2. ui' = Directory!retireOwner(ui, srv.active)
        BY <1>1, <4>1 DEF Directory!Seen
      <4>3. \E x, y : ui' = [ui EXCEPT !.active = x, !.owner = y]
        BY <4>2 DEF Directory!retireOwner
      <4>. QED BY <4>1, <4>3
    <3>. QED BY <1>5, <3>1, <3>2
  <2>. QED BY <1>1, <1>2, <2>1 DEF MailboxForm, Fields
<1>6. ~(Directory!Previewed \/ Directory!Executed \/ Directory!MembersRead \/ Directory!GrantChanged \/ Directory!GrantsRead)
  BY <1>1
  DEF Directory!Previewed, Directory!Executed, Directory!MembersRead, Directory!GrantChanged,
      Directory!GrantsRead, Directory!Doing, DirectoryOK, DirNet, DirOps
<1>7. CASE Directory!createMailbox \/ Directory!Rival \/ Directory!Serve \/ Directory!Lose \/ Directory!ServeStray
  <2>1. form' = form /\ ui' = ui
    BY <1>7
    DEF Directory!createMailbox, Directory!Rival, Directory!Serve, Directory!Lose,
        Directory!ServeStray, Directory!Write, Directory!Others, Directory!ServeBy, Directory!LoseBy,
        Directory!StrayBy, Directory!Here
  <2>. QED BY <1>2, <2>1
<1>. QED
  BY <1>1, <1>3, <1>4, <1>5, <1>6, <1>7
  DEF Directory!Next, Directory!editCreate, Directory!retryBoxes, Directory!Remount,
     Directory!Type, Directory!Read, Directory!Reenter, Directory!Move

-----------------------------------------------------------------------------
(* The platform page.                                                      *)

PlatformForm(u) == Fields(u, {"data", "edits", "failed"})

\* A patch changes only what was edited.
Patch(m) == /\ m.kind = "patch" /\ DOMAIN m.changed \subseteq m.edited
            /\ m.edited \subseteq Platform!Keys
PlatformSettingsOK ==
  /\ Fields(srv, Platform!Keys) /\ PlatformForm(ui) /\ DOMAIN ui.edits \subseteq Platform!Keys
  /\ net # None => Packet(net) /\ (net.cmd.kind = "read" \/ Patch(net.cmd))
  /\ \A m \in stray : Patch(m)

PolicyRow(s) == Fields(s, {"accept", "domains"}) /\ s.domains \in {{}, {"d"}}
PolicyNet(n) ==
  n # None => Packet(n) /\ (n.cmd.kind = "read" \/ (n.cmd.kind = "policy" /\ PolicyRow(n.cmd.policy)))
PolicySave(r, n) ==
  /\ Fields(r, {"sub", "form", "op", "mine", "steady"}) /\ r.op = "save"
  /\ n # None => n.cmd.kind = "policy" /\ n.cmd.policy = Platform!payload(r.form)
PolicyRead(r, n) ==
  /\ Fields(r, {"sub", "op", "mine", "steady"}) \/ Fields(r, {"sub", "form", "op", "mine", "steady"})
  /\ r.op = "read"
  /\ n # None => n.cmd.kind = "read"

\* With no answer lost and nobody else at work the form shows the policy, unless
\* the save that has changed it is still to be read.
Saved(s, r, n) ==
  r # None /\ r.op = "save" /\ n # None /\ n.answer = Platform!Yes(None) /\ s = Platform!payload(r.form)
ShowsPolicy(s, u, r, n) ==
  /\ Platform!payload(u.data) = s \/ Saved(s, r, n)
  /\ Acknowledged(r, n, "save") => s = Platform!payload(r.form)
  /\ Acknowledged(r, n, "read") => s = Platform!payload(n.answer.data)
Policies(r, n, u) ==
  r # None => /\ PolicySave(r, n) \/ PolicyRead(r, n)
              /\ r.op = "save" => DOMAIN u.edits \subseteq r.sub
PolicyOK ==
  /\ PolicyRow(srv) /\ PlatformForm(ui) /\ PolicyNet(net)
  /\ Policies(run, net, ui)
  /\ net # None => run # None
  /\ \A m \in stray : m.kind = "policy" /\ PolicyRow(m.policy)
  /\ lost = 0 /\ rivals = 0 => stray = {} /\ ShowsPolicy(srv, ui, run, net)

PlatformOK == (form = "settings" => PlatformSettingsOK) /\ (form = "policy" => PolicyOK)

\* The page keeps count, and does not change its form.
LEMMA PlatformCounts ==
  ASSUME Counted, Platform!Next PROVE Counted' /\ form' = form
<1>1. /\ form' = form /\ moves' \in {moves, moves + 1} /\ rivals' \in {rivals, rivals + 1}
      /\ lost' \in {lost, lost + 1}
  BY DEF Platform!Next, Platform!changeSetting, Platform!toggleAccept, Platform!editDomains,
     Platform!reload, Platform!saveSettings, Platform!SettingsSaved, Platform!savePolicy,
     Platform!PolicySaved, Platform!ReadBack, Platform!Revalidate, Platform!Remount,
     Platform!Rival, Platform!Serve, Platform!Lose, Platform!ServeStray,
     Platform!Edit, Platform!Read, Platform!Write, Platform!End, Platform!Then, Platform!Refresh,
     Platform!RefreshFails, Platform!Reenter, Platform!Abandon, Platform!Others, Platform!ServeBy,
     Platform!LoseBy, Platform!StrayBy, Platform!Here, Platform!Move, Platform!Call
<1>. QED BY <1>1 DEF Counted

\* A request that sets out.
LEMMA PlatformSent ==
  ASSUME NEW m, Platform!Send(m)
  PROVE  Packet(net') /\ net'.cmd = m /\ net'.answer = None
<1>1. net' = [cmd |-> m, answer |-> None]
  BY DEF Platform!Send
<1>. QED BY <1>1 DEF Packet

\* What a request of the settings page changes.
LEMMA PatchRequest ==
  ASSUME NEW s, Fields(s, Platform!Keys), form = "settings", NEW m, m.kind = "read" \/ Patch(m),
         NEW o \in Platform!Handle(s, m)
  PROVE  /\ Fields(o.srv, Platform!Keys)
         /\ \A k \in Platform!Keys : o.srv[k] # s[k] => Patch(m) /\ k \in m.edited
<1>1. CASE m.kind = "read"
  BY <1>1 DEF Platform!Handle, Platform!Out
<1>2. CASE Patch(m)
  <2>1. \/ o.srv = Platform!Over(m.changed, s) \/ o.srv = s
        \/ "a" \in DOMAIN m.changed /\ o.srv = [s EXCEPT !.a = m.changed["a"]]
    BY <1>2 DEF Platform!Handle, Platform!BulkUpdateSettings, Platform!Out, Patch
  <2>2. DOMAIN s = Platform!Keys /\ DOMAIN m.changed \subseteq m.edited
        /\ DOMAIN m.changed \subseteq Platform!Keys
    BY <1>2 DEF Patch, Fields
  <2>3. CASE o.srv = Platform!Over(m.changed, s)
    <3>1. o.srv = [k \in Platform!Keys |-> IF k \in DOMAIN m.changed THEN m.changed[k] ELSE s[k]]
      BY <2>2, <2>3 DEF Platform!Over
    <3>. QED BY <1>2, <2>2, <3>1 DEF Fields
  <2>4. CASE "a" \in DOMAIN m.changed /\ o.srv = [s EXCEPT !.a = m.changed["a"]]
    BY <1>2, <2>2, <2>4 DEF Fields
  <2>. QED BY <1>2, <2>1, <2>3, <2>4
<1>. QED BY <1>1, <1>2

\* A patch changes only what was edited, whatever else happens.
LEMMA PlatformSettingsStep ==
  ASSUME form = "settings", PlatformSettingsOK, Platform!Next
  PROVE  PlatformSettingsOK'
<1>0. /\ Fields(srv, Platform!Keys) /\ PlatformForm(ui) /\ DOMAIN ui.edits \subseteq Platform!Keys
      /\ net # None => Packet(net) /\ (net.cmd.kind = "read" \/ Patch(net.cmd))
      /\ \A m \in stray : Patch(m)
  BY DEF PlatformSettingsOK
<1>1. ASSUME srv' = srv, stray' = stray \/ stray' = stray \cup Platform!Dropped(Platform!Writes),
             NEW u, ui' = u, PlatformForm(u), DOMAIN u.edits \subseteq Platform!Keys,
             net' = net \/ net' = None \/ \E m : Platform!Send(m) /\ (m.kind = "read" \/ Patch(m))
      PROVE  PlatformSettingsOK'
  <2>1. net' # None => Packet(net') /\ (net'.cmd.kind = "read" \/ Patch(net'.cmd))
    BY <1>0, <1>1, PlatformSent
  <2>2. \A m \in Platform!Dropped(Platform!Writes) : Patch(m)
    BY <1>0 DEF Platform!Dropped, Platform!Unanswered, Platform!Writes
  <2>. QED BY <1>0, <1>1, <2>1, <2>2 DEF PlatformSettingsOK
<1>2. CASE Platform!changeSetting
  <2>1. /\ srv' = srv /\ stray' = stray /\ net' = net
        /\ \E k \in Platform!Keys : \E v, e :
             /\ e = Platform!Without(ui.edits, {k}) \/ e = Platform!With(ui.edits, k, v)
             /\ ui' = [ui EXCEPT !.edits = e]
    BY <1>2 DEF Platform!changeSetting, Platform!Edit, Platform!Here
  <2>2. PICK k \in Platform!Keys : \E v, e :
          /\ e = Platform!Without(ui.edits, {k}) \/ e = Platform!With(ui.edits, k, v)
          /\ ui' = [ui EXCEPT !.edits = e]
    BY <2>1
  <2>a. PICK v, e : /\ e = Platform!Without(ui.edits, {k}) \/ e = Platform!With(ui.edits, k, v)
                    /\ ui' = [ui EXCEPT !.edits = e]
    BY <2>2
  <2>3. DOMAIN e \subseteq Platform!Keys
    BY <1>0, <2>a DEF Platform!With, Platform!Without
  <2>4. PlatformForm(ui') /\ ui'.edits = e
    BY <1>0, <2>a DEF PlatformForm, Fields
  <2>. QED BY <1>0, <1>1, <2>1, <2>3, <2>4
<1>3. CASE Platform!reload
  <2>1. srv' = srv /\ stray' = stray /\ ui' = ui /\ Platform!Send([kind |-> "read"])
    BY <1>3 DEF Platform!reload, Platform!Read, Platform!Here
  <2>2. \E m : Platform!Send(m) /\ m.kind = "read"
    BY <2>1
  <2>. QED BY <1>0, <1>1, <2>1, <2>2
<1>4. CASE Platform!saveSettings
  <2>. DEFINE m == [kind |-> "patch", changed |-> Platform!changed(ui), edited |-> DOMAIN ui.edits]
  <2>1. srv' = srv /\ stray' = stray /\ ui' = ui /\ Platform!Send(m)
    BY <1>4 DEF Platform!saveSettings, Platform!Write, Platform!Here
  <2>2. Patch(m)
    BY <1>0 DEF Patch, Platform!changed
  <2>. HIDE DEF m
  <2>. QED BY <1>0, <1>1, <2>1, <2>2
<1>5. CASE Platform!SettingsSaved
  <2>1. /\ srv' = srv /\ stray' = stray
        /\ net' = None \/ Platform!Send([kind |-> "read"])
        /\ \/ ui' = ui
           \/ ui' = Platform!withoutSubmitted([ui EXCEPT !.data = net.answer.data], run)
    BY <1>5
    DEF Platform!SettingsSaved, Platform!Then, Platform!End, Platform!Hang, Platform!Here,
        Platform!Got
  <2>2. net' = None \/ \E m : Platform!Send(m) /\ m.kind = "read"
    BY <2>1
  <2>3. PlatformForm(ui') /\ DOMAIN ui'.edits \subseteq Platform!Keys
    <3>1. PICK w : w = [ui EXCEPT !.data = net.answer.data]
      OBVIOUS
    <3>2. PlatformForm(w) /\ w.edits = ui.edits
      BY <1>0, <3>1 DEF PlatformForm, Fields
    <3>3. CASE ui' = Platform!withoutSubmitted(w, run)
      <4>1. ui' = [w EXCEPT !.edits = Platform!Without(w.edits, run.sub)]
        BY <3>3 DEF Platform!withoutSubmitted
      <4>2. PlatformForm(ui') /\ ui'.edits = Platform!Without(w.edits, run.sub)
        BY <3>2, <4>1 DEF PlatformForm, Fields
      <4>. QED BY <1>0, <3>2, <4>2 DEF Platform!Without
    <3>. QED BY <1>0, <2>1, <3>1, <3>3
  <2>. QED BY <1>0, <1>1, <2>1, <2>2, <2>3
<1>6. CASE Platform!ReadBack
  <2>1. /\ srv' = srv /\ stray' = stray /\ net' = None
        /\ \/ \E d : ui' = [ui EXCEPT !.data = d, !.failed = FALSE]
           \/ ui' = [ui EXCEPT !.failed = TRUE]
    BY <1>6 DEF Platform!ReadBack, Platform!End, Platform!Hang, Platform!Here
  <2>2. PlatformForm(ui') /\ ui'.edits = ui.edits
    BY <1>0, <2>1 DEF PlatformForm, Fields
  <2>. QED BY <1>0, <1>1, <2>1, <2>2
<1>7. CASE Platform!Revalidate
  <2>1. /\ srv' = srv /\ stray' = stray /\ net' = net
        /\ \/ \E d : ui' = [ui EXCEPT !.data = d, !.failed = FALSE]
           \/ ui' = [ui EXCEPT !.failed = TRUE]
    BY <1>7 DEF Platform!Revalidate, Platform!Refresh, Platform!RefreshFails, Platform!Here
  <2>2. PlatformForm(ui') /\ ui'.edits = ui.edits
    BY <1>0, <2>1 DEF PlatformForm, Fields
  <2>. QED BY <1>0, <1>1, <2>1, <2>2
<1>8. CASE Platform!Remount
  <2>1. /\ srv' = srv /\ stray' = stray \cup Platform!Dropped(Platform!Writes) /\ net' = None
        /\ ui' = [data |-> Platform!Fresh, edits |-> <<>>, failed |-> FALSE]
    BY <1>8 DEF Platform!Remount, Platform!Reenter, Platform!Abandon, Platform!Blank
  <2>2. PlatformForm(ui') /\ ui'.edits = <<>>
    BY <2>1 DEF PlatformForm, Fields
  <2>3. DOMAIN <<>> \subseteq Platform!Keys
    OBVIOUS
  <2>. QED BY <1>0, <1>1, <2>1, <2>2, <2>3
<1>9. CASE Platform!Rival
  <2>1. srv' = [srv EXCEPT !.b = 1 - @] /\ net' = net /\ stray' = stray /\ ui' = ui
    BY <1>9 DEF Platform!Rival, Platform!Others
  <2>2. Fields(srv', Platform!Keys)
    BY <1>0, <2>1 DEF Fields
  <2>. QED BY <1>0, <2>1, <2>2 DEF PlatformSettingsOK
<1>10. CASE Platform!Serve \/ Platform!Lose
  <2>1. /\ net # None /\ ui' = ui
        /\ srv' = srv \/ \E o \in Platform!Handle(srv, net.cmd) : srv' = o.srv
        /\ \E a : net' = [net EXCEPT !.answer = a]
        /\ stray' = stray \/ (net.cmd.kind \in Platform!Writes /\ stray' = stray \cup {net.cmd})
    BY <1>10
    DEF Platform!Serve, Platform!Lose, Platform!ServeBy, Platform!LoseBy, Platform!Unanswered, Platform!Reply
  <2>2. Packet(net') /\ net'.cmd = net.cmd
    BY <1>0, <2>1 DEF Packet
  <2>3. Fields(srv', Platform!Keys)
    BY <1>0, <2>1, PatchRequest
  <2>4. \A m \in stray' : Patch(m)
    BY <1>0, <2>1 DEF Platform!Writes
  <2>. QED BY <1>0, <2>1, <2>2, <2>3, <2>4 DEF PlatformSettingsOK
<1>11. CASE Platform!ServeStray
  <2>1. PICK m \in stray : /\ net' = net /\ stray' = stray \ {m} /\ ui' = ui
                           /\ \E o \in Platform!Handle(srv, m) : srv' = o.srv
    BY <1>11 DEF Platform!ServeStray, Platform!StrayBy
  <2>2. Fields(srv', Platform!Keys)
    BY <1>0, <2>1, PatchRequest
  <2>. QED BY <1>0, <2>1, <2>2 DEF PlatformSettingsOK
<1>. QED
  BY <1>2, <1>3, <1>4, <1>5, <1>6, <1>7, <1>8, <1>9, <1>10, <1>11
  DEF Platform!Next, Platform!toggleAccept, Platform!editDomains, Platform!savePolicy,
      Platform!PolicySaved

\* A policy is read into its form and back.
LEMMA PolicyForms ==
  /\ \A f : PolicyRow(Platform!payload(f))
  /\ \A s : PolicyRow(s) => Platform!payload(Platform!policyForm(s)) = s
<1>1. ASSUME NEW f PROVE PolicyRow(Platform!payload(f))
  BY DEF PolicyRow, Platform!payload, Platform!parseList, Fields
<1>2. ASSUME NEW s, PolicyRow(s) PROVE Platform!payload(Platform!policyForm(s)) = s
  <2>1. PICK f : f = Platform!policyForm(s)
    OBVIOUS
  <2>2. f.accept = s.accept /\ (s.domains = {} => f.domains = "") /\ (s.domains = {"d"} => f.domains = "d")
    BY <2>1 DEF Platform!policyForm
  <2>3. Platform!parseList(f.domains) = s.domains
    BY <1>2, <2>2 DEF Platform!parseList, PolicyRow
  <2>4. Platform!payload(f) = [accept |-> s.accept, domains |-> s.domains]
    BY <2>2, <2>3 DEF Platform!payload
  <2>5. s = [accept |-> s.accept, domains |-> s.domains]
    BY <1>2 DEF PolicyRow, Fields
  <2>. QED BY <2>1, <2>4, <2>5
<1>. QED BY <1>1, <1>2

\* What a request of the policy page does.
LEMMA PolicyRequest ==
  ASSUME form = "policy", NEW s, PolicyRow(s), NEW m,
         m.kind = "read" \/ (m.kind = "policy" /\ PolicyRow(m.policy)),
         NEW o \in Platform!Handle(s, m)
  PROVE  /\ PolicyRow(o.srv)
         /\ m.kind = "read" => o.srv = s /\ Platform!payload(o.a.data) = s
         /\ m.kind = "policy" => o.srv = m.policy /\ o.a = Platform!Yes(None)
<1>1. CASE m.kind = "read"
  <2>1. o = Platform!Out(s, Platform!Yes(Platform!policyForm(s)))
    BY <1>1 DEF Platform!Handle
  <2>2. o.srv = s /\ o.a.data = Platform!policyForm(s)
    BY <2>1 DEF Platform!Out, Platform!Yes
  <2>. QED BY <1>1, <2>2, PolicyForms
<1>2. CASE m.kind = "policy" /\ PolicyRow(m.policy)
  BY <1>2 DEF Platform!Handle, Platform!UpdateSMTPPolicy, Platform!Out
<1>. QED BY <1>1, <1>2

\* The actions of the policy page.
LEMMA PolicyStart ==
  ASSUME NEW op \in {"save", "read"}
  PROVE  /\ \A x : LET r == Platform!Start(op, [sub |-> x]) IN
              Fields(r, {"sub", "op", "mine", "steady"}) /\ r.op = op
         /\ \A x, y : LET r == Platform!Start(op, [sub |-> x, form |-> y]) IN
              /\ Fields(r, {"sub", "form", "op", "mine", "steady"}) /\ r.op = op
              /\ r.sub = x /\ r.form = y
<1>1. ASSUME NEW x
      PROVE  LET r == Platform!Start(op, [sub |-> x]) IN
             Fields(r, {"sub", "op", "mine", "steady"}) /\ r.op = op
  <2>1. Platform!Start(op, [sub |-> x]) \in [sub : {x}, op : {op}, mine : BOOLEAN, steady : BOOLEAN]
    BY DEF Platform!Start, Platform!Over
  <2>. QED BY <2>1 DEF Fields
<1>2. ASSUME NEW x, NEW y
      PROVE  LET r == Platform!Start(op, [sub |-> x, form |-> y]) IN
             /\ Fields(r, {"sub", "form", "op", "mine", "steady"}) /\ r.op = op
             /\ r.sub = x /\ r.form = y
  <2>1. Platform!Start(op, [sub |-> x, form |-> y])
          \in [sub : {x}, form : {y}, op : {op}, mine : BOOLEAN, steady : BOOLEAN]
    BY DEF Platform!Start, Platform!Over
  <2>. QED BY <2>1 DEF Fields
<1>. QED BY <1>1, <1>2

\* With no answer lost and nobody else at work, the form follows the policy.
LEMMA PolicyStep ==
  ASSUME NoneApart, Counted, form = "policy", PolicyOK, Platform!Next
  PROVE  PolicyOK'
<1>0. /\ PolicyRow(srv) /\ PlatformForm(ui) /\ PolicyNet(net) /\ Policies(run, net, ui)
      /\ net # None => run # None
      /\ \A m \in stray : m.kind = "policy" /\ PolicyRow(m.policy)
      /\ lost = 0 /\ rivals = 0 => stray = {} /\ ShowsPolicy(srv, ui, run, net)
      /\ lost \in Nat /\ rivals \in Nat
  BY DEF PolicyOK, Counted
<1>a. Platform!Yes(None) # None
  BY SomeAnswer DEF Platform!Yes, Yes
<1>b. run = None => (lost = 0 /\ rivals = 0 => Platform!payload(ui.data) = srv)
  BY <1>0 DEF ShowsPolicy, Saved
<1>1. ASSUME srv' = srv, stray' = stray, lost' = lost, rivals' = rivals, NEW u, ui' = u,
             PlatformForm(u), PolicyNet(net'), Policies(run', net', u), net' # None => run' # None,
             lost = 0 /\ rivals = 0 => ShowsPolicy(srv, u, run', net')
      PROVE  PolicyOK'
  BY <1>0, <1>1 DEF PolicyOK
<1>2. CASE Platform!toggleAccept \/ Platform!editDomains
  <2>1. /\ srv' = srv /\ stray' = stray /\ net' = net /\ run' = run /\ run = None
        /\ lost' = lost /\ rivals' = rivals /\ \E e : ui' = [ui EXCEPT !.edits = e]
    BY <1>2
    DEF Platform!toggleAccept, Platform!editDomains, Platform!Edit, Platform!Here, Platform!blocked,
        Platform!Idle
  <2>2. PlatformForm(ui') /\ ui'.data = ui.data
    BY <1>0, <2>1 DEF PlatformForm, Fields
  <2>3. lost = 0 /\ rivals = 0 => ShowsPolicy(srv, ui', run', net')
    BY <1>0, <2>1, <2>2 DEF ShowsPolicy
  <2>. QED BY <1>0, <1>1, <2>1, <2>2, <2>3 DEF Policies
<1>3. CASE Platform!reload
  <2>1. /\ srv' = srv /\ stray' = stray /\ ui' = ui /\ run = None
        /\ lost' = lost /\ rivals' = rivals
        /\ Platform!Send([kind |-> "read"]) /\ run' = Platform!Start("read", [sub |-> {}])
    BY <1>3 DEF Platform!reload, Platform!Read, Platform!Here, Platform!Idle
  <2>2. Packet(net') /\ net'.cmd.kind = "read" /\ net'.answer = None
    BY <2>1, PlatformSent
  <2>3. PICK x : run' = Platform!Start("read", [sub |-> x])
    BY <2>1
  <2>4. Fields(run', {"sub", "op", "mine", "steady"}) /\ run'.op = "read"
    BY <2>3, PolicyStart
  <2>5. PolicyNet(net') /\ Policies(run', net', ui) /\ run' # None
    BY <2>2, <2>4, SomeRecord DEF PolicyNet, Policies, PolicyRead
  <2>6. lost = 0 /\ rivals = 0 => ShowsPolicy(srv, ui, run', net')
    BY <1>b, <2>1, <2>2 DEF ShowsPolicy, Acknowledged
  <2>. QED BY <1>0, <1>1, <2>1, <2>5, <2>6
<1>4. CASE Platform!savePolicy
  <2>1. /\ srv' = srv /\ stray' = stray /\ ui' = ui /\ run = None
        /\ lost' = lost /\ rivals' = rivals
        /\ \E f : /\ Platform!Send([kind |-> "policy", policy |-> Platform!payload(f)])
                  /\ run' = Platform!Start("save", [sub |-> DOMAIN ui.edits, form |-> f])
    BY <1>4 DEF Platform!savePolicy, Platform!Write, Platform!Here, Platform!Idle
  <2>2. PICK f, x, q, m : /\ Platform!Send(m) /\ m = [kind |-> "policy", policy |-> q]
                          /\ q = Platform!payload(f) /\ x = DOMAIN ui.edits
                          /\ run' = Platform!Start("save", [sub |-> x, form |-> f])
    BY <2>1
  <2>3. Packet(net') /\ net'.cmd.kind = "policy" /\ net'.cmd.policy = q /\ net'.answer = None
    BY <2>2, PlatformSent
  <2>4. /\ Fields(run', {"sub", "form", "op", "mine", "steady"}) /\ run'.op = "save"
        /\ run'.sub = x /\ run'.form = f
    BY <2>2, PolicyStart
  <2>5. PolicyRow(q)
    BY <2>2, PolicyForms
  <2>6. PolicyNet(net') /\ Policies(run', net', ui) /\ run' # None
    BY <2>2, <2>3, <2>4, <2>5, SomeRecord DEF PolicyNet, Policies, PolicySave
  <2>7. lost = 0 /\ rivals = 0 => ShowsPolicy(srv, ui, run', net')
    BY <1>b, <2>1, <2>3 DEF ShowsPolicy, Acknowledged
  <2>. QED BY <1>0, <1>1, <2>1, <2>6, <2>7
<1>5. CASE Platform!PolicySaved
  <2>1. /\ run # None /\ run.op = "save" /\ net # None /\ net.answer # None
        /\ srv' = srv /\ stray' = stray /\ lost' = lost /\ rivals' = rivals
        /\ \/ ~net.answer.ok /\ ui' = ui /\ run' = None /\ net' = None
           \/ /\ net.answer.ok /\ ui' = [ui EXCEPT !.data = run.form, !.edits = <<>>]
              /\ run' = [run EXCEPT !.op = "read"] /\ Platform!Send([kind |-> "read"])
    BY <1>5
    DEF Platform!PolicySaved, Platform!Doing, Platform!Answered, Platform!Got, Platform!Then,
        Platform!End, Platform!Step, Platform!Stop, Platform!Hang, Platform!Here
  <2>2. CASE ~net.answer.ok /\ ui' = ui /\ run' = None /\ net' = None
    <3>1. lost = 0 /\ rivals = 0 => Platform!payload(ui.data) = srv
      BY <1>0, <2>2 DEF ShowsPolicy, Saved, Platform!Yes
    <3>. QED
      BY <1>0, <1>1, <2>1, <2>2, <3>1 DEF ShowsPolicy, Acknowledged, PolicyNet, Policies
  <2>3. CASE /\ net.answer.ok /\ ui' = [ui EXCEPT !.data = run.form, !.edits = <<>>]
             /\ run' = [run EXCEPT !.op = "read"] /\ Platform!Send([kind |-> "read"])
    <3>1. Packet(net') /\ net'.cmd.kind = "read" /\ net'.answer = None
      BY <2>3, PlatformSent
    <3>2. Fields(run, {"sub", "form", "op", "mine", "steady"})
      BY <1>0, <2>1 DEF Policies, PolicySave, PolicyRead
    <3>3. Fields(run', {"sub", "form", "op", "mine", "steady"}) /\ run'.op = "read"
      BY <2>3, <3>2 DEF Fields
    <3>4. PlatformForm(ui') /\ ui'.data = run.form
      BY <1>0, <2>3 DEF PlatformForm, Fields
    <3>5. PolicyNet(net') /\ Policies(run', net', ui') /\ run' # None
      BY <3>1, <3>3, SomeRecord DEF PolicyNet, Policies, PolicyRead
    <3>6. lost = 0 /\ rivals = 0 => ShowsPolicy(srv, ui', run', net')
      BY <1>0, <2>1, <2>3, <3>1, <3>4 DEF ShowsPolicy, Acknowledged
    <3>. QED BY <1>0, <1>1, <2>1, <3>4, <3>5, <3>6
  <2>. QED BY <2>1, <2>2, <2>3
<1>6. CASE Platform!ReadBack
  <2>1. /\ run # None /\ run.op = "read" /\ net # None /\ net.answer # None
        /\ srv' = srv /\ stray' = stray /\ lost' = lost /\ rivals' = rivals
        /\ run' = None /\ net' = None
        /\ \/ net.answer.ok /\ ui' = [ui EXCEPT !.data = net.answer.data, !.failed = FALSE]
           \/ ui' = [ui EXCEPT !.failed = TRUE]
    BY <1>6
    DEF Platform!ReadBack, Platform!Doing, Platform!Answered, Platform!Got, Platform!End,
        Platform!Stop, Platform!Hang, Platform!Here
  <2>2. /\ PlatformForm(ui')
        /\ ui'.data = ui.data \/ (net.answer.ok /\ ui'.data = net.answer.data)
    BY <1>0, <2>1 DEF PlatformForm, Fields
  <2>3. lost = 0 /\ rivals = 0 => Platform!payload(ui'.data) = srv
    BY <1>0, <2>1, <2>2 DEF ShowsPolicy, Saved, Acknowledged
  <2>. QED
    BY <1>0, <1>1, <2>1, <2>2, <2>3 DEF ShowsPolicy, Acknowledged, PolicyNet, Policies
<1>7. CASE Platform!Revalidate
  <2>1. /\ run # None => run.op # "read"
        /\ srv' = srv /\ stray' = stray /\ net' = net /\ rivals' = rivals
        /\ run' = IF run = None THEN None ELSE [run EXCEPT !.steady = FALSE]
        /\ \/ ui' = [ui EXCEPT !.data = Platform!policyForm(srv), !.failed = FALSE] /\ lost' = lost
           \/ ui' = [ui EXCEPT !.failed = TRUE] /\ lost' = lost + 1
    BY <1>7
    DEF Platform!Revalidate, Platform!Refresh, Platform!RefreshFails, Platform!Here, Platform!Moved,
        Platform!Reading, Platform!Fresh
  <2>2. /\ PlatformForm(ui') /\ ui'.edits = ui.edits
        /\ (lost' = lost /\ ui'.data = Platform!policyForm(srv)) \/ lost' = lost + 1
    BY <1>0, <2>1 DEF PlatformForm, Fields
  <2>3. /\ Policies(run', net', ui') /\ (net' # None => run' # None)
        /\ run' # None => run # None /\ run'.op = run.op /\ run'.form = run.form
    <3>1. CASE run = None
      BY <1>0, <2>1, <3>1 DEF Policies
    <3>2. CASE run # None
      <4>1. PolicySave(run, net) /\ run.op = "save" /\ DOMAIN ui.edits \subseteq run.sub
        BY <1>0, <2>1, <3>2 DEF Policies, PolicyRead, PolicySave
      <4>2. run' = [run EXCEPT !.steady = FALSE]
        BY <2>1, <3>2
      <4>3. /\ Fields(run', {"sub", "form", "op", "mine", "steady"}) /\ run'.op = run.op
            /\ run'.form = run.form /\ run'.sub = run.sub
        BY <4>1, <4>2 DEF PolicySave, Fields
      <4>4. PolicySave(run', net') /\ run' # None
        BY <2>1, <4>1, <4>3, SomeRecord DEF PolicySave
      <4>. QED BY <2>2, <3>2, <4>1, <4>3, <4>4 DEF Policies
    <3>. QED BY <3>1, <3>2
  <2>4. lost' = 0 /\ rivals' = 0 => stray' = {} /\ ShowsPolicy(srv, ui', run', net')
    <3>. SUFFICES ASSUME lost' = 0, rivals' = 0 PROVE stray' = {} /\ ShowsPolicy(srv, ui', run', net')
      OBVIOUS
    <3>1. lost = 0 /\ rivals = 0 /\ ui'.data = Platform!policyForm(srv)
      BY <1>0, <2>1, <2>2
    <3>2. Platform!payload(ui'.data) = srv
      BY <1>0, <3>1, PolicyForms
    <3>. QED BY <1>0, <2>1, <2>3, <3>1, <3>2 DEF ShowsPolicy, Acknowledged
  <2>. QED BY <1>0, <2>1, <2>2, <2>3, <2>4 DEF PolicyOK
<1>8. CASE Platform!Remount
  <2>. DEFINE d == Platform!Dropped(Platform!Writes)
  <2>1. /\ srv' = srv /\ stray' = stray \cup d /\ net' = None /\ run' = None /\ rivals' = rivals
        /\ IF d = {} THEN lost' = lost ELSE lost' = lost + 1
        /\ ui' = [data |-> Platform!policyForm(srv), edits |-> <<>>, failed |-> FALSE]
    BY <1>8
    DEF Platform!Remount, Platform!Reenter, Platform!Abandon, Platform!Blank, Platform!Fresh
  <2>2. \A m \in d : m.kind = "policy" /\ PolicyRow(m.policy)
    BY <1>0 DEF Platform!Dropped, Platform!Unanswered, Platform!Writes, PolicyNet
  <2>. HIDE DEF d
  <2>3. PlatformForm(ui') /\ Platform!payload(ui'.data) = srv
    BY <1>0, <2>1, PolicyForms DEF PlatformForm, Fields
  <2>4. lost' = 0 => lost = 0 /\ stray' = stray
    BY <1>0, <2>1
  <2>. QED
    BY <1>0, <2>1, <2>2, <2>3, <2>4
    DEF PolicyOK, PolicyNet, Policies, ShowsPolicy, Acknowledged
<1>9. ASSUME NEW s, srv' = s, PolicyRow(s), ui' = ui, run' = run,
             net' = net \/ (net # None /\ \E a : net' = [net EXCEPT !.answer = a]),
             \A m \in stray' : m.kind = "policy" /\ PolicyRow(m.policy),
             lost' = 0 /\ rivals' = 0 => /\ lost = 0 /\ rivals = 0 /\ stray' = stray
                                         /\ ShowsPolicy(s, ui, run, net')
      PROVE  PolicyOK'
  <2>1. net # None => Packet(net) /\ run # None
    BY <1>0 DEF PolicyNet
  <2>2. net # None /\ net' # net => Packet(net') /\ net'.cmd = net.cmd
    BY <1>9, <2>1 DEF Packet
  <2>3. PolicyNet(net') /\ Policies(run', net', ui') /\ (net' # None => run' # None)
    <3>1. CASE net' = net
      BY <1>0, <1>9, <3>1
    <3>2. CASE net # None /\ net' # net
      BY <1>0, <1>9, <2>1, <2>2, <3>2 DEF PolicyNet, Policies, PolicySave, PolicyRead
    <3>. QED BY <1>9, <3>1, <3>2
  <2>. QED BY <1>0, <1>9, <2>3 DEF PolicyOK
<1>10. CASE Platform!Rival
  <2>1. /\ srv' = [srv EXCEPT !.accept = ~@] /\ net' = net /\ stray' = stray /\ ui' = ui
        /\ run' = run /\ rivals' = rivals + 1
    BY <1>10 DEF Platform!Rival, Platform!Others
  <2>2. PolicyRow(srv')
    BY <1>0, <2>1 DEF PolicyRow, Fields
  <2>3. rivals' # 0
    BY <1>0, <2>1
  <2>. QED BY <1>0, <1>9, <2>1, <2>2, <2>3
<1>11. CASE Platform!Serve
  <2>1. PICK o \in Platform!Handle(srv, net.cmd) :
          /\ net # None /\ net.answer = None /\ stray' = stray /\ ui' = ui /\ run' = run
          /\ lost' = lost /\ rivals' = rivals /\ srv' = o.srv /\ net' = [net EXCEPT !.answer = o.a]
    BY <1>11 DEF Platform!Serve, Platform!ServeBy, Platform!Unanswered, Platform!Reply
  <2>2. /\ Packet(net) /\ run # None
        /\ net.cmd.kind = "read" \/ (net.cmd.kind = "policy" /\ PolicyRow(net.cmd.policy))
    BY <1>0, <2>1 DEF PolicyNet
  <2>3. Packet(net') /\ net'.answer = o.a /\ net' # None
    BY <2>1, <2>2, SomeAnswer DEF Packet
  <2>4. /\ PolicyRow(o.srv)
        /\ net.cmd.kind = "read" => o.srv = srv /\ Platform!payload(o.a.data) = srv
        /\ net.cmd.kind = "policy" => o.srv = net.cmd.policy /\ o.a = Platform!Yes(None)
    BY <1>0, <1>11, <2>2, PolicyRequest
  <2>5. lost = 0 /\ rivals = 0 => ShowsPolicy(o.srv, ui, run, net')
    <3>. SUFFICES ASSUME lost = 0, rivals = 0 PROVE ShowsPolicy(o.srv, ui, run, net')
      OBVIOUS
    <3>1. Platform!payload(ui.data) = srv
      BY <1>0, <1>a, <2>1 DEF ShowsPolicy, Saved
    <3>2. CASE PolicySave(run, net)
      <4>1. net.cmd.kind = "policy" /\ o.srv = Platform!payload(run.form) /\ run.op = "save"
        BY <2>1, <2>4, <3>2 DEF PolicySave
      <4>. QED BY <2>2, <2>3, <2>4, <4>1 DEF ShowsPolicy, Saved, Acknowledged
    <3>3. CASE PolicyRead(run, net)
      <4>1. run.op = "read" /\ o.srv = srv /\ Platform!payload(o.a.data) = srv
        BY <2>1, <2>4, <3>3 DEF PolicyRead
      <4>. QED BY <2>3, <3>1, <4>1 DEF ShowsPolicy, Acknowledged
    <3>. QED BY <1>0, <2>2, <3>2, <3>3 DEF Policies
  <2>. QED BY <1>0, <1>9, <2>1, <2>4, <2>5
<1>12. CASE Platform!Lose
  <2>1. /\ net # None /\ ui' = ui /\ run' = run /\ lost' = lost + 1
        /\ srv' = srv \/ \E o \in Platform!Handle(srv, net.cmd) : srv' = o.srv
        /\ \E a : net' = [net EXCEPT !.answer = a]
        /\ stray' = stray \/ (net.cmd.kind \in Platform!Writes /\ stray' = stray \cup {net.cmd})
    BY <1>12 DEF Platform!Lose, Platform!LoseBy, Platform!Unanswered, Platform!Reply
  <2>2. net.cmd.kind = "read" \/ (net.cmd.kind = "policy" /\ PolicyRow(net.cmd.policy))
    BY <1>0, <2>1 DEF PolicyNet
  <2>3. PolicyRow(srv')
    BY <1>0, <1>12, <2>1, <2>2, PolicyRequest
  <2>4. \A m \in stray' : m.kind = "policy" /\ PolicyRow(m.policy)
    BY <1>0, <2>1, <2>2 DEF Platform!Writes
  <2>5. lost' # 0
    BY <1>0, <2>1
  <2>. QED BY <1>9, <2>1, <2>3, <2>4, <2>5
<1>13. CASE Platform!ServeStray
  <2>1. PICK m \in stray : /\ net' = net /\ stray' = stray \ {m} /\ ui' = ui /\ run' = run
                           /\ lost' = lost /\ rivals' = rivals
                           /\ \E o \in Platform!Handle(srv, m) : srv' = o.srv
    BY <1>13 DEF Platform!ServeStray, Platform!StrayBy
  <2>2. PolicyRow(srv')
    BY <1>0, <2>1, PolicyRequest
  <2>. QED BY <1>0, <1>9, <2>1, <2>2
<1>. QED
  BY <1>2, <1>3, <1>4, <1>5, <1>6, <1>7, <1>8, <1>10, <1>11, <1>12, <1>13
  DEF Platform!Next, Platform!changeSetting, Platform!saveSettings, Platform!SettingsSaved

\* Whatever happens, what the platform pages hold stays so.
LEMMA PlatformStep ==
  ASSUME NoneApart, Counted, PlatformOK, Platform!Next PROVE PlatformOK'
<1>1. form' = form
  BY PlatformCounts
<1>. QED BY <1>1, PlatformSettingsStep, PolicyStep DEF PlatformOK

\* The pages start from what the server has.
LEMMA PlatformBegins == ASSUME Platform!Init PROVE PlatformOK /\ Counted
<1>1. /\ run = None /\ net = None /\ stray = {} /\ Counted
      /\ ui = [data |-> Platform!Fresh, edits |-> <<>>, failed |-> FALSE]
      /\ srv = IF form = "settings" THEN [k \in Platform!Keys |-> 0]
               ELSE [accept |-> TRUE, domains |-> {"d"}]
  BY DEF Platform!Init, Platform!Quiet, Platform!Blank, Counted
<1>2. /\ PlatformForm(ui) /\ ui.edits = <<>> /\ ui.data = Platform!Fresh
      /\ DOMAIN <<>> \subseteq Platform!Keys
  BY <1>1 DEF PlatformForm, Fields
<1>3. form = "settings" => PlatformSettingsOK
  BY <1>1, <1>2 DEF PlatformSettingsOK, Fields
<1>4. CASE form = "policy"
  <2>1. srv = [accept |-> TRUE, domains |-> {"d"}] /\ ui.data = Platform!policyForm(srv)
    BY <1>1, <1>2, <1>4 DEF Platform!Fresh
  <2>2. PolicyRow(srv)
    BY <2>1 DEF PolicyRow, Fields
  <2>3. Platform!payload(ui.data) = srv
    BY <2>1, <2>2, PolicyForms
  <2>. QED
    BY <1>1, <1>2, <1>3, <1>4, <2>2, <2>3
    DEF PlatformOK, PolicyOK, PolicyNet, Policies, ShowsPolicy, Acknowledged
<1>. QED BY <1>1, <1>3, <1>4 DEF PlatformOK

\* An idle form shows the policy.
LEMMA PlatformMeans == ASSUME PlatformOK PROVE Platform!Settled
BY DEF PlatformOK, PolicyOK, ShowsPolicy, Saved, Platform!Settled, Platform!Idle

\* A save of the settings leaves alone what was not edited.
LEMMA PlatformConfirmed ==
  ASSUME PlatformOK, form \in Platform!Forms, rivals \in Nat, Platform!Next
  PROVE  Platform!AsConfirmed
<1>. SUFFICES ASSUME NEW m \in Platform!InFlight, m \notin Platform!InFlight', rivals' = rivals,
                     m.kind = "patch", NEW k \in Platform!Keys, srv'[k] # srv[k]
              PROVE  k \in m.edited
  BY DEF Platform!AsConfirmed
<1>1. m \in stray \/ (m = net.cmd /\ net # None)
  BY DEF Platform!InFlight, Platform!Dropped, Platform!Unanswered
<1>2. form = "settings" /\ PlatformSettingsOK
  BY <1>1 DEF PlatformOK, PolicyOK, PolicyNet, Platform!Forms
<1>3. Patch(m) /\ Fields(srv, Platform!Keys)
  BY <1>1, <1>2 DEF PlatformSettingsOK
<1>4. ASSUME NEW o \in Platform!Handle(srv, m), srv' = o.srv PROVE k \in m.edited
  BY <1>2, <1>3, <1>4, PatchRequest
<1>5. ASSUME srv' = srv PROVE FALSE
  BY <1>5
<1>6. CASE Platform!Rival
  BY <1>6 DEF Platform!Rival, Platform!Others
<1>7. CASE Platform!Serve \/ Platform!Lose
  <2>1. /\ stray \subseteq stray'
        /\ \E o \in Platform!Handle(srv, net.cmd) : srv' = o.srv
    BY <1>5, <1>7 DEF Platform!Serve, Platform!ServeBy, Platform!Lose, Platform!LoseBy
  <2>2. m = net.cmd
    BY <1>1, <2>1 DEF Platform!InFlight
  <2>. QED BY <1>4, <2>1, <2>2
<1>8. CASE Platform!ServeStray
  <2>1. PICK n \in stray : /\ stray' = stray \ {n} /\ net' = net
                           /\ \E o \in Platform!Handle(srv, n) : srv' = o.srv
    BY <1>8 DEF Platform!ServeStray, Platform!StrayBy
  <2>2. m = n
    BY <2>1 DEF Platform!InFlight, Platform!Dropped, Platform!Unanswered
  <2>. QED BY <1>4, <2>1, <2>2
<1>. QED
  BY <1>5, <1>6, <1>7, <1>8
  DEF Platform!Next, Platform!changeSetting, Platform!toggleAccept, Platform!editDomains,
      Platform!reload, Platform!saveSettings, Platform!SettingsSaved, Platform!savePolicy,
      Platform!PolicySaved, Platform!ReadBack, Platform!Revalidate, Platform!Remount,
      Platform!Edit, Platform!Read, Platform!Write, Platform!End, Platform!Then, Platform!Refresh,
      Platform!RefreshFails, Platform!Reenter, Platform!Abandon, Platform!Here

\* An edit leaves the draft only with a save that contained it.
LEMMA PlatformTyped ==
  ASSUME PlatformOK, form \in Platform!Forms, moves \in Nat, Platform!Next
  PROVE  Platform!TypedKept
<1>. SUFFICES ASSUME NEW k \in DOMAIN ui.edits, moves' = moves,
                     k \in DOMAIN ui'.edits => ui'.edits[k] # ui.edits[k]
              PROVE  run # None /\ k \in run.sub /\ net # None /\ net.answer # None /\ net.answer.ok
  BY DEF Platform!TypedKept, Platform!Answered, Platform!Got
<1>1. PlatformForm(ui)
  BY DEF PlatformOK, PlatformSettingsOK, PolicyOK, Platform!Forms
<1>2. ASSUME ui'.edits = ui.edits PROVE FALSE
  BY <1>2
<1>3. moves' # moves + 1
  OBVIOUS
<1>4. CASE Platform!SettingsSaved
  <2>1. \/ ui' = ui
        \/ /\ run # None /\ net # None /\ net.answer # None /\ net.answer.ok
           /\ ui' = Platform!withoutSubmitted([ui EXCEPT !.data = net.answer.data], run)
    BY <1>4
    DEF Platform!SettingsSaved, Platform!Doing, Platform!Answered, Platform!Got, Platform!Then,
        Platform!End
  <2>2. PICK w : w = [ui EXCEPT !.data = net.answer.data]
    OBVIOUS
  <2>3. w.edits = ui.edits /\ Fields(w, {"data", "edits", "failed"})
    BY <1>1, <2>2 DEF PlatformForm, Fields
  <2>4. CASE ui' = Platform!withoutSubmitted(w, run)
    <3>1. ui'.edits = Platform!Without(w.edits, run.sub)
      BY <2>3, <2>4 DEF Platform!withoutSubmitted, Fields
    <3>2. k \notin run.sub => k \in DOMAIN ui'.edits /\ ui'.edits[k] = ui.edits[k]
      BY <2>3, <3>1 DEF Platform!Without
    <3>. QED BY <1>2, <2>1, <3>2
  <2>. QED BY <1>2, <2>1, <2>2, <2>4
<1>5. CASE Platform!PolicySaved
  <2>1. /\ form = "policy" /\ run # None /\ run.op = "save" /\ net # None /\ net.answer # None
        /\ ui' = ui \/ net.answer.ok
    BY <1>5
    DEF Platform!PolicySaved, Platform!Doing, Platform!Answered, Platform!Got, Platform!End
  <2>2. k \in run.sub
    BY <2>1 DEF PlatformOK, PolicyOK, Policies
  <2>. QED BY <1>2, <2>1, <2>2
<1>6. CASE Platform!ReadBack \/ Platform!Revalidate
  <2>1. (\E x, y : ui' = [ui EXCEPT !.data = x, !.failed = y]) \/ (\E y : ui' = [ui EXCEPT !.failed = y])
    BY <1>6
    DEF Platform!ReadBack, Platform!Revalidate, Platform!End, Platform!Refresh, Platform!RefreshFails
  <2>. QED BY <1>1, <1>2, <2>1 DEF PlatformForm, Fields
<1>. QED
  BY <1>2, <1>3, <1>4, <1>5, <1>6
  DEF Platform!Next, Platform!changeSetting, Platform!toggleAccept, Platform!editDomains,
      Platform!reload, Platform!saveSettings, Platform!savePolicy, Platform!Remount,
      Platform!Rival, Platform!Serve, Platform!Lose, Platform!ServeStray,
      Platform!Edit, Platform!Read, Platform!Write, Platform!Reenter, Platform!Move,
      Platform!Others, Platform!ServeBy, Platform!LoseBy, Platform!StrayBy

-----------------------------------------------------------------------------
(* The list of tenants.                                                    *)

TenantForm(u) ==
  Fields(u, {"rows", "open", "name", "dialog", "draft", "seq", "ops", "active", "deleting",
             "readback", "failure", "acked", "asked"})
TenantRow(s) ==
  /\ Fields(s, {"rows", "next"}) /\ s.next \in Int
  /\ \A r \in s.rows : r.id \in Int /\ r.id < s.next
Pending == {"read", "got", "unread"}
TenantOp(o) ==
  /\ Fields(o, {"n", "cmd", "at", "dialog", "draft", "id", "rows"})
  /\ o.n \in Int /\ o.dialog \in Int /\ o.draft \in Int
  /\ o.at \in {"sent", "done", "failed"} \cup Pending
  /\ o.cmd.kind \in {"create", "delete", "retry"} /\ (o.cmd.kind = "retry" => o.at \in Pending)

\* No two commands have a number, and none has one that is not yet given.
Numbered(u) ==
  /\ u.seq \in Int /\ u.dialog \in Nat /\ u.draft \in Nat /\ u.readback \in Int /\ u.readback < u.seq
  /\ \A o \in u.ops : TenantOp(o) /\ o.n < u.seq /\ o.dialog <= u.dialog /\ o.draft <= u.draft
  /\ \A o, q \in u.ops : o.n = q.n => o = q

\* Only a tenant that was once listed is deleted.
Deletes(s, m) ==
  m.kind \in {"create", "delete"} /\ (m.kind = "delete" => m.id \in Int /\ m.id < s.next)
Born(s, u, x) ==
  /\ \A r \in u.rows : r.id \in Int /\ r.id < s.next
  /\ \A o \in u.ops : \A r \in o.rows : r.id \in Int /\ r.id < s.next
  /\ \A m \in x : Deletes(s, m)
  /\ \A o \in u.ops : o.at = "sent" => Deletes(s, o.cmd) /\ (o.cmd.kind = "delete" => o.cmd.id \in u.asked)

\* A create that was submitted with what is typed now has its name.
Named(u) ==
  \A o \in u.ops :
    (o.cmd.kind = "create" /\ o.dialog = u.dialog /\ o.draft = u.draft) => o.cmd.name = u.name

\* A load is retried under the warning, which stays until its answer.
Retrying(u) == \A o \in u.ops : (o.cmd.kind = "retry" /\ o.n = u.readback) => u.failure

\* The rows have what a command did, unless its tenant was to be deleted.
Reflects(u, rows, kind, id) ==
  IF kind = "create" THEN (\E r \in rows : r.id = id) \/ id \in u.asked ELSE \A r \in rows : r.id # id
Kept(s, u, kind, id) == id \in Int /\ id < s.next /\ Reflects(u, s.rows, kind, id)

\* Without changes by others what was answered is so, and nothing that is still
\* under way undoes it, unless it was asked for.
Safe(u, x, kind, id) ==
  \A m \in x : (kind = "create" /\ m.kind = "delete" /\ m.id = id) => id \in u.asked
Truth(s, u, x) ==
  /\ \A m \in u.acked : Kept(s, u, m.kind, m.id) /\ Safe(u, x, m.kind, m.id)
  /\ \A o \in u.ops : o.at = "done" => Kept(s, u, o.cmd.kind, o.id) /\ Safe(u, x, o.cmd.kind, o.id)

\* It is shown, or the newest readback is not over, or the page warns.
AllShown(u, rows) == \A m \in u.acked : Reflects(u, rows, m.kind, m.id)
Shown(u) ==
  /\ \A o \in u.ops : (o.n = u.readback /\ o.at = "got") => AllShown(u, o.rows)
  /\ \/ u.failure
     \/ \E o \in u.ops : o.n = u.readback /\ o.at \in Pending
     \/ AllShown(u, u.rows)

TenantsOK ==
  /\ form \in Tenants!Forms /\ TenantForm(ui) /\ TenantRow(srv)
  /\ Numbered(ui) /\ Born(srv, ui, stray) /\ Named(ui) /\ Retrying(ui)
  /\ rivals \in Nat /\ (rivals = 0 => Truth(srv, ui, stray) /\ Shown(ui))

\* What the server does with a command keeps what is so, and makes it so.
LEMMA TenantApply ==
  ASSUME TenantRow(srv), NEW m, Deletes(srv, m), NEW s, s = Tenants!Apply(srv, m)
  PROVE  /\ TenantRow(s) /\ srv.next <= s.next
         /\ \A u, kind, id :
              (Kept(srv, u, kind, id) /\ (kind = "create" /\ m.kind = "delete" /\ m.id = id => id \in u.asked))
              => Kept(s, u, kind, id)
         /\ \A u : m.kind = "create" => Kept(s, u, "create", srv.next)
         /\ \A u : m.kind = "delete" => Kept(s, u, "delete", m.id)
<1>1. CASE m.kind = "create"
  <2>1. PICK new : new = [id |-> srv.next, name |-> m.name, super |-> FALSE]
    OBVIOUS
  <2>2. s = [srv EXCEPT !.rows = @ \cup {new}, !.next = @ + 1]
    BY <1>1, <2>1 DEF Tenants!Apply, Tenants!CreateTenant
  <2>3. Fields(s, {"rows", "next"}) /\ s.rows = srv.rows \cup {new} /\ s.next = srv.next + 1
    BY <2>2 DEF TenantRow, Fields
  <2>4. TenantRow(s) /\ srv.next <= s.next /\ srv.next < s.next /\ srv.next \in Int
    BY <2>1, <2>3 DEF TenantRow
  <2>5. ASSUME NEW u, NEW kind, NEW id, Kept(srv, u, kind, id) PROVE Kept(s, u, kind, id)
    <3>1. id \in Int /\ id < srv.next /\ id < s.next /\ id # new.id
      BY <2>1, <2>3, <2>4, <2>5 DEF Kept
    <3>. QED BY <2>3, <2>5, <3>1 DEF Kept, Reflects
  <2>6. \A u : Kept(s, u, "create", srv.next)
    BY <2>1, <2>3, <2>4 DEF Kept, Reflects
  <2>. QED BY <1>1, <2>4, <2>5, <2>6
<1>2. CASE m.kind = "delete"
  <2>1. s = [srv EXCEPT !.rows = {r \in @ : r.id # m.id}]
    BY <1>2 DEF Tenants!Apply, Tenants!DeleteTenant
  <2>2. Fields(s, {"rows", "next"}) /\ s.rows = {r \in srv.rows : r.id # m.id} /\ s.next = srv.next
    BY <2>1 DEF TenantRow, Fields
  <2>3. TenantRow(s) /\ srv.next <= s.next
    BY <2>2 DEF TenantRow
  <2>4. ASSUME NEW u, NEW kind, NEW id, Kept(srv, u, kind, id), kind = "create" /\ m.id = id => id \in u.asked
        PROVE  Kept(s, u, kind, id)
    <3>1. CASE kind = "create"
      BY <2>2, <2>4, <3>1 DEF Kept, Reflects
    <3>2. CASE kind # "create"
      BY <2>2, <2>4, <3>2 DEF Kept, Reflects
    <3>. QED BY <3>1, <3>2
  <2>5. \A u : Kept(s, u, "delete", m.id)
    BY <1>2, <2>2 DEF Kept, Reflects, Deletes
  <2>. QED BY <1>2, <2>3, <2>4, <2>5
<1>. QED BY <1>1, <1>2 DEF Deletes

\* What was asked to be deleted excuses more, the more is asked.
LEMMA TenantAsked ==
  ASSUME NEW u, NEW w, u.asked \subseteq w.asked
  PROVE  /\ \A s, kind, id : Kept(s, u, kind, id) => Kept(s, w, kind, id)
         /\ \A x, kind, id : Safe(u, x, kind, id) => Safe(w, x, kind, id)
         /\ \A rows : (AllShown(u, rows) /\ w.acked \subseteq u.acked) => AllShown(w, rows)
<1>1. \A rows, kind, id : Reflects(u, rows, kind, id) => Reflects(w, rows, kind, id)
  BY DEF Reflects
<1>. QED BY <1>1 DEF Kept, Safe, AllShown

\* The page keeps count, and does not change its form.
LEMMA TenantCounts ==
  ASSUME Counted, Tenants!Next PROVE Counted' /\ form' = form
<1>1. /\ form' = form /\ moves' \in {moves, moves + 1} /\ rivals' \in {rivals, rivals + 1}
      /\ lost' \in {lost, lost + 1}
  BY DEF Tenants!Next, Tenants!typeTenant, Tenants!changeCreateOpen, Tenants!handleCreate,
     Tenants!handleDelete, Tenants!retryLoad, Tenants!ServeOp, Tenants!LoseOp, Tenants!ServeStray,
     Tenants!Acknowledged, Tenants!ReadTenants, Tenants!refreshTenants, Tenants!Revalidate,
     Tenants!Remount, Tenants!Rival, Tenants!Begin, Tenants!Stays, Tenants!Quietly,
     Tenants!Others, Tenants!Move, Tenants!Call
<1>. QED BY <1>1 DEF Counted

\* A step of the page that touches no command keeps what is so.
LEMMA TenantTyping ==
  ASSUME TenantsOK, form' = form, srv' = srv, stray' = stray, rivals' = rivals, TenantForm(ui'),
         ui'.ops = ui.ops, ui'.rows = ui.rows, ui'.acked = ui.acked, ui'.asked = ui.asked,
         ui'.failure = ui.failure, ui'.readback = ui.readback, ui'.seq = ui.seq,
         ui'.dialog \in {ui.dialog, ui.dialog + 1}, ui'.draft \in {ui.draft, ui.draft + 1},
         ui'.name = ui.name \/ ui'.draft # ui.draft
  PROVE  TenantsOK'
<1>0. /\ Numbered(ui) /\ Born(srv, ui, stray) /\ Named(ui) /\ Retrying(ui) /\ TenantRow(srv)
      /\ rivals \in Nat /\ (rivals = 0 => Truth(srv, ui, stray) /\ Shown(ui))
  BY DEF TenantsOK
<1>1. \A o \in ui.ops : o.dialog \in Int /\ o.draft \in Int /\ o.dialog <= ui.dialog /\ o.draft <= ui.draft
  BY <1>0 DEF Numbered, TenantOp
<1>2. ui.dialog \in Nat /\ ui.draft \in Nat
  BY <1>0 DEF Numbered
<1>3. ui'.dialog \in Nat /\ ui'.draft \in Nat /\ ui.dialog <= ui'.dialog /\ ui.draft <= ui'.draft
  BY <1>2
<1>4. \A o \in ui.ops : o.dialog <= ui'.dialog /\ o.draft <= ui'.draft
  BY <1>1, <1>2, <1>3
<1>5. Numbered(ui')
  BY <1>0, <1>3, <1>4 DEF Numbered
<1>6. Born(srv, ui', stray)
  BY <1>0 DEF Born
<1>7. \A o \in ui.ops : (o.dialog = ui'.dialog /\ o.draft = ui'.draft)
                        => o.dialog = ui.dialog /\ o.draft = ui.draft /\ ui'.name = ui.name
  BY <1>1, <1>2, <1>3
<1>8. Named(ui')
  BY <1>0, <1>7 DEF Named
<1>9. Retrying(ui')
  BY <1>0 DEF Retrying
<1>10. rivals = 0 => Truth(srv, ui', stray) /\ Shown(ui')
  BY <1>0 DEF Truth, Safe, Kept, Reflects, Shown, AllShown
<1>. QED BY <1>0, <1>5, <1>6, <1>8, <1>9, <1>10 DEF TenantsOK

\* So does the start of a command, or of a retry.
LEMMA TenantStarts ==
  ASSUME TenantsOK, form' = form, srv' = srv, stray' = stray, rivals' = rivals, TenantForm(ui'),
         NEW o, ui'.ops = ui.ops \cup {o}, TenantOp(o), o.n = ui.seq, ui'.seq = ui.seq + 1,
         o.at \in {"sent", "read"}, o.rows = {}, o.dialog <= ui.dialog, o.draft <= ui.draft,
         o.at = "sent" => Deletes(srv, o.cmd) /\ (o.cmd.kind = "delete" => o.cmd.id \in ui'.asked),
         o.cmd.kind = "create" => o.cmd.name = ui.name,
         ui'.rows = ui.rows, ui'.acked = ui.acked, ui.asked \subseteq ui'.asked,
         ui'.failure = ui.failure, ui'.dialog = ui.dialog, ui'.draft = ui.draft, ui'.name = ui.name,
         \/ ui'.readback = ui.readback /\ o.at = "sent"
         \/ ui'.readback = ui.seq /\ o.at = "read" /\ ui.failure
  PROVE  TenantsOK'
<1>0. /\ Numbered(ui) /\ Born(srv, ui, stray) /\ Named(ui) /\ Retrying(ui) /\ TenantRow(srv)
      /\ rivals \in Nat /\ (rivals = 0 => Truth(srv, ui, stray) /\ Shown(ui))
  BY DEF TenantsOK
<1>1. /\ ui.seq \in Int /\ ui.readback \in Int /\ ui.readback < ui.seq
      /\ \A q \in ui.ops : q.n \in Int /\ q.n < ui.seq
  BY <1>0 DEF Numbered, TenantOp
<1>2. /\ ui'.seq \in Int /\ ui'.readback \in Int /\ ui'.readback < ui'.seq /\ o.n < ui'.seq
      /\ \A q \in ui.ops : q.n < ui'.seq /\ q.n # o.n
  BY <1>1
<1>3. Numbered(ui')
  BY <1>0, <1>2 DEF Numbered
<1>4. Born(srv, ui', stray)
  BY <1>0 DEF Born
<1>5. Named(ui')
  BY <1>0 DEF Named
<1>6. Retrying(ui')
  BY <1>0, <1>1, <1>2 DEF Retrying, TenantOp
<1>7. rivals = 0 => Truth(srv, ui', stray)
  BY <1>0, TenantAsked DEF Truth
<1>8. rivals = 0 => Shown(ui')
  <2>1. \A rows : AllShown(ui, rows) => AllShown(ui', rows)
    BY TenantAsked
  <2>. QED BY <1>0, <1>1, <1>2, <2>1 DEF Shown, Pending
<1>. QED BY <1>0, <1>3, <1>4, <1>5, <1>6, <1>7, <1>8 DEF TenantsOK

\* So does the answer q of a command o, whatever the server did with it, if what
\* was answered before stays so.
LEMMA TenantAnswers ==
  ASSUME TenantsOK, form' = form, rivals' = rivals, TenantForm(ui'), TenantRow(srv'), srv.next <= srv'.next,
         \A m \in stray' : Deletes(srv, m),
         \A kind, id : (Kept(srv, ui, kind, id) /\ Safe(ui, stray, kind, id))
                       => Kept(srv', ui, kind, id) /\ Safe(ui, stray', kind, id),
         NEW o \in ui.ops, NEW q, TenantOp(q), ui' = [ui EXCEPT !.ops = (@ \ {o}) \cup {q}],
         q.n = o.n, q.cmd = o.cmd, q.dialog = o.dialog, q.draft = o.draft,
         q.at # "sent", o.at \in Pending => q.at \in Pending,
         \A r \in q.rows : r \in srv.rows,
         q.at = "got" => q.rows = srv.rows,
         q.at = "done" => Kept(srv', ui, q.cmd.kind, q.id) /\ Safe(ui, stray', q.cmd.kind, q.id)
  PROVE  TenantsOK'
<1>0. /\ Numbered(ui) /\ Born(srv, ui, stray) /\ Named(ui) /\ Retrying(ui) /\ TenantRow(srv)
      /\ rivals \in Nat /\ (rivals = 0 => Truth(srv, ui, stray) /\ Shown(ui)) /\ TenantForm(ui)
  BY DEF TenantsOK
<1>1. /\ ui'.ops = (ui.ops \ {o}) \cup {q} /\ ui'.rows = ui.rows /\ ui'.acked = ui.acked
      /\ ui'.asked = ui.asked /\ ui'.failure = ui.failure /\ ui'.readback = ui.readback
      /\ ui'.seq = ui.seq /\ ui'.dialog = ui.dialog /\ ui'.draft = ui.draft /\ ui'.name = ui.name
  BY <1>0 DEF TenantForm, Fields
<1>2. \A x \in ui.ops : o.n = x.n => o = x
  BY <1>0 DEF Numbered
<1>3. Numbered(ui')
  BY <1>0, <1>1, <1>2 DEF Numbered
<1>4. /\ srv.next \in Int /\ srv'.next \in Int
      /\ \A i \in Int : i < srv.next => i < srv'.next
      /\ \A m : Deletes(srv, m) => Deletes(srv', m)
  BY <1>0 DEF TenantRow, Deletes
<1>5. \A r \in srv.rows : r.id \in Int /\ r.id < srv.next
  BY <1>0 DEF TenantRow
<1>6. Born(srv', ui', stray')
  <2>1. /\ \A r \in ui.rows : r.id \in Int /\ r.id < srv.next
        /\ \A x \in ui.ops : \A r \in x.rows : r.id \in Int /\ r.id < srv.next
    BY <1>0 DEF Born
  <2>2. /\ \A r \in ui'.rows : r.id \in Int /\ r.id < srv'.next
        /\ \A x \in ui'.ops : \A r \in x.rows : r.id \in Int /\ r.id < srv'.next
    BY <1>1, <1>4, <1>5, <2>1
  <2>3. \A m \in stray' : Deletes(srv', m)
    BY <1>4
  <2>4. \A x \in ui'.ops : x.at = "sent" => Deletes(srv', x.cmd) /\ (x.cmd.kind = "delete" => x.cmd.id \in ui'.asked)
    BY <1>0, <1>1, <1>4 DEF Born
  <2>. QED BY <2>2, <2>3, <2>4 DEF Born
<1>7. Named(ui')
  BY <1>0, <1>1 DEF Named
<1>8. Retrying(ui')
  BY <1>0, <1>1 DEF Retrying
<1>9. rivals = 0 => Truth(srv', ui', stray')
  <2>1. /\ \A s, kind, id : Kept(s, ui, kind, id) => Kept(s, ui', kind, id)
        /\ \A x, kind, id : Safe(ui, x, kind, id) => Safe(ui', x, kind, id)
    BY <1>1 DEF Kept, Safe, Reflects
  <2>. QED BY <1>0, <1>1, <2>1 DEF Truth
<1>10. rivals = 0 => Shown(ui')
  <2>1. \A rows : AllShown(ui, rows) => AllShown(ui', rows)
    BY <1>1, TenantAsked
  <2>2. rivals = 0 => AllShown(ui, srv.rows)
    BY <1>0 DEF Truth, Kept, AllShown
  <2>. QED BY <1>0, <1>1, <2>1, <2>2 DEF Shown
<1>. QED BY <1>0, <1>3, <1>6, <1>7, <1>8, <1>9, <1>10 DEF TenantsOK

\* So does the acknowledgement of a command o, which becomes the newest readback q.
LEMMA TenantReadsAgain ==
  ASSUME TenantsOK, form' = form, srv' = srv, stray' = stray, rivals' = rivals, TenantForm(ui'),
         NEW o \in ui.ops, o.at = "done", NEW q, TenantOp(q), q.n = ui.seq, q.at = "read",
         q.cmd = o.cmd, q.dialog = o.dialog, q.draft = o.draft, q.rows = o.rows,
         NEW told, told.kind = o.cmd.kind, told.id = o.id,
         ui'.ops = (ui.ops \ {o}) \cup {q}, ui'.acked = ui.acked \cup {told},
         ui'.rows = ui.rows, ui'.asked = ui.asked, ui'.failure = ui.failure,
         ui'.readback = ui.seq, ui'.seq = ui.seq + 1,
         ui'.dialog \in {ui.dialog, ui.dialog + 1}, ui'.draft \in {ui.draft, ui.draft + 1},
         ui'.name = ui.name \/ ui'.draft # ui.draft
  PROVE  TenantsOK'
<1>0. /\ Numbered(ui) /\ Born(srv, ui, stray) /\ Named(ui) /\ Retrying(ui) /\ TenantRow(srv)
      /\ rivals \in Nat /\ (rivals = 0 => Truth(srv, ui, stray) /\ Shown(ui))
  BY DEF TenantsOK
<1>1. /\ TenantOp(o)
      /\ ui.seq \in Int /\ \A x \in ui.ops : x.n \in Int /\ x.n < ui.seq
  BY <1>0 DEF Numbered, TenantOp
<1>3. /\ ui'.seq \in Int /\ ui'.readback \in Int /\ ui'.readback < ui'.seq
      /\ \A x \in ui'.ops : x.n < ui'.seq
      /\ \A x \in ui.ops : x.n # q.n
  BY <1>1
<1>4. /\ ui.dialog \in Nat /\ ui.draft \in Nat
      /\ \A x \in ui.ops : /\ x.dialog \in Int /\ x.draft \in Int
                           /\ x.dialog <= ui.dialog /\ x.draft <= ui.draft
  BY <1>0 DEF Numbered, TenantOp
<1>5. /\ ui'.dialog \in Nat /\ ui'.draft \in Nat
      /\ \A x \in ui'.ops : x.dialog <= ui'.dialog /\ x.draft <= ui'.draft
      /\ \A x \in ui'.ops : (x.dialog = ui'.dialog /\ x.draft = ui'.draft)
                            => x.dialog = ui.dialog /\ x.draft = ui.draft /\ ui'.name = ui.name
  BY <1>4
<1>6. Numbered(ui')
  BY <1>0, <1>3, <1>5 DEF Numbered
<1>7. Born(srv, ui', stray)
  BY <1>0 DEF Born
<1>8. Named(ui')
  BY <1>0, <1>5 DEF Named
<1>9. Retrying(ui')
  BY <1>1, <1>3 DEF Retrying, TenantOp, Pending
<1>10. rivals = 0 => Truth(srv, ui', stray)
  <2>1. /\ \A s, kind, id : Kept(s, ui, kind, id) => Kept(s, ui', kind, id)
        /\ \A x, kind, id : Safe(ui, x, kind, id) => Safe(ui', x, kind, id)
    BY DEF Kept, Safe, Reflects
  <2>. QED BY <1>0, <2>1 DEF Truth
<1>11. Shown(ui')
  BY <1>3 DEF Shown, Pending
<1>. QED BY <1>0, <1>6, <1>7, <1>8, <1>9, <1>10, <1>11 DEF TenantsOK

\* So does the end of a command o, which publishes its list only as the newest.
LEMMA TenantEnds ==
  ASSUME TenantsOK, form' = form, srv' = srv, stray' = stray, rivals' = rivals, TenantForm(ui'),
         NEW o \in ui.ops, o.at \in {"got", "unread", "failed"}, ui'.ops = ui.ops \ {o},
         ui'.acked = ui.acked, ui'.asked = ui.asked, ui'.readback = ui.readback, ui'.seq = ui.seq,
         ui'.dialog = ui.dialog, ui'.draft = ui.draft, ui'.name = ui.name,
         \/ o.at = "got" /\ o.n = ui.readback /\ ui'.rows = o.rows /\ ~ui'.failure
         \/ o.at = "unread" /\ o.n = ui.readback /\ o.cmd.kind # "retry" /\ ui'.rows = ui.rows /\ ui'.failure
         \/ /\ ui'.rows = ui.rows /\ ui'.failure = ui.failure
            /\ ~(o.at = "got" /\ o.n = ui.readback)
            /\ ~(o.at = "unread" /\ o.n = ui.readback /\ o.cmd.kind # "retry")
  PROVE  TenantsOK'
<1>0. /\ Numbered(ui) /\ Born(srv, ui, stray) /\ Named(ui) /\ Retrying(ui) /\ TenantRow(srv)
      /\ rivals \in Nat /\ (rivals = 0 => Truth(srv, ui, stray) /\ Shown(ui))
  BY DEF TenantsOK
<1>1. Numbered(ui')
  BY <1>0 DEF Numbered
<1>2. \A x \in ui.ops : x.n = o.n => x = o
  BY <1>0 DEF Numbered
<1>3. Born(srv, ui', stray)
  BY <1>0 DEF Born
<1>4. Named(ui')
  BY <1>0 DEF Named
<1>5. Retrying(ui')
  BY <1>0, <1>2 DEF Retrying
<1>6. rivals = 0 => Truth(srv, ui', stray)
  BY <1>0 DEF Truth, Safe, Kept, Reflects
<1>7. rivals = 0 => Shown(ui')
  <2>1. \A rows : AllShown(ui, rows) => AllShown(ui', rows)
    BY TenantAsked
  <2>2. (o.cmd.kind = "retry" /\ o.n = ui.readback) => ui.failure
    BY <1>0 DEF Retrying
  <2>. QED BY <1>0, <1>2, <2>1, <2>2 DEF Shown, Pending
<1>. QED BY <1>0, <1>1, <1>3, <1>4, <1>5, <1>6, <1>7 DEF TenantsOK

\* A page that is entered shows the list, and has no command.
LEMMA TenantBlank ==
  ASSUME TenantRow(srv), NEW u, u = Tenants!Blank
  PROVE  /\ TenantForm(u) /\ Numbered(u) /\ Named(u) /\ Retrying(u) /\ u.rows = srv.rows
         /\ \A x : (\A m \in x : Deletes(srv, m)) => Born(srv, u, x)
         /\ \A x : Truth(srv, u, x) /\ Shown(u)
<1>1. /\ TenantForm(u) /\ u.rows = srv.rows /\ u.ops = {} /\ u.acked = {} /\ u.seq = 1 /\ u.dialog = 0
      /\ u.draft = 0 /\ u.readback = 0
  BY DEF Tenants!Blank, TenantForm, Fields
<1>. QED
  BY <1>1 DEF TenantRow, Numbered, Named, Retrying, Born, Truth, Shown, AllShown

\* Every step of the page keeps what is so.
LEMMA TenantsStep == ASSUME Counted, TenantsOK, Tenants!Next PROVE TenantsOK'
<1>0. /\ form \in Tenants!Forms /\ TenantForm(ui) /\ TenantRow(srv)
      /\ Numbered(ui) /\ Born(srv, ui, stray) /\ Named(ui) /\ Retrying(ui)
      /\ rivals \in Nat /\ (rivals = 0 => Truth(srv, ui, stray) /\ Shown(ui))
  BY DEF TenantsOK
<1>a. form' = form
  BY TenantCounts
<1>b. /\ ui.seq \in Int /\ ui.dialog \in Nat /\ ui.draft \in Nat
      /\ \A o \in ui.ops : TenantOp(o)
  BY <1>0 DEF Numbered
<1>1. CASE Tenants!typeTenant
  <2>1. PICK v : /\ ui' = [ui EXCEPT !.name = v, !.draft = @ + 1]
                 /\ srv' = srv /\ stray' = stray /\ rivals' = rivals
    BY <1>1 DEF Tenants!typeTenant, Tenants!Stays
  <2>2. /\ TenantForm(ui') /\ ui'.ops = ui.ops /\ ui'.rows = ui.rows /\ ui'.acked = ui.acked
        /\ ui'.asked = ui.asked /\ ui'.failure = ui.failure /\ ui'.readback = ui.readback
        /\ ui'.seq = ui.seq /\ ui'.dialog = ui.dialog /\ ui'.draft = ui.draft + 1
    BY <1>0, <2>1 DEF TenantForm, Fields
  <2>3. ui'.draft # ui.draft
    BY <1>b, <2>2
  <2>. QED BY <1>a, <2>1, <2>2, <2>3, TenantTyping
<1>2. CASE Tenants!changeCreateOpen
  <2>1. /\ ui' = [ui EXCEPT !.open = ~ui.open, !.dialog = @ + 1]
        /\ srv' = srv /\ stray' = stray /\ rivals' = rivals
    BY <1>2 DEF Tenants!changeCreateOpen, Tenants!Stays, Tenants!Toggled
  <2>2. /\ TenantForm(ui') /\ ui'.ops = ui.ops /\ ui'.rows = ui.rows /\ ui'.acked = ui.acked
        /\ ui'.asked = ui.asked /\ ui'.failure = ui.failure /\ ui'.readback = ui.readback
        /\ ui'.seq = ui.seq /\ ui'.dialog = ui.dialog + 1 /\ ui'.draft = ui.draft /\ ui'.name = ui.name
    BY <1>0, <2>1 DEF TenantForm, Fields
  <2>. QED BY <1>a, <2>1, <2>2, TenantTyping

\* A command is started: from a page u with the fields of ui but for those named.
<1>3. ASSUME NEW m, NEW u, TenantForm(u), Tenants!Begin(m, u), m.kind \in {"create", "delete"}, Deletes(srv, m),
             u.rows = ui.rows, u.acked = ui.acked, ui.asked \subseteq u.asked, u.ops = ui.ops, u.seq = ui.seq,
             u.failure = ui.failure, u.dialog = ui.dialog, u.draft = ui.draft, u.name = ui.name,
             u.readback = ui.readback, m.kind = "delete" => m.id \in u.asked,
             m.kind = "create" => m.name = ui.name
      PROVE  TenantsOK'
  <2>1. PICK o : o = [n |-> u.seq, cmd |-> m, at |-> "sent", dialog |-> u.dialog, draft |-> u.draft,
                      id |-> 0, rows |-> {}]
    OBVIOUS
  <2>2. /\ ui' = [u EXCEPT !.seq = @ + 1, !.ops = @ \cup {o}]
        /\ srv' = srv /\ stray' = stray /\ rivals' = rivals
    BY <1>3, <2>1 DEF Tenants!Begin, Tenants!Stays
  <2>3. /\ TenantForm(ui') /\ ui'.ops = ui.ops \cup {o} /\ ui'.rows = ui.rows /\ ui'.acked = ui.acked
        /\ ui.asked \subseteq ui'.asked /\ ui'.asked = u.asked /\ ui'.failure = ui.failure
        /\ ui'.readback = ui.readback /\ ui'.seq = ui.seq + 1 /\ ui'.dialog = ui.dialog
        /\ ui'.draft = ui.draft /\ ui'.name = ui.name
    BY <1>3, <2>2 DEF TenantForm, Fields
  <2>4. /\ o.n = ui.seq /\ o.cmd = m /\ o.at = "sent" /\ o.dialog = ui.dialog /\ o.draft = ui.draft /\ o.rows = {}
        /\ TenantOp(o)
    BY <1>3, <1>b, <2>1 DEF TenantOp, Fields
  <2>5. o.dialog <= ui.dialog /\ o.draft <= ui.draft
    BY <1>b, <2>4
  <2>. QED BY <1>3, <1>a, <2>2, <2>3, <2>4, <2>5, TenantStarts
<1>4. CASE Tenants!handleCreate
  <2>1. PICK m : m = [kind |-> "create", name |-> ui.name]
    OBVIOUS
  <2>2. PICK u : u = [ui EXCEPT !.active = [n |-> ui.seq, dialog |-> ui.dialog]]
    OBVIOUS
  <2>3. Tenants!Begin(m, u)
    BY <1>4, <2>1, <2>2 DEF Tenants!handleCreate
  <2>4. /\ TenantForm(u) /\ u.rows = ui.rows /\ u.acked = ui.acked /\ u.asked = ui.asked /\ u.ops = ui.ops
        /\ u.seq = ui.seq /\ u.failure = ui.failure /\ u.dialog = ui.dialog /\ u.draft = ui.draft
        /\ u.name = ui.name /\ u.readback = ui.readback
    BY <1>0, <2>2 DEF TenantForm, Fields
  <2>5. m.kind = "create" /\ m.name = ui.name /\ Deletes(srv, m)
    BY <2>1 DEF Deletes
  <2>. QED BY <1>3, <2>3, <2>4, <2>5
<1>5. CASE Tenants!handleDelete
  <2>1. PICK r \in ui.rows :
          Tenants!Begin([kind |-> "delete", id |-> r.id],
                        [ui EXCEPT !.deleting = @ \cup {r.id}, !.asked = @ \cup {r.id}])
    BY <1>5 DEF Tenants!handleDelete
  <2>2. PICK m : m = [kind |-> "delete", id |-> r.id]
    OBVIOUS
  <2>3. PICK u : u = [ui EXCEPT !.deleting = @ \cup {r.id}, !.asked = @ \cup {r.id}]
    OBVIOUS
  <2>4. Tenants!Begin(m, u)
    BY <2>1, <2>2, <2>3
  <2>5. /\ TenantForm(u) /\ u.rows = ui.rows /\ u.acked = ui.acked /\ u.asked = ui.asked \cup {r.id}
        /\ u.ops = ui.ops /\ u.seq = ui.seq /\ u.failure = ui.failure /\ u.dialog = ui.dialog
        /\ u.draft = ui.draft /\ u.name = ui.name /\ u.readback = ui.readback
    BY <1>0, <2>3 DEF TenantForm, Fields
  <2>6. r.id \in Int /\ r.id < srv.next
    BY <1>0 DEF Born
  <2>7. m.kind = "delete" /\ m.id = r.id /\ Deletes(srv, m)
    BY <2>2, <2>6 DEF Deletes
  <2>. QED BY <1>3, <2>4, <2>5, <2>7
<1>6. CASE Tenants!retryLoad
  <2>1. PICK o : o = [n |-> ui.seq, cmd |-> [kind |-> "retry"], at |-> "read", dialog |-> 0, draft |-> 0,
                      id |-> 0, rows |-> {}]
    OBVIOUS
  <2>2. /\ ui' = [ui EXCEPT !.seq = @ + 1, !.readback = ui.seq, !.ops = @ \cup {o}] /\ ui.failure
        /\ srv' = srv /\ stray' = stray /\ rivals' = rivals
    BY <1>6, <2>1 DEF Tenants!retryLoad, Tenants!Stays
  <2>3. /\ TenantForm(ui') /\ ui'.ops = ui.ops \cup {o} /\ ui'.rows = ui.rows /\ ui'.acked = ui.acked
        /\ ui'.asked = ui.asked /\ ui'.failure = ui.failure /\ ui'.readback = ui.seq
        /\ ui'.seq = ui.seq + 1 /\ ui'.dialog = ui.dialog /\ ui'.draft = ui.draft /\ ui'.name = ui.name
    BY <1>0, <2>2 DEF TenantForm, Fields
  <2>4. /\ o.n = ui.seq /\ o.cmd.kind = "retry" /\ o.at = "read" /\ o.dialog = 0 /\ o.draft = 0 /\ o.rows = {}
        /\ TenantOp(o)
    BY <1>b, <2>1 DEF TenantOp, Fields, Pending
  <2>5. 0 <= ui.dialog /\ 0 <= ui.draft
    BY <1>b
  <2>. QED BY <1>a, <2>2, <2>3, <2>4, <2>5, TenantStarts

\* A command that is on its way is answered.
<1>7. ASSUME NEW o \in ui.ops, NEW at \in {"done", "failed", "got", "unread"}, NEW id, NEW rows,
             Tenants!Answer(o, at, id, rows),
             rivals' = rivals, TenantRow(srv'), srv.next <= srv'.next,
             \A m \in stray' : Deletes(srv, m),
             \A kind, i : (Kept(srv, ui, kind, i) /\ Safe(ui, stray, kind, i))
                          => Kept(srv', ui, kind, i) /\ Safe(ui, stray', kind, i),
             o.at \in {"sent", "read"}, o.at = "read" <=> at \in Pending,
             rows = {} \/ rows = srv.rows, at = "got" => rows = srv.rows,
             at = "done" => Kept(srv', ui, o.cmd.kind, id) /\ Safe(ui, stray', o.cmd.kind, id)
      PROVE  TenantsOK'
  <2>1. PICK q : q = [o EXCEPT !.at = at, !.id = id, !.rows = rows]
    OBVIOUS
  <2>2. ui' = [ui EXCEPT !.ops = (@ \ {o}) \cup {q}]
    BY <1>7, <2>1 DEF Tenants!Answer, Tenants!Replace
  <2>3. TenantForm(ui')
    BY <1>0, <2>2 DEF TenantForm, Fields
  <2>4. /\ q.n = o.n /\ q.cmd = o.cmd /\ q.dialog = o.dialog /\ q.draft = o.draft
        /\ q.at = at /\ q.id = id /\ q.rows = rows
    BY <1>b, <2>1 DEF TenantOp, Fields
  <2>5. TenantOp(q)
    BY <1>7, <1>b, <2>1, <2>4 DEF TenantOp, Fields, Pending
  <2>6. q.at # "sent" /\ (o.at \in Pending => q.at \in Pending) /\ (\A r \in q.rows : r \in srv.rows)
    BY <1>7, <2>4 DEF Pending
  <2>. QED BY <1>7, <1>a, <2>2, <2>3, <2>4, <2>5, <2>6, TenantAnswers
<1>8. \A m \in stray : Deletes(srv, m)
  BY <1>0 DEF Born
<1>9. ASSUME NEW o \in ui.ops, o.at = "sent", NEW s, s = Tenants!Apply(srv, o.cmd)
      PROVE  /\ Deletes(srv, o.cmd) /\ TenantRow(s) /\ srv.next <= s.next
             /\ \A kind, i : Kept(srv, ui, kind, i) => Kept(s, ui, kind, i)
             /\ Kept(s, ui, o.cmd.kind, IF o.cmd.kind = "create" THEN srv.next ELSE o.cmd.id)
  <2>1. Deletes(srv, o.cmd) /\ (o.cmd.kind = "delete" => o.cmd.id \in ui.asked)
    BY <1>0, <1>9 DEF Born
  <2>. QED BY <1>0, <1>9, <2>1, TenantApply DEF Deletes
<1>10. CASE Tenants!ServeOp
  <2>1. PICK o \in ui.ops : /\ o.at = "sent" /\ srv' = Tenants!Apply(srv, o.cmd)
                            /\ Tenants!Answer(o, "done", Tenants!Named(o), {})
                            /\ stray' = stray /\ rivals' = rivals
    BY <1>10 DEF Tenants!ServeOp
  <2>2. Tenants!Named(o) = IF o.cmd.kind = "create" THEN srv.next ELSE o.cmd.id
    BY DEF Tenants!Named
  <2>3. /\ TenantRow(srv') /\ srv.next <= srv'.next
        /\ \A kind, i : Kept(srv, ui, kind, i) => Kept(srv', ui, kind, i)
        /\ Kept(srv', ui, o.cmd.kind, Tenants!Named(o))
    BY <1>9, <2>1, <2>2
  <2>4. Safe(ui, stray, o.cmd.kind, Tenants!Named(o))
    <3>1. srv.next \in Int /\ \A m \in stray : m.kind = "delete" => m.id # srv.next
      BY <1>0, <1>8 DEF TenantRow, Deletes
    <3>. QED BY <2>2, <3>1 DEF Safe
  <2>. QED BY <1>7, <1>8, <2>1, <2>3, <2>4 DEF Pending
<1>11. CASE Tenants!LoseOp
  <2>1. PICK o \in ui.ops : /\ o.at = "sent" /\ Tenants!Answer(o, "failed", 0, {}) /\ rivals' = rivals
                            /\ \/ srv' \in {srv, Tenants!Apply(srv, o.cmd)} /\ stray' = stray
                               \/ stray' = stray \cup {o.cmd} /\ srv' = srv
    BY <1>11 DEF Tenants!LoseOp
  <2>2. CASE srv' = Tenants!Apply(srv, o.cmd) /\ stray' = stray
    <3>1. /\ TenantRow(srv') /\ srv.next <= srv'.next
          /\ \A kind, i : Kept(srv, ui, kind, i) => Kept(srv', ui, kind, i)
      BY <1>9, <2>1, <2>2
    <3>. QED BY <1>7, <1>8, <2>1, <2>2, <3>1 DEF Pending
  <2>3. srv.next <= srv.next
    BY <1>0 DEF TenantRow
  <2>4. CASE srv' = srv /\ stray' = stray
    BY <1>0, <1>7, <1>8, <2>1, <2>3, <2>4 DEF Pending
  <2>5. CASE srv' = srv /\ stray' = stray \cup {o.cmd}
    <3>1. Deletes(srv, o.cmd) /\ (o.cmd.kind = "delete" => o.cmd.id \in ui.asked)
      BY <1>0, <2>1 DEF Born
    <3>2. \A kind, i : Safe(ui, stray, kind, i) => Safe(ui, stray', kind, i)
      BY <2>5, <3>1 DEF Safe
    <3>. QED BY <1>0, <1>7, <1>8, <2>1, <2>3, <2>5, <3>1, <3>2 DEF Pending
  <2>. QED BY <2>1, <2>2, <2>4, <2>5
<1>12. CASE Tenants!ReadTenants
  <2>1. PICK o \in ui.ops : /\ o.at = "read" /\ srv' = srv /\ stray' = stray /\ rivals' = rivals
                            /\ \/ Tenants!Answer(o, "got", 0, srv.rows)
                               \/ Tenants!Answer(o, "unread", 0, {})
    BY <1>12 DEF Tenants!ReadTenants
  <2>2. srv.next <= srv.next
    BY <1>0 DEF TenantRow
  <2>3. CASE Tenants!Answer(o, "got", 0, srv.rows)
    BY <1>0, <1>7, <1>8, <2>1, <2>2, <2>3 DEF Pending
  <2>4. CASE Tenants!Answer(o, "unread", 0, {})
    BY <1>0, <1>7, <1>8, <2>1, <2>2, <2>4 DEF Pending
  <2>. QED BY <2>1, <2>3, <2>4

\* A command that was left on its way is served, or others change the list.
<1>13. ASSUME ui' = ui, TenantRow(srv'), srv.next <= srv'.next, stray' \subseteq stray,
              \/ rivals' = rivals /\ \A kind, id : (Kept(srv, ui, kind, id) /\ Safe(ui, stray, kind, id))
                                                   => Kept(srv', ui, kind, id)
              \/ rivals' = rivals + 1
       PROVE  TenantsOK'
  <2>1. /\ srv.next \in Int /\ srv'.next \in Int
        /\ \A i \in Int : i < srv.next => i < srv'.next
        /\ \A m : Deletes(srv, m) => Deletes(srv', m)
    BY <1>0, <1>13 DEF TenantRow, Deletes
  <2>2. Born(srv', ui, stray')
    BY <1>0, <1>13, <2>1 DEF Born
  <2>3. \A kind, id : Safe(ui, stray, kind, id) => Safe(ui, stray', kind, id)
    BY <1>13 DEF Safe
  <2>4. rivals' \in Nat /\ (rivals' = 0 => rivals' = rivals)
    BY <1>0, <1>13
  <2>5. rivals' = 0 => Truth(srv', ui, stray')
    BY <1>0, <1>13, <2>3, <2>4 DEF Truth
  <2>. QED BY <1>0, <1>a, <1>13, <2>2, <2>4, <2>5 DEF TenantsOK
<1>14. CASE Tenants!ServeStray
  <2>1. PICK m \in stray : /\ srv' = Tenants!Apply(srv, m) /\ stray' = stray \ {m}
                            /\ ui' = ui /\ rivals' = rivals
    BY <1>14 DEF Tenants!ServeStray
  <2>2. /\ TenantRow(srv') /\ srv.next <= srv'.next
        /\ \A kind, id : (Kept(srv, ui, kind, id) /\ Safe(ui, stray, kind, id)) => Kept(srv', ui, kind, id)
    BY <1>0, <1>8, <2>1, TenantApply DEF Safe
  <2>. QED BY <1>13, <2>1, <2>2
<1>15. CASE Tenants!Rival
  <2>1. PICK m : /\ Deletes(srv, m) /\ srv' = Tenants!Apply(srv, m)
                 /\ stray' = stray /\ ui' = ui /\ rivals' = rivals + 1
    <3>1. CASE Tenants!Others(Tenants!CreateTenant(srv, [name |-> "m"]))
      <4>1. PICK m : m = [kind |-> "create", name |-> "m"]
        OBVIOUS
      <4>2. PICK w : w = [name |-> "m"]
        OBVIOUS
      <4>3. Tenants!CreateTenant(srv, w) = Tenants!Apply(srv, m)
        BY <4>1, <4>2 DEF Tenants!CreateTenant, Tenants!Apply
      <4>. QED BY <3>1, <4>1, <4>2, <4>3 DEF Tenants!Others, Deletes
    <3>2. CASE \E r \in srv.rows : ~r.super /\ Tenants!Others(Tenants!DeleteTenant(srv, r))
      <4>1. PICK r \in srv.rows : Tenants!Others(Tenants!DeleteTenant(srv, r))
        BY <3>2
      <4>2. PICK m : m = [kind |-> "delete", id |-> r.id]
        OBVIOUS
      <4>3. Tenants!DeleteTenant(srv, r) = Tenants!Apply(srv, m)
        BY <4>2 DEF Tenants!DeleteTenant, Tenants!Apply
      <4>4. r.id \in Int /\ r.id < srv.next
        BY <1>0, <4>1 DEF TenantRow
      <4>. QED BY <4>1, <4>2, <4>3, <4>4 DEF Tenants!Others, Deletes
    <3>. QED BY <1>15, <3>1, <3>2 DEF Tenants!Rival
  <2>2. TenantRow(srv') /\ srv.next <= srv'.next
    BY <1>0, <2>1, TenantApply
  <2>. QED BY <1>13, <2>1, <2>2
<1>16. CASE Tenants!Acknowledged
  <2>1. PICK o, told, a, u, w :
          /\ o \in ui.ops
          /\ o.at = "done" /\ told = [kind |-> o.cmd.kind, id |-> o.id]
          /\ u = [ui EXCEPT !.acked = @ \cup {told}, !.active = a]
          /\ w = u \/ w = [Tenants!Toggled(u, FALSE) EXCEPT !.name = "", !.draft = @ + 1]
          /\ ui' = Tenants!ReadAgain(w, o)
          /\ srv' = srv /\ stray' = stray /\ rivals' = rivals
    BY <1>16 DEF Tenants!Acknowledged, Tenants!Stays
  <2>2. /\ TenantForm(u) /\ u.acked = ui.acked \cup {told} /\ u.rows = ui.rows /\ u.asked = ui.asked
        /\ u.ops = ui.ops /\ u.seq = ui.seq /\ u.failure = ui.failure /\ u.dialog = ui.dialog
        /\ u.draft = ui.draft /\ u.name = ui.name
    BY <1>0, <2>1 DEF TenantForm, Fields
  <2>3. /\ TenantForm(w) /\ w.acked = ui.acked \cup {told} /\ w.rows = ui.rows /\ w.asked = ui.asked
        /\ w.ops = ui.ops /\ w.seq = ui.seq /\ w.failure = ui.failure
        /\ \/ w.dialog = ui.dialog /\ w.draft = ui.draft /\ w.name = ui.name
           \/ w.dialog = ui.dialog + 1 /\ w.draft = ui.draft + 1
    <3>1. CASE w = u
      BY <2>2, <3>1
    <3>2. CASE w = [Tenants!Toggled(u, FALSE) EXCEPT !.name = "", !.draft = @ + 1]
      <4>1. PICK x : x = Tenants!Toggled(u, FALSE)
        OBVIOUS
      <4>2. /\ TenantForm(x) /\ x.acked = ui.acked \cup {told} /\ x.rows = ui.rows /\ x.asked = ui.asked
            /\ x.ops = ui.ops /\ x.seq = ui.seq /\ x.failure = ui.failure /\ x.dialog = ui.dialog + 1
            /\ x.draft = ui.draft
        BY <2>2, <4>1 DEF TenantForm, Fields, Tenants!Toggled
      <4>3. w = [x EXCEPT !.name = "", !.draft = @ + 1]
        BY <3>2, <4>1
      <4>. QED BY <4>2, <4>3 DEF TenantForm, Fields
    <3>. QED BY <2>1, <3>1, <3>2
  <2>4. PICK q : q = [o EXCEPT !.at = "read", !.n = w.seq]
    OBVIOUS
  <2>o. o \in ui.ops
    BY <2>1
  <2>5. /\ TenantOp(q) /\ q.n = ui.seq /\ q.at = "read" /\ q.cmd = o.cmd /\ q.dialog = o.dialog
        /\ q.draft = o.draft /\ q.rows = o.rows
    BY <1>b, <2>o, <2>3, <2>4 DEF TenantOp, Fields, Pending
  <2>6. ui' = [w EXCEPT !.ops = (@ \ {o}) \cup {q}, !.readback = w.seq, !.seq = @ + 1]
    BY <2>1, <2>4 DEF Tenants!ReadAgain
  <2>7. /\ TenantForm(ui') /\ ui'.ops = (ui.ops \ {o}) \cup {q} /\ ui'.acked = ui.acked \cup {told}
        /\ ui'.rows = ui.rows /\ ui'.asked = ui.asked /\ ui'.failure = ui.failure
        /\ ui'.readback = ui.seq /\ ui'.seq = ui.seq + 1
        /\ ui'.dialog = w.dialog /\ ui'.draft = w.draft /\ ui'.name = w.name
    BY <2>3, <2>6 DEF TenantForm, Fields
  <2>8. told.kind = o.cmd.kind /\ told.id = o.id
    BY <2>1
  <2>9. ui'.name = ui.name \/ ui'.draft # ui.draft
    BY <1>b, <2>3, <2>7
  <2>. QED BY <1>a, <2>1, <2>3, <2>5, <2>7, <2>8, <2>9, TenantReadsAgain
<1>17. CASE Tenants!refreshTenants
  <2>1. PICK o, u :
          /\ o \in ui.ops
          /\ o.at \in {"got", "unread", "failed"} /\ ui' = Tenants!Finished(u, o)
          /\ u = (CASE o.at = "got" /\ Tenants!newest(ui, o) -> [ui EXCEPT !.rows = o.rows, !.failure = FALSE]
                    [] o.at = "unread" /\ Tenants!newest(ui, o) /\ o.cmd.kind # "retry" ->
                         [ui EXCEPT !.failure = TRUE]
                    [] OTHER -> ui)
          /\ srv' = srv /\ stray' = stray /\ rivals' = rivals
    BY <1>17 DEF Tenants!refreshTenants, Tenants!Stays
  <2>2. /\ TenantForm(u) /\ u.ops = ui.ops /\ u.acked = ui.acked /\ u.asked = ui.asked
        /\ u.readback = ui.readback /\ u.seq = ui.seq /\ u.dialog = ui.dialog /\ u.draft = ui.draft
        /\ u.name = ui.name
        /\ \/ o.at = "got" /\ o.n = ui.readback /\ u.rows = o.rows /\ ~u.failure
           \/ /\ o.at = "unread" /\ o.n = ui.readback /\ o.cmd.kind # "retry"
              /\ u.rows = ui.rows /\ u.failure
           \/ /\ u.rows = ui.rows /\ u.failure = ui.failure
              /\ ~(o.at = "got" /\ o.n = ui.readback)
              /\ ~(o.at = "unread" /\ o.n = ui.readback /\ o.cmd.kind # "retry")
    <3>1. CASE o.at = "got" /\ Tenants!newest(ui, o)
      <4>1. u = [ui EXCEPT !.rows = o.rows, !.failure = FALSE] /\ o.n = ui.readback
        BY <2>1, <3>1 DEF Tenants!newest
      <4>. QED BY <1>0, <3>1, <4>1 DEF TenantForm, Fields
    <3>2. CASE o.at = "unread" /\ Tenants!newest(ui, o) /\ o.cmd.kind # "retry"
      <4>1. u = [ui EXCEPT !.failure = TRUE] /\ o.n = ui.readback
        BY <2>1, <3>2 DEF Tenants!newest
      <4>. QED BY <1>0, <3>2, <4>1 DEF TenantForm, Fields
    <3>3. CASE ~(o.at = "got" /\ Tenants!newest(ui, o))
               /\ ~(o.at = "unread" /\ Tenants!newest(ui, o) /\ o.cmd.kind # "retry")
      <4>1. u = ui
        BY <2>1, <3>3
      <4>. QED BY <1>0, <3>3, <4>1 DEF Tenants!newest
    <3>. QED BY <3>1, <3>2, <3>3
  <2>3. /\ TenantForm(ui') /\ ui'.ops = u.ops \ {o} /\ ui'.rows = u.rows /\ ui'.acked = u.acked
        /\ ui'.asked = u.asked /\ ui'.failure = u.failure /\ ui'.readback = u.readback
        /\ ui'.seq = u.seq /\ ui'.dialog = u.dialog /\ ui'.draft = u.draft /\ ui'.name = u.name
    <3>1. PICK a, d : ui' = [u EXCEPT !.ops = @ \ {o}, !.active = a, !.deleting = d]
      BY <2>1 DEF Tenants!Finished
    <3>. QED BY <2>2, <3>1 DEF TenantForm, Fields
  <2>4. /\ TenantForm(ui') /\ ui'.ops = ui.ops \ {o} /\ ui'.acked = ui.acked /\ ui'.asked = ui.asked
        /\ ui'.readback = ui.readback /\ ui'.seq = ui.seq /\ ui'.dialog = ui.dialog
        /\ ui'.draft = ui.draft /\ ui'.name = ui.name
    BY <2>2, <2>3
  <2>5. \/ o.at = "got" /\ o.n = ui.readback /\ ui'.rows = o.rows /\ ~ui'.failure
        \/ o.at = "unread" /\ o.n = ui.readback /\ o.cmd.kind # "retry" /\ ui'.rows = ui.rows /\ ui'.failure
        \/ /\ ui'.rows = ui.rows /\ ui'.failure = ui.failure
           /\ ~(o.at = "got" /\ o.n = ui.readback)
           /\ ~(o.at = "unread" /\ o.n = ui.readback /\ o.cmd.kind # "retry")
    BY <2>2, <2>3
  <2>6. /\ o \in ui.ops /\ o.at \in {"got", "unread", "failed"}
        /\ srv' = srv /\ stray' = stray /\ rivals' = rivals
    BY <2>1
  <2>. QED BY <1>a, <2>4, <2>5, <2>6, TenantEnds
<1>18. CASE Tenants!Revalidate
  <2>1. ui' = [ui EXCEPT !.rows = srv.rows] /\ srv' = srv /\ stray' = stray /\ rivals' = rivals
    BY <1>18 DEF Tenants!Revalidate, Tenants!Stays
  <2>2. /\ TenantForm(ui') /\ ui'.ops = ui.ops /\ ui'.rows = srv.rows /\ ui'.acked = ui.acked
        /\ ui'.asked = ui.asked /\ ui'.failure = ui.failure /\ ui'.readback = ui.readback
        /\ ui'.seq = ui.seq /\ ui'.dialog = ui.dialog /\ ui'.draft = ui.draft /\ ui'.name = ui.name
    BY <1>0, <2>1 DEF TenantForm, Fields
  <2>3. Numbered(ui') /\ Named(ui') /\ Retrying(ui')
    BY <1>0, <2>2 DEF Numbered, Named, Retrying
  <2>4. Born(srv, ui', stray)
    BY <1>0, <2>2 DEF Born, TenantRow
  <2>5. rivals = 0 => Truth(srv, ui', stray)
    BY <1>0, <2>2 DEF Truth, Safe, Kept, Reflects
  <2>6. rivals = 0 => Shown(ui')
    <3>1. \A rows : AllShown(ui, rows) => AllShown(ui', rows)
      BY <2>2, TenantAsked
    <3>2. rivals = 0 => AllShown(ui, srv.rows)
      BY <1>0 DEF Truth, Kept, AllShown
    <3>. QED BY <1>0, <2>2, <3>1, <3>2 DEF Shown
  <2>. QED BY <1>0, <1>a, <2>1, <2>2, <2>3, <2>4, <2>5, <2>6 DEF TenantsOK
<1>19. CASE Tenants!Remount
  <2>1. /\ ui' = Tenants!Blank /\ srv' = srv /\ rivals' = rivals
        /\ stray' = stray \cup {o.cmd : o \in {x \in ui.ops : x.at = "sent"}}
    BY <1>19 DEF Tenants!Remount
  <2>2. \A m \in stray' : Deletes(srv, m)
    BY <1>0, <2>1 DEF Born
  <2>. QED BY <1>0, <1>a, <2>1, <2>2, TenantBlank DEF TenantsOK, TenantRow
<1>. QED
  BY <1>1, <1>2, <1>4, <1>5, <1>6, <1>10, <1>11, <1>12, <1>14, <1>15, <1>16, <1>17, <1>18, <1>19
  DEF Tenants!Next

\* So they are on a page that is entered.
LEMMA TenantsBegin == ASSUME Tenants!Init PROVE TenantsOK /\ Counted
<1>1. Counted /\ rivals = 0 /\ stray = {} /\ form \in Tenants!Forms /\ ui = Tenants!Blank
  BY DEF Tenants!Init, Tenants!Quiet, Counted
<1>2. TenantRow(srv)
  <2>1. PICK root, m : /\ srv = [rows |-> {root, m}, next |-> 3]
                       /\ root = [id |-> 1, name |-> "root", super |-> TRUE]
                       /\ m = [id |-> 2, name |-> "m", super |-> FALSE]
    BY DEF Tenants!Init
  <2>2. Fields(srv, {"rows", "next"}) /\ srv.rows = {root, m} /\ srv.next = 3 /\ root.id = 1 /\ m.id = 2
    BY <2>1 DEF Fields
  <2>. QED BY <2>2 DEF TenantRow
<1>. QED BY <1>1, <1>2, TenantBlank DEF TenantsOK

\* What was acknowledged is in the list, unless a readback or a warning is up.
LEMMA TenantsMean == ASSUME TenantsOK PROVE Tenants!AcknowledgedShown
<1>. SUFFICES ASSUME rivals = 0, ~ui.failure, \A o \in ui.ops : o.at \in {"sent", "done"}, NEW m \in ui.acked
              PROVE  IF m.kind = "create" THEN m.id \in Tenants!Ids(ui.rows) \cup ui.asked
                     ELSE m.id \notin Tenants!Ids(ui.rows)
  BY DEF Tenants!AcknowledgedShown
<1>1. \A o \in ui.ops : o.at \notin Pending
  BY DEF Pending
<1>2. Reflects(ui, ui.rows, m.kind, m.id)
  BY <1>1 DEF TenantsOK, Shown, AllShown
<1>. QED BY <1>2 DEF Reflects, Tenants!Ids

\* The name that was typed leaves the dialog only with the tenant it names.
LEMMA TenantsTyped == ASSUME Counted, TenantsOK, Tenants!Next PROVE Tenants!TypedKept
<1>1. moves # moves + 1
  BY DEF Counted
<1>. SUFFICES ASSUME ui.name # "", ui'.name # ui.name, moves' = moves
              PROVE  \E o \in ui.ops : /\ o \notin ui'.ops /\ o.at = "done"
                                       /\ o.dialog = ui.dialog /\ o.draft = ui.draft /\ o.cmd.name = ui.name
  BY DEF Tenants!TypedKept
<1>0. TenantForm(ui) /\ Numbered(ui) /\ Named(ui)
  BY DEF TenantsOK
<1>2. ASSUME NEW f, ui' = f, f.name = ui.name PROVE FALSE
  BY <1>2
<1>3. ~(Tenants!typeTenant \/ Tenants!changeCreateOpen \/ Tenants!retryLoad \/ Tenants!Remount)
  BY <1>1 DEF Tenants!typeTenant, Tenants!changeCreateOpen, Tenants!retryLoad, Tenants!Remount, Tenants!Move
<1>4. ~(Tenants!handleCreate \/ Tenants!handleDelete)
  <2>1. ASSUME NEW m, NEW u, u.name = ui.name, TenantForm(u), Tenants!Begin(m, u) PROVE FALSE
    <3>1. PICK x, y : ui' = [u EXCEPT !.seq = x, !.ops = y]
      BY <2>1 DEF Tenants!Begin
    <3>2. ui'.name = u.name
      BY <2>1, <3>1 DEF TenantForm, Fields
    <3>. QED BY <2>1, <3>2
  <2>2. ASSUME NEW a PROVE LET u == [ui EXCEPT !.active = a] IN u.name = ui.name /\ TenantForm(u)
    BY <1>0 DEF TenantForm, Fields
  <2>3. ASSUME NEW a, NEW d PROVE LET u == [ui EXCEPT !.deleting = d, !.asked = a] IN u.name = ui.name /\ TenantForm(u)
    BY <1>0 DEF TenantForm, Fields
  <2>4. ~Tenants!handleCreate
    BY <2>1, <2>2 DEF Tenants!handleCreate
  <2>5. ~Tenants!handleDelete
    BY <2>1, <2>3 DEF Tenants!handleDelete
  <2>. QED BY <2>4, <2>5
<1>5. ~(Tenants!ServeOp \/ Tenants!LoseOp \/ Tenants!ReadTenants \/ Tenants!Revalidate \/ Tenants!ServeStray \/ Tenants!Rival)
  <2>1. ASSUME NEW x, ui' = [ui EXCEPT !.ops = x] PROVE FALSE
    BY <1>0, <2>1 DEF TenantForm, Fields
  <2>2. ASSUME NEW x, ui' = [ui EXCEPT !.rows = x] PROVE FALSE
    BY <1>0, <2>2 DEF TenantForm, Fields
  <2>3. \A o, at, id, rows : ~Tenants!Answer(o, at, id, rows)
    BY <2>1 DEF Tenants!Answer
  <2>4. ui' # ui
    OBVIOUS
  <2>. QED
    BY <2>2, <2>3, <2>4
    DEF Tenants!ServeOp, Tenants!LoseOp, Tenants!ReadTenants, Tenants!Revalidate,
        Tenants!ServeStray, Tenants!Rival, Tenants!Others
<1>6. ~Tenants!refreshTenants
  <2>1. ASSUME NEW o, NEW u, TenantForm(u), u.name = ui.name, ui' = Tenants!Finished(u, o) PROVE FALSE
    <3>1. PICK x, a, d : ui' = [u EXCEPT !.ops = x, !.active = a, !.deleting = d]
      BY <2>1 DEF Tenants!Finished
    <3>2. ui'.name = u.name
      BY <2>1, <3>1 DEF TenantForm, Fields
    <3>. QED BY <2>1, <3>2
  <2>2. \A rows : LET u == [ui EXCEPT !.rows = rows, !.failure = FALSE] IN TenantForm(u) /\ u.name = ui.name
    BY <1>0 DEF TenantForm, Fields
  <2>3. LET u == [ui EXCEPT !.failure = TRUE] IN TenantForm(u) /\ u.name = ui.name
    BY <1>0 DEF TenantForm, Fields
  <2>4. ASSUME Tenants!refreshTenants
        PROVE  \E o, u : /\ u = ui \/ u = [ui EXCEPT !.failure = TRUE]
                            \/ \E rows : u = [ui EXCEPT !.rows = rows, !.failure = FALSE]
                         /\ ui' = Tenants!Finished(u, o)
    BY <2>4 DEF Tenants!refreshTenants
  <2>. QED BY <1>0, <2>1, <2>2, <2>3, <2>4
<1>7. CASE Tenants!Acknowledged
  <2>1. PICK o, told, a, u :
          /\ o \in ui.ops
          /\ o.at = "done" /\ u = [ui EXCEPT !.acked = told, !.active = a]
          /\ ui' = Tenants!ReadAgain(IF o.cmd.kind = "create" /\ Tenants!submitted(u, o)
                                     THEN [Tenants!Toggled(u, FALSE) EXCEPT !.name = "", !.draft = @ + 1]
                                     ELSE u, o)
    BY <1>7 DEF Tenants!Acknowledged
  <2>2. TenantForm(u) /\ u.name = ui.name /\ u.dialog = ui.dialog /\ u.draft = ui.draft /\ u.ops = ui.ops
    BY <1>0, <2>1 DEF TenantForm, Fields
  <2>3. o.cmd.kind = "create" /\ Tenants!submitted(u, o)
    <3>1. SUFFICES ASSUME ~(o.cmd.kind = "create" /\ Tenants!submitted(u, o)) PROVE FALSE
      OBVIOUS
    <3>2. ui' = Tenants!ReadAgain(u, o)
      BY <2>1, <3>1
    <3>3. PICK x, y, z : ui' = [u EXCEPT !.ops = x, !.readback = y, !.seq = z]
      BY <3>2 DEF Tenants!ReadAgain
    <3>4. ui'.name = u.name
      BY <2>2, <3>3 DEF TenantForm, Fields
    <3>. QED BY <2>2, <3>4
  <2>4. o.dialog = ui.dialog /\ o.draft = ui.draft
    BY <2>2, <2>3 DEF Tenants!submitted
  <2>o. o \in ui.ops
    BY <2>1
  <2>5. o.cmd.name = ui.name
    BY <1>0, <2>o, <2>3, <2>4 DEF Named
  <2>6. o \notin ui'.ops
    <3>1. PICK w : w = [Tenants!Toggled(u, FALSE) EXCEPT !.name = "", !.draft = @ + 1]
      OBVIOUS
    <3>2. TenantForm(w) /\ w.ops = ui.ops
      <4>1. PICK x : x = Tenants!Toggled(u, FALSE)
        OBVIOUS
      <4>2. TenantForm(x) /\ x.ops = ui.ops
        BY <2>2, <4>1 DEF Tenants!Toggled, TenantForm, Fields
      <4>3. w = [x EXCEPT !.name = "", !.draft = @ + 1]
        BY <3>1, <4>1
      <4>. QED BY <4>2, <4>3 DEF TenantForm, Fields
    <3>3. ui' = Tenants!ReadAgain(w, o)
      BY <2>1, <2>3, <3>1
    <3>4. PICK q : q = [o EXCEPT !.at = "read", !.n = w.seq]
      OBVIOUS
    <3>5. ui' = [w EXCEPT !.ops = (@ \ {o}) \cup {q}, !.readback = w.seq, !.seq = @ + 1]
      BY <3>3, <3>4 DEF Tenants!ReadAgain
    <3>6. ui'.ops = (ui.ops \ {o}) \cup {q}
      BY <3>2, <3>5 DEF TenantForm, Fields
    <3>7. q.at = "read"
      <4>1. TenantOp(o)
        BY <1>0, <2>o DEF Numbered
      <4>. QED BY <3>4, <4>1 DEF TenantOp, Fields
    <3>. QED BY <2>1, <3>6, <3>7
  <2>. QED BY <2>1, <2>4, <2>5, <2>6
<1>. QED BY <1>3, <1>4, <1>5, <1>6, <1>7 DEF Tenants!Next

-----------------------------------------------------------------------------
(* The dialogs of a tenant.                                                *)

DialogForm(u) ==
  Fields(u, {"data", "failed", "created", "scopes", "revoked", "edits", "invalid", "unsure"})
DialogRun(r) == Fields(r, {"op", "mine", "steady"})

\* Keys are issued under ids of their own, which are not used again.
Issued(s, id) == id \in Nat /\ id < s.next
Gone(s, id) == Issued(s, id) /\ \A k \in s.keys : k.id # id
KeyRow(s) ==
  Fields(s, {"keys", "next"}) /\ s.next \in Nat /\ \A k \in s.keys : Issued(s, k.id)

KeyNet(n) == n # None => Packet(n) /\ n.cmd.kind \in {"read", "createKey", "revokeKey"}
KeyRun(r, n) ==
  r # None =>
    \/ DialogRun(r) /\ r.op = "create" /\ r.mine /\ (n # None => n.cmd.kind = "createKey")
    \/ /\ Fields(r, {"id", "op", "mine", "steady"}) /\ r.op = "revoke"
       /\ n # None => n.cmd.kind = "revokeKey" /\ n.cmd.id = r.id
    \/ DialogRun(r) /\ r.op \in Dialogs!Reads /\ (n # None => n.cmd.kind = "read")

\* A key that was created is listed unless a read is due, and a key that was
\* revoked is not.
KeysShown(s, u, r, n) ==
  /\ u.created # None => Issued(s, u.created.id)
  /\ \A id \in u.revoked : Gone(s, id)
  /\ \A k \in u.data : k.id \notin u.revoked
  /\ u.created \in s.keys => u.failed \/ u.created \in u.data \/ (r # None /\ r.op = "readback")
  /\ Acknowledged(r, n, "create") => Issued(s, n.answer.data.id)
  /\ Acknowledged(r, n, "revoke") => Gone(s, r.id)
  /\ Acknowledged(r, n, "reload") \/ Acknowledged(r, n, "readback")
       => /\ u.created \in s.keys => u.created \in n.answer.data
          /\ \A k \in n.answer.data : k.id \notin u.revoked
KeysOK ==
  /\ KeyRow(srv) /\ DialogForm(ui) /\ KeyNet(net) /\ KeyRun(run, net)
  /\ KeysShown(srv, ui, run, net)
  /\ \A m \in stray : m.kind \in {"createKey", "revokeKey"}

\* A save stores the numbers that were shown.
LimitPatch(m) == m.kind = "patch" /\ \A k \in Dialogs!fields : m.shown[k] = Dialogs!String(m.body[k])
LimitNet(n) == n # None => Packet(n) /\ (n.cmd.kind = "read" \/ LimitPatch(n.cmd))
LimitRun(r, n) ==
  r # None =>
    \/ DialogRun(r) /\ r.op \in Dialogs!Reads /\ (n # None => n.cmd.kind = "read")
    \/ /\ Fields(r, {"body", "op", "mine", "steady"}) /\ r.op = "readback"
       /\ n # None => n.cmd.kind = "read"
    \/ /\ Fields(r, {"body", "op", "mine", "steady"}) /\ r.op = "save" /\ r.mine
       /\ n # None => n.cmd.kind = "patch" /\ n.cmd.body = r.body
KeptDraft(u) == \A k \in DOMAIN u.edits : Fields(u.edits[k], {"whole", "frac"})

\* While no save is in doubt the form starts from what is stored, but for a save
\* that was answered and is still to be read.
SaveAnswered(r, n) == r # None /\ r.op = "save" /\ n # None /\ n.answer # None
LimitsShown(s, u, r, n, str, x) ==
  /\ ~SaveAnswered(r, n) => str = {} /\ u.data = s
  /\ Acknowledged(r, n, "save") => str = {} /\ s = r.body
  /\ (SaveAnswered(r, n) /\ ~n.answer.ok /\ x = 0) => str = {} /\ u.data = s
  /\ Acknowledged(r, n, "reload") \/ Acknowledged(r, n, "readback") => n.answer.data = s
LimitsOK ==
  /\ DialogForm(ui) /\ KeptDraft(ui) /\ LimitNet(net) /\ LimitRun(run, net) /\ (net # None => run # None)
  /\ \A m \in stray : LimitPatch(m)
  /\ rivals = 0 /\ ~ui.unsure => LimitsShown(srv, ui, run, net, stray, lost)

DialogsOK == (form = "keys" => KeysOK) /\ (form = "overrides" => LimitsOK)

\* The page keeps count, and does not change its form.
LEMMA DialogCounts ==
  ASSUME Counted, Dialogs!Next PROVE Counted' /\ form' = form
<1>1. /\ form' = form /\ moves' \in {moves, moves + 1} /\ rivals' \in {rivals, rivals + 1}
      /\ lost' \in {lost, lost + 1}
  BY DEF Dialogs!Next, Dialogs!toggle, Dialogs!create, Dialogs!Created, Dialogs!revoke,
     Dialogs!Revoked, Dialogs!change, Dialogs!refuse, Dialogs!save, Dialogs!Saved, Dialogs!retry,
     Dialogs!ReadDone, Dialogs!Revalidate, Dialogs!Remount,
     Dialogs!Rival, Dialogs!Serve, Dialogs!Lose, Dialogs!ServeStray,
     Dialogs!Type, Dialogs!Look, Dialogs!Read, Dialogs!Write, Dialogs!End, Dialogs!Then,
     Dialogs!Refresh, Dialogs!RefreshFails, Dialogs!Reenter, Dialogs!Abandon, Dialogs!Others,
     Dialogs!ServeBy, Dialogs!LoseBy, Dialogs!StrayBy, Dialogs!Here, Dialogs!Move, Dialogs!Call
<1>. QED BY <1>1 DEF Counted

\* A request that sets out.
LEMMA DialogSent ==
  ASSUME NEW m, Dialogs!Send(m)
  PROVE  Packet(net') /\ net'.cmd = m /\ net'.answer = None
<1>1. net' = [cmd |-> m, answer |-> None]
  BY DEF Dialogs!Send
<1>. QED BY <1>1 DEF Packet

\* The actions of the dialogs.
LEMMA DialogStart ==
  ASSUME NEW op \in {"create", "revoke", "reload", "save"}
  PROVE  /\ LET r == Dialogs!Start(op, <<>>) IN DialogRun(r) /\ r.op = op /\ r.mine
         /\ \A x : LET r == Dialogs!Start(op, [id |-> x]) IN
              Fields(r, {"id", "op", "mine", "steady"}) /\ r.op = op /\ r.id = x
         /\ \A x : LET r == Dialogs!Start(op, [body |-> x]) IN
              Fields(r, {"body", "op", "mine", "steady"}) /\ r.op = op /\ r.body = x /\ r.mine
<1>1. LET r == Dialogs!Start(op, <<>>) IN DialogRun(r) /\ r.op = op /\ r.mine
  <2>1. DOMAIN <<>> = {}
    OBVIOUS
  <2>2. Dialogs!Start(op, <<>>) = [op |-> op, mine |-> TRUE, steady |-> TRUE]
    BY <2>1 DEF Dialogs!Start, Dialogs!Over
  <2>. QED BY <2>2 DEF DialogRun, Fields
<1>2. ASSUME NEW x
      PROVE  LET r == Dialogs!Start(op, [id |-> x]) IN
             Fields(r, {"id", "op", "mine", "steady"}) /\ r.op = op /\ r.id = x
  <2>1. Dialogs!Start(op, [id |-> x]) \in [id : {x}, op : {op}, mine : BOOLEAN, steady : BOOLEAN]
    BY DEF Dialogs!Start, Dialogs!Over
  <2>. QED BY <2>1 DEF Fields
<1>3. ASSUME NEW x
      PROVE  LET r == Dialogs!Start(op, [body |-> x]) IN
             Fields(r, {"body", "op", "mine", "steady"}) /\ r.op = op /\ r.body = x /\ r.mine
  <2>1. Dialogs!Start(op, [body |-> x]) \in [body : {x}, op : {op}, mine : {TRUE}, steady : BOOLEAN]
    BY DEF Dialogs!Start, Dialogs!Over
  <2>. QED BY <2>1 DEF Fields
<1>. QED BY <1>1, <1>2, <1>3

\* The keys of a later state are those of an earlier one and newly issued ones.
KeysLater(s, t) ==
  /\ t.next \in Nat /\ s.next <= t.next
  /\ \A k \in t.keys : k \in s.keys \/ (k # None /\ k.id = s.next)

\* What is known of the keys stays so.
LEMMA KeysStay ==
  ASSUME NEW s, NEW t, KeyRow(s), KeysLater(s, t)
  PROVE  /\ \A id : Issued(s, id) => Issued(t, id)
         /\ \A id : Gone(s, id) => Gone(t, id)
         /\ \A k : (k \in t.keys /\ (k # None => Issued(s, k.id))) => k \in s.keys
<1>1. \A id : Issued(s, id) => Issued(t, id)
  BY DEF Issued, KeysLater, KeyRow
<1>2. ASSUME NEW id, Gone(s, id) PROVE Gone(t, id)
  <2>1. \A k \in t.keys : k.id # id
    BY <1>2 DEF Gone, Issued, KeysLater, KeyRow
  <2>. QED BY <1>1, <1>2, <2>1 DEF Gone
<1>3. ASSUME NEW k \in t.keys, k # None => Issued(s, k.id) PROVE k \in s.keys
  BY <1>3 DEF Issued, KeysLater, KeyRow
<1>. QED BY <1>1, <1>2, <1>3

\* What a request for keys does.
LEMMA KeyRequest ==
  ASSUME NoneApart, form = "keys", NEW s, KeyRow(s), NEW m,
         m.kind \in {"read", "createKey", "revokeKey"}, NEW o \in Dialogs!Handle(s, m)
  PROVE  /\ KeyRow(o.srv) /\ KeysLater(s, o.srv)
         /\ m.kind = "read" => o.srv = s /\ o.a.data = s.keys
         /\ (m.kind = "createKey" /\ o.a.ok) => Issued(o.srv, o.a.data.id)
         /\ (m.kind = "revokeKey" /\ o.a.ok) => Gone(o.srv, m.id)
<1>0. KeysLater(s, s)
  BY DEF KeysLater, KeyRow
<1>1. CASE m.kind = "read"
  <2>1. o.srv = s /\ o.a.data = s.keys
    BY <1>1 DEF Dialogs!Handle, Dialogs!Out, Dialogs!Yes
  <2>. QED BY <1>0, <1>1, <2>1
<1>2. CASE m.kind = "createKey"
  <2>. DEFINE k == [id |-> s.next, scopes |-> m.scopes]
              t == [s EXCEPT !.keys = @ \cup {k}, !.next = @ + 1]
  <2>1. o.srv = t /\ o.a.data = k
    BY <1>2 DEF Dialogs!Handle, Dialogs!CreateAPIKey, Dialogs!Out, Dialogs!Yes
  <2>2. /\ Fields(t, {"keys", "next"}) /\ t.keys = s.keys \cup {k} /\ t.next = s.next + 1
    BY DEF KeyRow, Fields
  <2>3. Fields(k, {"id", "scopes"}) /\ k.id = s.next
    BY DEF Fields
  <2>4. k # None
    BY <2>3, SomeRecord
  <2>. HIDE DEF k, t
  <2>5. KeyRow(t)
    BY <2>2, <2>3 DEF KeyRow, Issued
  <2>6. KeysLater(s, t)
    BY <2>2, <2>3, <2>4 DEF KeyRow, KeysLater
  <2>7. Issued(t, k.id)
    BY <2>2, <2>3 DEF KeyRow, Issued
  <2>. QED BY <1>2, <2>1, <2>5, <2>6, <2>7
<1>3. CASE m.kind = "revokeKey"
  <2>. DEFINE t == [s EXCEPT !.keys = {k \in @ : k.id # m.id}]
  <2>1. \/ o.srv = s /\ ~o.a.ok
        \/ o.srv = t /\ m.id \in {k.id : k \in s.keys}
    BY <1>3 DEF Dialogs!Handle, Dialogs!DeleteAPIKeyForTenant, Dialogs!Out, Dialogs!No
  <2>2. /\ Fields(t, {"keys", "next"}) /\ t.keys = {k \in s.keys : k.id # m.id} /\ t.next = s.next
    BY DEF KeyRow, Fields
  <2>. HIDE DEF t
  <2>3. KeyRow(t) /\ KeysLater(s, t)
    BY <2>2 DEF KeyRow, Issued, KeysLater
  <2>4. m.id \in {k.id : k \in s.keys} => Gone(t, m.id)
    BY <2>2 DEF KeyRow, Issued, Gone
  <2>. QED BY <1>0, <1>3, <2>1, <2>3, <2>4
<1>. QED BY <1>1, <1>2, <1>3

\* Whatever happens to the keys, created ones are listed and revoked ones are not.
LEMMA KeysStep ==
  ASSUME NoneApart, form = "keys", KeysOK, Dialogs!Next
  PROVE  KeysOK'
<1>0. /\ KeyRow(srv) /\ DialogForm(ui) /\ KeyNet(net) /\ KeyRun(run, net)
      /\ KeysShown(srv, ui, run, net)
      /\ \A m \in stray : m.kind \in {"createKey", "revokeKey"}
  BY DEF KeysOK
<1>1. ASSUME srv' = srv, stray' = stray, NEW u, ui' = u, DialogForm(u), KeyNet(net'),
             KeyRun(run', net'), KeysShown(srv, u, run', net')
      PROVE  KeysOK'
  BY <1>0, <1>1 DEF KeysOK
<1>2. CASE Dialogs!toggle
  <2>1. /\ srv' = srv /\ stray' = stray /\ net' = net
        /\ run = None \/ run.op = "reload"
        /\ run' = IF run = None THEN None ELSE [run EXCEPT !.mine = FALSE]
        /\ \E x : ui' = [ui EXCEPT !.scopes = x]
    BY <1>2
    DEF Dialogs!toggle, Dialogs!Type, Dialogs!Here, Dialogs!Edited, Dialogs!operation
  <2>2. /\ DialogForm(ui') /\ ui'.created = ui.created /\ ui'.revoked = ui.revoked
        /\ ui'.data = ui.data /\ ui'.failed = ui.failed
    BY <1>0, <2>1 DEF DialogForm, Fields
  <2>3. /\ KeyRun(run', net') /\ (run' # None => run # None /\ run'.op = run.op)
        /\ run # None => run'.op = run.op /\ run.op = "reload"
    BY <1>0, <2>1 DEF KeyRun, DialogRun, Dialogs!Reads, Fields
  <2>4. KeysShown(srv, ui', run', net')
    BY <1>0, <2>1, <2>2, <2>3 DEF KeysShown, Acknowledged
  <2>. QED BY <1>0, <1>1, <2>1, <2>2, <2>3, <2>4
<1>3. CASE Dialogs!create
  <2>1. /\ srv' = srv /\ stray' = stray /\ ui' = ui /\ run = None
        /\ run' = Dialogs!Start("create", <<>>)
        /\ Dialogs!Send([kind |-> "createKey", scopes |-> ui.scopes])
    BY <1>3 DEF Dialogs!create, Dialogs!Write, Dialogs!Here, Dialogs!Idle
  <2>2. Packet(net') /\ net'.cmd.kind = "createKey" /\ net'.answer = None
    BY <2>1, DialogSent
  <2>3. KeyNet(net') /\ KeyRun(run', net')
    BY <2>1, <2>2, DialogStart DEF KeyNet, KeyRun
  <2>4. KeysShown(srv, ui, run', net')
    BY <1>0, <2>1, <2>2 DEF KeysShown, Acknowledged
  <2>. QED BY <1>0, <1>1, <2>1, <2>3, <2>4
<1>4. CASE Dialogs!Created
  <2>1. /\ run # None /\ run.op = "create" /\ net # None /\ net.answer # None
        /\ srv' = srv /\ stray' = stray
        /\ \/ ui' = ui /\ run' = None /\ net' = None
           \/ /\ net.answer.ok /\ run' = [run EXCEPT !.op = "readback"]
              /\ Dialogs!Send([kind |-> "read"])
              /\ ui' = [ui EXCEPT !.created = net.answer.data, !.scopes = Dialogs!DEFAULT_API_KEY_SCOPES]
    BY <1>4
    DEF Dialogs!Created, Dialogs!Doing, Dialogs!Answered, Dialogs!Got, Dialogs!Then, Dialogs!End,
        Dialogs!Step, Dialogs!Stop, Dialogs!Hang, Dialogs!Here
  <2>2. CASE ui' = ui /\ run' = None /\ net' = None
    BY <1>0, <1>1, <2>1, <2>2 DEF KeyNet, KeyRun, KeysShown, Acknowledged
  <2>3. CASE /\ net.answer.ok /\ run' = [run EXCEPT !.op = "readback"]
             /\ Dialogs!Send([kind |-> "read"])
             /\ ui' = [ui EXCEPT !.created = net.answer.data, !.scopes = Dialogs!DEFAULT_API_KEY_SCOPES]
    <3>1. Packet(net') /\ net'.cmd.kind = "read" /\ net'.answer = None
      BY <2>3, DialogSent
    <3>2. DialogRun(run)
      BY <1>0, <2>1 DEF KeyRun, Dialogs!Reads
    <3>3. DialogRun(run') /\ run'.op = "readback"
      BY <2>3, <3>2 DEF DialogRun, Fields
    <3>4. KeyNet(net') /\ KeyRun(run', net') /\ run' # None
      BY <3>1, <3>3, SomeRecord DEF KeyNet, KeyRun, Dialogs!Reads, DialogRun
    <3>5. /\ DialogForm(ui') /\ ui'.created = net.answer.data /\ ui'.revoked = ui.revoked
          /\ ui'.data = ui.data
      BY <1>0, <2>3 DEF DialogForm, Fields
    <3>6. KeysShown(srv, ui', run', net')
      BY <1>0, <2>1, <2>3, <3>1, <3>3, <3>4, <3>5 DEF KeysShown, Acknowledged
    <3>. QED BY <1>1, <2>1, <3>4, <3>5, <3>6
  <2>. QED BY <2>1, <2>2, <2>3
<1>5. CASE Dialogs!revoke
  <2>1. PICK k \in ui.data :
        /\ srv' = srv /\ stray' = stray /\ ui' = ui /\ run = None
        /\ run' = Dialogs!Start("revoke", [id |-> k.id])
        /\ Dialogs!Send([kind |-> "revokeKey", id |-> k.id])
    BY <1>5 DEF Dialogs!revoke, Dialogs!Write, Dialogs!Here, Dialogs!Idle
  <2>2. PICK x, m : /\ x = k.id /\ m = [kind |-> "revokeKey", id |-> x]
                    /\ run' = Dialogs!Start("revoke", [id |-> x]) /\ Dialogs!Send(m)
    BY <2>1
  <2>3. Packet(net') /\ net'.cmd.kind = "revokeKey" /\ net'.cmd.id = x /\ net'.answer = None
    BY <2>2, DialogSent
  <2>4. Fields(run', {"id", "op", "mine", "steady"}) /\ run'.op = "revoke" /\ run'.id = x
    BY <2>2, DialogStart
  <2>5. KeyNet(net') /\ KeyRun(run', net')
    BY <2>3, <2>4 DEF KeyNet, KeyRun
  <2>6. KeysShown(srv, ui, run', net')
    BY <1>0, <2>1, <2>3 DEF KeysShown, Acknowledged
  <2>. QED BY <1>0, <1>1, <2>1, <2>5, <2>6
<1>6. CASE Dialogs!Revoked
  <2>1. /\ run # None /\ run.op = "revoke" /\ net # None /\ net.answer # None
        /\ srv' = srv /\ stray' = stray /\ run' = None /\ net' = None
        /\ ui' = ui \/ (net.answer.ok /\ ui' = Dialogs!withoutRow(ui, run.id))
    BY <1>6
    DEF Dialogs!Revoked, Dialogs!Doing, Dialogs!Answered, Dialogs!Got, Dialogs!End,
        Dialogs!Stop, Dialogs!Hang, Dialogs!Here
  <2>2. CASE ui' = ui
    BY <1>0, <1>1, <2>1, <2>2 DEF KeyNet, KeyRun, KeysShown, Acknowledged
  <2>3. CASE net.answer.ok /\ ui' = Dialogs!withoutRow(ui, run.id)
    <3>1. /\ DialogForm(ui') /\ ui'.created = ui.created /\ ui'.revoked = ui.revoked \cup {run.id}
          /\ ui'.data = {k \in ui.data : k.id # run.id} /\ ui'.failed = ui.failed
      BY <1>0, <2>3 DEF Dialogs!withoutRow, DialogForm, Fields
    <3>2. Gone(srv, run.id)
      BY <1>0, <2>1, <2>3 DEF KeysShown, Acknowledged
    <3>3. ui'.created \in srv.keys => ui'.failed \/ ui'.created \in ui'.data
      BY <1>0, <2>1, <3>1, <3>2 DEF KeysShown, Gone
    <3>4. KeysShown(srv, ui', run', net')
      BY <1>0, <2>1, <3>1, <3>2, <3>3 DEF KeysShown, Acknowledged
    <3>. QED BY <1>1, <2>1, <3>1, <3>4 DEF KeyNet, KeyRun
  <2>. QED BY <2>1, <2>2, <2>3
<1>7. CASE Dialogs!retry
  <2>1. /\ srv' = srv /\ stray' = stray /\ ui' = ui /\ run = None
        /\ run' = Dialogs!Start("reload", <<>>) /\ Dialogs!Send([kind |-> "read"])
    BY <1>7 DEF Dialogs!retry, Dialogs!Read, Dialogs!Here, Dialogs!Idle
  <2>2. Packet(net') /\ net'.cmd.kind = "read" /\ net'.answer = None
    BY <2>1, DialogSent
  <2>3. KeyNet(net') /\ KeyRun(run', net')
    BY <2>1, <2>2, DialogStart DEF KeyNet, KeyRun, Dialogs!Reads
  <2>4. KeysShown(srv, ui, run', net')
    BY <1>0, <2>1, <2>2 DEF KeysShown, Acknowledged
  <2>. QED BY <1>0, <1>1, <2>1, <2>3, <2>4
<1>8. CASE Dialogs!ReadDone
  <2>1. /\ run # None /\ run.op \in Dialogs!Reads /\ net # None /\ net.answer # None
        /\ srv' = srv /\ stray' = stray /\ run' = None /\ net' = None
        /\ \/ net.answer.ok /\ ui' = [ui EXCEPT !.data = net.answer.data, !.failed = FALSE]
           \/ ui' = [ui EXCEPT !.failed = TRUE]
    BY <1>8
    DEF Dialogs!ReadDone, Dialogs!Reading, Dialogs!Answered, Dialogs!Got, Dialogs!End,
        Dialogs!Stop, Dialogs!Hang, Dialogs!Here
  <2>2. /\ DialogForm(ui') /\ ui'.created = ui.created /\ ui'.revoked = ui.revoked
        /\ \/ net.answer.ok /\ ui'.data = net.answer.data
           \/ ui'.data = ui.data /\ ui'.failed
    BY <1>0, <2>1 DEF DialogForm, Fields
  <2>3. KeysShown(srv, ui', run', net')
    BY <1>0, <2>1, <2>2 DEF KeysShown, Acknowledged, Dialogs!Reads
  <2>. QED BY <1>1, <2>1, <2>2, <2>3 DEF KeyNet, KeyRun
<1>9. CASE Dialogs!Revalidate
  <2>1. /\ run # None => run.op \notin Dialogs!Reads
        /\ srv' = srv /\ stray' = stray /\ net' = net
        /\ run' = IF run = None THEN None ELSE [run EXCEPT !.steady = FALSE]
        /\ \/ ui' = [ui EXCEPT !.data = srv.keys, !.failed = FALSE]
           \/ ui' = [ui EXCEPT !.failed = TRUE]
    BY <1>9
    DEF Dialogs!Revalidate, Dialogs!Refresh, Dialogs!RefreshFails, Dialogs!Here, Dialogs!Moved,
        Dialogs!Reading, Dialogs!Fresh
  <2>2. /\ DialogForm(ui') /\ ui'.created = ui.created /\ ui'.revoked = ui.revoked
        /\ \/ ui'.data = srv.keys
           \/ ui'.data = ui.data /\ ui'.failed
    BY <1>0, <2>1 DEF DialogForm, Fields
  <2>3. /\ KeyRun(run', net')
        /\ run' # None => run # None /\ run'.op = run.op /\ (run.op = "revoke" => run'.id = run.id)
    BY <1>0, <2>1 DEF KeyRun, DialogRun, Fields, Dialogs!Reads
  <2>4. \A k \in ui'.data : k.id \notin ui'.revoked
    BY <1>0, <2>2 DEF KeysShown, Gone
  <2>5. KeysShown(srv, ui', run', net')
    BY <1>0, <2>1, <2>2, <2>3, <2>4 DEF KeysShown, Acknowledged, Dialogs!Reads
  <2>. QED BY <1>0, <1>1, <2>1, <2>2, <2>3, <2>5
<1>10. CASE Dialogs!Remount
  <2>1. /\ srv' = srv /\ stray' = stray \cup Dialogs!Dropped(Dialogs!Writes) /\ net' = None /\ run' = None
        /\ ui' = [Dialogs!Blank EXCEPT !.unsure = ui.unsure \/ (run # None /\ run.op = "save")]
    BY <1>10 DEF Dialogs!Remount, Dialogs!Reenter, Dialogs!Abandon
  <2>2. Dialogs!Blank =
          [data |-> srv.keys, failed |-> FALSE, created |-> None,
           scopes |-> Dialogs!DEFAULT_API_KEY_SCOPES,
           revoked |-> {}, edits |-> <<>>, invalid |-> {}, unsure |-> FALSE]
    BY DEF Dialogs!Blank, Dialogs!Fresh
  <2>3. DialogForm(ui') /\ ui'.created = None /\ ui'.revoked = {} /\ ui'.data = srv.keys
    BY <2>1, <2>2 DEF DialogForm, Fields
  <2>4. \A m \in stray' : m.kind \in {"createKey", "revokeKey"}
    BY <1>0, <2>1 DEF Dialogs!Dropped, Dialogs!Unanswered, Dialogs!Writes, KeyNet
  <2>5. KeysShown(srv, ui', run', net')
    BY <2>1, <2>3 DEF KeysShown, Acknowledged
  <2>. QED BY <1>0, <2>1, <2>3, <2>4, <2>5 DEF KeysOK, KeyNet, KeyRun
<1>11. ASSUME NEW s, srv' = s, KeyRow(s), KeysLater(srv, s), ui' = ui, run' = run,
              \A m \in stray' : m.kind \in {"createKey", "revokeKey"}
       PROVE  /\ KeysShown(s, ui, run, net)
              /\ net' = net => KeysOK'
  <2>1. KeysShown(s, ui, run, net)
    <3>. DEFINE later == /\ \A id : Issued(srv, id) => Issued(s, id)
                         /\ \A id : Gone(srv, id) => Gone(s, id)
                         /\ \A k : (k \in s.keys /\ (k # None => Issued(srv, k.id))) => k \in srv.keys
    <3>1. later
      BY <1>0, <1>11, KeysStay
    <3>. QED BY <1>0, <3>1 DEF KeysShown
  <2>. QED BY <1>0, <1>11, <2>1 DEF KeysOK
<1>12. CASE Dialogs!Rival
  <2>1. PICK k \in srv.keys : Dialogs!Others(Dialogs!DeleteAPIKeyForTenant(srv, k).srv)
    BY <1>12 DEF Dialogs!Rival
  <2>2. PICK m, o : m = [kind |-> "revokeKey", id |-> k.id] /\ o = Dialogs!DeleteAPIKeyForTenant(srv, m)
    OBVIOUS
  <2>3. m.kind = "revokeKey" /\ m.id = k.id
    BY <2>2
  <2>4. o \in Dialogs!Handle(srv, m)
    BY <2>2, <2>3 DEF Dialogs!Handle
  <2>5. Dialogs!DeleteAPIKeyForTenant(srv, k) = o
    BY <2>2, <2>3 DEF Dialogs!DeleteAPIKeyForTenant
  <2>6. srv' = o.srv /\ net' = net /\ stray' = stray /\ ui' = ui /\ run' = run
    BY <2>1, <2>5 DEF Dialogs!Others
  <2>7. KeyRow(o.srv) /\ KeysLater(srv, o.srv)
    BY <1>0, <1>12, <2>3, <2>4, KeyRequest
  <2>. QED BY <1>0, <1>11, <2>6, <2>7
<1>13. ASSUME net # None PROVE Packet(net) /\ net.cmd.kind \in {"read", "createKey", "revokeKey"}
  BY <1>0, <1>13 DEF KeyNet
<1>14. ASSUME NEW s, srv' = s, KeyRow(s), KeysLater(srv, s), ui' = ui, run' = run,
              \A m \in stray' : m.kind \in {"createKey", "revokeKey"},
              net # None, NEW a, net' = [net EXCEPT !.answer = a],
              a.ok => \E o \in Dialogs!Handle(srv, net.cmd) : s = o.srv /\ a = o.a
       PROVE  KeysOK'
  <2>1. KeysShown(s, ui, run, net)
    BY <1>11, <1>14
  <2>2. Packet(net') /\ net'.cmd = net.cmd /\ net'.answer = a
    BY <1>13, <1>14 DEF Packet
  <2>3. KeyNet(net') /\ KeyRun(run', net')
    BY <1>0, <1>14, <2>2 DEF KeyNet, KeyRun
  <2>4. /\ (a.ok /\ net.cmd.kind = "read") => a.data = s.keys
        /\ (a.ok /\ net.cmd.kind = "createKey") => Issued(s, a.data.id)
        /\ (a.ok /\ net.cmd.kind = "revokeKey") => Gone(s, net.cmd.id)
    BY <1>0, <1>13, <1>14, KeyRequest
  <2>5. /\ Acknowledged(run, net', "create") => Issued(s, net'.answer.data.id)
        /\ Acknowledged(run, net', "revoke") => Gone(s, run.id)
        /\ Acknowledged(run, net', "reload") \/ Acknowledged(run, net', "readback")
             => net'.answer.data = s.keys
    BY <1>0, <1>14, <2>2, <2>4 DEF Acknowledged, KeyRun, Dialogs!Reads
  <2>6. \A k \in s.keys : k.id \notin ui.revoked
    BY <2>1 DEF KeysShown, Gone
  <2>7. KeysShown(s, ui, run, net')
    BY <2>1, <2>5, <2>6 DEF KeysShown
  <2>. QED BY <1>0, <1>14, <2>3, <2>7 DEF KeysOK
<1>15. CASE Dialogs!Serve
  <2>1. PICK o \in Dialogs!Handle(srv, net.cmd) :
          /\ net # None /\ stray' = stray /\ ui' = ui /\ run' = run
          /\ srv' = o.srv /\ net' = [net EXCEPT !.answer = o.a]
    BY <1>15 DEF Dialogs!Serve, Dialogs!ServeBy, Dialogs!Unanswered, Dialogs!Reply
  <2>2. KeyRow(o.srv) /\ KeysLater(srv, o.srv)
    BY <1>0, <1>13, <2>1, KeyRequest
  <2>. QED BY <1>0, <1>14, <2>1, <2>2
<1>16. CASE Dialogs!Lose
  <2>1. /\ net # None /\ ui' = ui /\ run' = run
        /\ srv' = srv \/ \E o \in Dialogs!Handle(srv, net.cmd) : srv' = o.srv
        /\ \E a : ~a.ok /\ net' = [net EXCEPT !.answer = a]
        /\ stray' = stray \/ (net.cmd.kind \in Dialogs!Writes /\ stray' = stray \cup {net.cmd})
    BY <1>16
    DEF Dialogs!Lose, Dialogs!LoseBy, Dialogs!Unanswered, Dialogs!Reply, Dialogs!No, Dialogs!Garbled
  <2>2. \A m \in stray' : m.kind \in {"createKey", "revokeKey"}
    BY <1>0, <1>13, <2>1 DEF Dialogs!Writes
  <2>3. KeysLater(srv, srv)
    BY <1>0 DEF KeysLater, KeyRow
  <2>4. KeyRow(srv') /\ KeysLater(srv, srv')
    BY <1>0, <1>13, <2>1, <2>3, KeyRequest
  <2>. QED BY <1>14, <2>1, <2>2, <2>4
<1>17. CASE Dialogs!ServeStray
  <2>1. PICK m \in stray : /\ net' = net /\ stray' = stray \ {m} /\ ui' = ui /\ run' = run
                           /\ \E o \in Dialogs!Handle(srv, m) : srv' = o.srv
    BY <1>17 DEF Dialogs!ServeStray, Dialogs!StrayBy
  <2>2. KeyRow(srv') /\ KeysLater(srv, srv')
    BY <1>0, <2>1, KeyRequest
  <2>. QED BY <1>0, <1>11, <2>1, <2>2
<1>18. CASE Dialogs!Saved
  BY <1>0, <1>18 DEF Dialogs!Saved, Dialogs!Doing, KeyRun, Dialogs!Reads
<1>. QED
  BY <1>2, <1>3, <1>4, <1>5, <1>6, <1>7, <1>8, <1>9, <1>10, <1>12, <1>15, <1>16, <1>17, <1>18
  DEF Dialogs!Next, Dialogs!change, Dialogs!refuse, Dialogs!save

\* What a request for limits does.
LEMMA LimitRequest ==
  ASSUME form = "overrides", NEW s, NEW m, m.kind = "read" \/ LimitPatch(m),
         NEW o \in Dialogs!Handle(s, m)
  PROVE  /\ m.kind = "read" => o.srv = s /\ o.a.data = s /\ o.a = Dialogs!Yes(s)
         /\ m.kind = "patch" => \/ o.srv = m.body /\ o.a = Dialogs!Yes(None)
                                \/ o.srv = s /\ o.a = Dialogs!No
<1>1. CASE m.kind = "read"
  BY <1>1 DEF Dialogs!Handle, Dialogs!Out, Dialogs!Yes
<1>2. CASE m.kind = "patch"
  <2>1. o = Dialogs!Out(m.body, Dialogs!Yes(None)) \/ o = Dialogs!Out(s, Dialogs!No)
    BY <1>2 DEF Dialogs!Handle, Dialogs!UpdateTenantOverride
  <2>. QED BY <1>2, <2>1 DEF Dialogs!Out
<1>. QED BY <1>1, <1>2 DEF LimitPatch

\* A number that may be sent is shown as it is stored.
LEMMA LimitExact ==
  ASSUME NEW u, KeptDraft(u), Dialogs!errors(u) = {}, NEW k \in Dialogs!fields
  PROVE  Dialogs!value(u, k) = Dialogs!String(Dialogs!body(u)[k])
<1>. DEFINE v == Dialogs!value(u, k)
<1>1. v = Dialogs!Empty \/ Dialogs!integer(v)
  BY DEF Dialogs!errors
<1>2. Dialogs!body(u)[k] = IF v = Dialogs!Empty THEN None ELSE Dialogs!Number(v)
  BY DEF Dialogs!body
<1>3. Fields(v, {"whole", "frac"})
  BY DEF KeptDraft, Dialogs!value, Dialogs!String, Dialogs!Empty, Dialogs!Typed, Fields
<1>. HIDE DEF v
<1>4. CASE v = Dialogs!Empty
  BY <1>2, <1>4 DEF v, Dialogs!String
<1>5. CASE v # Dialogs!Empty
  <2>1. Dialogs!Number(v) # None /\ v.frac = "none" /\ Dialogs!Number(v) = v.whole
    BY <1>1, <1>5 DEF Dialogs!integer, Dialogs!fractional, Dialogs!Number
  <2>2. v = [whole |-> v.whole, frac |-> v.frac]
    BY <1>3 DEF Fields
  <2>3. v = Dialogs!Typed(v.whole)
    BY <2>1, <2>2 DEF Dialogs!Typed
  <2>. QED BY <1>2, <1>5, <2>1, <2>3 DEF v, Dialogs!String
<1>. QED BY <1>4, <1>5

\* Whatever happens to the limits, the form starts from what is stored.
LEMMA LimitsStep ==
  ASSUME NoneApart, form = "overrides", Counted, LimitsOK, Dialogs!Next
  PROVE  LimitsOK'
<1>0. /\ DialogForm(ui) /\ KeptDraft(ui) /\ LimitNet(net) /\ LimitRun(run, net)
      /\ net # None => run # None
      /\ \A m \in stray : LimitPatch(m)
      /\ rivals = 0 /\ ~ui.unsure => LimitsShown(srv, ui, run, net, stray, lost)
      /\ lost \in Nat /\ rivals \in Nat
  BY DEF LimitsOK, Counted
<1>1. ASSUME srv' = srv, stray' = stray, lost' = lost, rivals' = rivals, NEW u, ui' = u,
             DialogForm(u), KeptDraft(u), LimitNet(net'), LimitRun(run', net'), net' # None => run' # None,
             rivals = 0 /\ ~u.unsure => LimitsShown(srv, u, run', net', stray, lost)
      PROVE  LimitsOK'
  BY <1>0, <1>1 DEF LimitsOK
<1>2. CASE Dialogs!change
  <2>1. PICK k \in Dialogs!fields, t \in {Dialogs!Empty} \cup Dialogs!Numbers :
        /\ srv' = srv /\ stray' = stray /\ net' = net /\ lost' = lost /\ rivals' = rivals
        /\ run = None \/ run.op = "reload"
        /\ run' = IF run = None THEN None ELSE [run EXCEPT !.mine = FALSE]
        /\ ui' = [ui EXCEPT !.edits = IF t = Dialogs!String(ui.data[k])
                                      THEN [x \in DOMAIN @ \ {k} |-> @[x]]
                                      ELSE Dialogs!With(@, k, t),
                            !.invalid = @ \ {k}]
    BY <1>2
    DEF Dialogs!change, Dialogs!Type, Dialogs!Here, Dialogs!Edited, Dialogs!operation
  <2>2. /\ DialogForm(ui') /\ ui'.unsure = ui.unsure /\ ui'.data = ui.data
        /\ \/ ui'.edits = [x \in DOMAIN ui.edits \ {k} |-> ui.edits[x]]
           \/ ui'.edits = Dialogs!With(ui.edits, k, t)
    BY <1>0, <2>1 DEF DialogForm, Fields
  <2>3. Fields(t, {"whole", "frac"})
    BY DEF Dialogs!Empty, Dialogs!Numbers, Dialogs!Typed, Fields
  <2>4. KeptDraft(ui')
    <3>1. \A x \in DOMAIN ui'.edits : ui'.edits[x] = t \/ (x \in DOMAIN ui.edits /\ ui'.edits[x] = ui.edits[x])
      BY <2>2 DEF Dialogs!With
    <3>. QED BY <1>0, <2>3, <3>1 DEF KeptDraft
  <2>5. /\ LimitRun(run', net') /\ (run' # None => run # None /\ run'.op = run.op)
        /\ run # None => run' # None
    <3>1. CASE run = None
      BY <1>0, <2>1, <3>1 DEF LimitRun
    <3>2. CASE run # None
      <4>1. DialogRun(run) /\ run.op = "reload" /\ (net # None => net.cmd.kind = "read")
        BY <1>0, <2>1, <3>2 DEF LimitRun, Dialogs!Reads
      <4>2. run' = [run EXCEPT !.mine = FALSE]
        BY <2>1, <3>2
      <4>3. DialogRun(run') /\ run'.op = "reload"
        BY <4>1, <4>2 DEF DialogRun, Fields
      <4>. QED BY <2>1, <3>2, <4>1, <4>3, SomeRecord DEF LimitRun, Dialogs!Reads, DialogRun
    <3>. QED BY <3>1, <3>2
  <2>6. rivals = 0 /\ ~ui'.unsure => LimitsShown(srv, ui', run', net', stray, lost)
    BY <1>0, <2>1, <2>2, <2>5 DEF LimitsShown, Acknowledged, SaveAnswered
  <2>. QED BY <1>0, <1>1, <2>1, <2>2, <2>4, <2>5, <2>6
<1>3. CASE Dialogs!refuse
  <2>1. /\ srv' = srv /\ stray' = stray /\ net' = net /\ run' = run /\ lost' = lost
        /\ rivals' = rivals /\ \E x : ui' = [ui EXCEPT !.invalid = x]
    BY <1>3 DEF Dialogs!refuse, Dialogs!Look, Dialogs!Here
  <2>2. DialogForm(ui') /\ ui'.edits = ui.edits /\ ui'.unsure = ui.unsure /\ ui'.data = ui.data
    BY <1>0, <2>1 DEF DialogForm, Fields
  <2>3. KeptDraft(ui')
    BY <1>0, <2>2 DEF KeptDraft
  <2>4. rivals = 0 /\ ~ui'.unsure => LimitsShown(srv, ui', run', net', stray, lost)
    BY <1>0, <2>1, <2>2 DEF LimitsShown
  <2>. QED BY <1>0, <1>1, <2>1, <2>2, <2>3, <2>4
<1>4. CASE Dialogs!save
  <2>1. /\ srv' = srv /\ stray' = stray /\ run = None /\ lost' = lost /\ rivals' = rivals
        /\ Dialogs!errors(ui) = {}
        /\ run' = Dialogs!Start("save", [body |-> Dialogs!body(ui)])
        /\ Dialogs!Send([kind |-> "patch", body |-> Dialogs!body(ui),
                         shown |-> [k \in Dialogs!fields |-> Dialogs!value(ui, k)]])
        /\ ui' = [ui EXCEPT !.invalid = {}]
    BY <1>4 DEF Dialogs!save, Dialogs!Write, Dialogs!Here, Dialogs!Idle
  <2>2. PICK b, f, m : /\ b = Dialogs!body(ui)
                       /\ f = [k \in Dialogs!fields |-> Dialogs!value(ui, k)]
                       /\ m = [kind |-> "patch", body |-> b, shown |-> f]
                       /\ run' = Dialogs!Start("save", [body |-> b]) /\ Dialogs!Send(m)
    BY <2>1
  <2>3. DialogForm(ui') /\ ui'.edits = ui.edits /\ ui'.unsure = ui.unsure /\ ui'.data = ui.data
    BY <1>0, <2>1 DEF DialogForm, Fields
  <2>4. KeptDraft(ui')
    BY <1>0, <2>3 DEF KeptDraft
  <2>5. \A k \in Dialogs!fields : f[k] = Dialogs!String(b[k])
    BY <1>0, <2>1, <2>2, LimitExact
  <2>6. LimitPatch(m) /\ m.body = b /\ m.kind = "patch"
    BY <2>2, <2>5 DEF LimitPatch
  <2>7. Packet(net') /\ net'.cmd = m /\ net'.answer = None
    BY <2>2, DialogSent
  <2>8. Fields(run', {"body", "op", "mine", "steady"}) /\ run'.op = "save" /\ run'.body = b /\ run'.mine
    BY <2>2, DialogStart
  <2>9. LimitNet(net') /\ LimitRun(run', net') /\ run' # None
    BY <2>6, <2>7, <2>8, SomeRecord DEF LimitNet, LimitRun
  <2>10. rivals = 0 /\ ~ui'.unsure => LimitsShown(srv, ui', run', net', stray, lost)
    BY <1>0, <2>1, <2>3, <2>7 DEF LimitsShown, Acknowledged, SaveAnswered
  <2>. QED BY <1>1, <2>1, <2>3, <2>4, <2>9, <2>10
<1>5. CASE Dialogs!Saved
  <2>1. /\ run # None /\ run.op = "save" /\ net # None /\ net.answer # None
        /\ srv' = srv /\ stray' = stray /\ lost' = lost /\ rivals' = rivals
        /\ \/ /\ net.answer.ok /\ run' = [run EXCEPT !.op = "readback"]
              /\ Dialogs!Send([kind |-> "read"])
              /\ ui' = Dialogs!baseline(ui, run.body)
           \/ /\ ~net.answer.ok /\ run' = None /\ net' = None
              /\ ui' = [ui EXCEPT !.unsure = @ \/ lost > 0]
    BY <1>5
    DEF Dialogs!Saved, Dialogs!Doing, Dialogs!Answered, Dialogs!Got, Dialogs!Then, Dialogs!End,
        Dialogs!Step, Dialogs!Stop, Dialogs!Hang, Dialogs!Here
  <2>2. CASE /\ net.answer.ok /\ run' = [run EXCEPT !.op = "readback"]
             /\ Dialogs!Send([kind |-> "read"])
             /\ ui' = Dialogs!baseline(ui, run.body)
    <3>1. Packet(net') /\ net'.cmd.kind = "read" /\ net'.answer = None
      BY <2>2, DialogSent
    <3>2. Fields(run, {"body", "op", "mine", "steady"})
      BY <1>0, <2>1 DEF LimitRun, Dialogs!Reads
    <3>3. Fields(run', {"body", "op", "mine", "steady"}) /\ run'.op = "readback"
      BY <2>2, <3>2 DEF Fields
    <3>4. LimitNet(net') /\ LimitRun(run', net') /\ run' # None
      BY <3>1, <3>3, SomeRecord DEF LimitNet, LimitRun
    <3>5. DialogForm(ui') /\ ui'.data = run.body /\ ui'.edits = <<>> /\ ui'.unsure = ui.unsure
      BY <1>0, <2>2 DEF Dialogs!baseline, DialogForm, Fields
    <3>6. KeptDraft(ui')
      BY <3>5 DEF KeptDraft
    <3>7. rivals = 0 /\ ~ui'.unsure => LimitsShown(srv, ui', run', net', stray, lost)
      BY <1>0, <2>1, <2>2, <3>1, <3>3, <3>5 DEF LimitsShown, Acknowledged, SaveAnswered
    <3>. QED BY <1>1, <2>1, <3>4, <3>5, <3>6, <3>7
  <2>3. CASE /\ ~net.answer.ok /\ run' = None /\ net' = None
             /\ ui' = [ui EXCEPT !.unsure = @ \/ lost > 0]
    <3>1. /\ DialogForm(ui') /\ ui'.data = ui.data /\ ui'.edits = ui.edits
          /\ ~ui'.unsure => ~ui.unsure /\ ~(lost > 0)
      BY <1>0, <2>3 DEF DialogForm, Fields
    <3>2. KeptDraft(ui')
      BY <1>0, <3>1 DEF KeptDraft
    <3>3. ~ui'.unsure => ~ui.unsure /\ lost = 0
      BY <1>0, <3>1
    <3>4. rivals = 0 /\ ~ui'.unsure => LimitsShown(srv, ui', run', net', stray, lost)
      BY <1>0, <2>1, <2>3, <3>1, <3>3 DEF LimitsShown, Acknowledged, SaveAnswered
    <3>. QED BY <1>1, <2>1, <2>3, <3>1, <3>2, <3>4 DEF LimitNet, LimitRun
  <2>. QED BY <2>1, <2>2, <2>3
<1>6. CASE Dialogs!retry
  <2>1. /\ srv' = srv /\ stray' = stray /\ ui' = ui /\ run = None
        /\ lost' = lost /\ rivals' = rivals
        /\ run' = Dialogs!Start("reload", <<>>) /\ Dialogs!Send([kind |-> "read"])
    BY <1>6 DEF Dialogs!retry, Dialogs!Read, Dialogs!Here, Dialogs!Idle
  <2>2. Packet(net') /\ net'.cmd.kind = "read" /\ net'.answer = None
    BY <2>1, DialogSent
  <2>3. DialogRun(run') /\ run'.op = "reload"
    BY <2>1, DialogStart
  <2>4. LimitNet(net') /\ LimitRun(run', net') /\ run' # None
    BY <2>2, <2>3, SomeRecord DEF LimitNet, LimitRun, Dialogs!Reads, DialogRun
  <2>5. rivals = 0 /\ ~ui.unsure => LimitsShown(srv, ui, run', net', stray, lost)
    BY <1>0, <2>1, <2>2 DEF LimitsShown, Acknowledged, SaveAnswered
  <2>. QED BY <1>0, <1>1, <2>1, <2>4, <2>5
<1>7. CASE Dialogs!ReadDone
  <2>1. /\ run # None /\ run.op \in Dialogs!Reads /\ net # None /\ net.answer # None
        /\ srv' = srv /\ stray' = stray /\ run' = None /\ net' = None
        /\ lost' = lost /\ rivals' = rivals
        /\ \/ net.answer.ok /\ ui' = [ui EXCEPT !.data = net.answer.data, !.failed = FALSE]
           \/ ui' = [ui EXCEPT !.failed = TRUE]
    BY <1>7
    DEF Dialogs!ReadDone, Dialogs!Reading, Dialogs!Answered, Dialogs!Got, Dialogs!End,
        Dialogs!Stop, Dialogs!Hang, Dialogs!Here
  <2>2. /\ DialogForm(ui') /\ ui'.edits = ui.edits /\ ui'.unsure = ui.unsure
        /\ \/ net.answer.ok /\ ui'.data = net.answer.data
           \/ ui'.data = ui.data
    BY <1>0, <2>1 DEF DialogForm, Fields
  <2>3. KeptDraft(ui')
    BY <1>0, <2>2 DEF KeptDraft
  <2>4. rivals = 0 /\ ~ui'.unsure => LimitsShown(srv, ui', run', net', stray, lost)
    BY <1>0, <2>1, <2>2 DEF LimitsShown, Acknowledged, SaveAnswered, Dialogs!Reads
  <2>. QED BY <1>1, <2>1, <2>2, <2>3, <2>4 DEF LimitNet, LimitRun
<1>8. CASE Dialogs!Revalidate
  <2>1. /\ run # None => run.op \notin Dialogs!Reads
        /\ srv' = srv /\ stray' = stray /\ net' = net /\ rivals' = rivals
        /\ run' = IF run = None THEN None ELSE [run EXCEPT !.steady = FALSE]
        /\ \/ ui' = [ui EXCEPT !.data = srv, !.failed = FALSE] /\ lost' = lost
           \/ ui' = [ui EXCEPT !.failed = TRUE] /\ lost' = lost + 1
    BY <1>8
    DEF Dialogs!Revalidate, Dialogs!Refresh, Dialogs!RefreshFails, Dialogs!Here, Dialogs!Moved,
        Dialogs!Reading, Dialogs!Fresh
  <2>2. /\ DialogForm(ui') /\ ui'.edits = ui.edits /\ ui'.unsure = ui.unsure
        /\ \/ ui'.data = srv /\ lost' = lost
           \/ ui'.data = ui.data /\ lost' = lost + 1
    BY <1>0, <2>1 DEF DialogForm, Fields
  <2>3. KeptDraft(ui')
    BY <1>0, <2>2 DEF KeptDraft
  <2>4. /\ LimitRun(run', net') /\ (run # None => run' # None)
        /\ run' # None => run # None /\ run'.op = run.op /\ run'.body = run.body /\ run.op = "save"
    <3>1. CASE run = None
      BY <2>1, <3>1 DEF LimitRun
    <3>2. CASE run # None
      <4>1. /\ Fields(run, {"body", "op", "mine", "steady"}) /\ run.op = "save" /\ run.mine
            /\ net # None => net.cmd.kind = "patch" /\ net.cmd.body = run.body
        BY <1>0, <2>1, <3>2 DEF LimitRun, Dialogs!Reads
      <4>2. run' = [run EXCEPT !.steady = FALSE]
        BY <2>1, <3>2
      <4>3. /\ Fields(run', {"body", "op", "mine", "steady"}) /\ run'.op = "save" /\ run'.mine
            /\ run'.body = run.body
        BY <4>1, <4>2 DEF Fields
      <4>. QED BY <2>1, <3>2, <4>1, <4>3, SomeRecord DEF LimitRun
    <3>. QED BY <3>1, <3>2
  <2>5. rivals = 0 /\ ~ui'.unsure => LimitsShown(srv, ui', run', net', stray, lost')
    <3>1. rivals = 0 /\ ~ui'.unsure => LimitsShown(srv, ui, run, net, stray, lost)
      BY <1>0, <2>2
    <3>2. lost' = 0 => lost = 0 /\ ui'.data = srv
      BY <1>0, <2>2
    <3>. QED BY <2>1, <2>2, <2>4, <3>1, <3>2 DEF LimitsShown, Acknowledged, SaveAnswered
  <2>. QED BY <1>0, <2>1, <2>2, <2>3, <2>4, <2>5 DEF LimitsOK
<1>9. CASE Dialogs!Remount
  <2>. DEFINE d == Dialogs!Dropped(Dialogs!Writes)
  <2>1. /\ srv' = srv /\ stray' = stray \cup d /\ net' = None /\ run' = None /\ rivals' = rivals
        /\ ui' = [Dialogs!Blank EXCEPT !.unsure = ui.unsure \/ (run # None /\ run.op = "save")]
    BY <1>9 DEF Dialogs!Remount, Dialogs!Reenter, Dialogs!Abandon
  <2>2. Dialogs!Blank =
          [data |-> srv, failed |-> FALSE, created |-> None,
           scopes |-> Dialogs!DEFAULT_API_KEY_SCOPES,
           revoked |-> {}, edits |-> <<>>, invalid |-> {}, unsure |-> FALSE]
    BY DEF Dialogs!Blank, Dialogs!Fresh
  <2>3. /\ DialogForm(ui') /\ ui'.data = srv /\ ui'.edits = <<>>
        /\ ui'.unsure = (ui.unsure \/ (run # None /\ run.op = "save"))
    BY <2>1, <2>2 DEF DialogForm, Fields
  <2>4. \A m \in d : LimitPatch(m)
    BY <1>0 DEF Dialogs!Dropped, Dialogs!Unanswered, Dialogs!Writes, LimitNet
  <2>5. ~ui'.unsure => d = {}
    BY <1>0, <2>3 DEF Dialogs!Dropped, Dialogs!Unanswered, Dialogs!Writes, LimitRun
  <2>. HIDE DEF d
  <2>6. rivals = 0 /\ ~ui'.unsure => LimitsShown(srv, ui', run', net', stray', lost')
    BY <1>0, <2>1, <2>3, <2>5 DEF LimitsShown, Acknowledged, SaveAnswered
  <2>. QED
    BY <1>0, <2>1, <2>3, <2>4, <2>6 DEF LimitsOK, LimitNet, LimitRun, KeptDraft
<1>10. ASSUME NEW s, srv' = s, ui' = ui, run' = run,
              net' = net \/ (net # None /\ \E a : net' = [net EXCEPT !.answer = a]),
              \A m \in stray' : LimitPatch(m),
              rivals' = 0 /\ ~ui.unsure => LimitsShown(s, ui, run, net', stray', lost')
       PROVE  LimitsOK'
  <2>1. net # None => Packet(net) /\ run # None
    BY <1>0 DEF LimitNet
  <2>2. net # None /\ net' # net => Packet(net') /\ net'.cmd = net.cmd
    BY <1>10, <2>1 DEF Packet
  <2>3. LimitNet(net') /\ LimitRun(run', net') /\ (net' # None => run' # None)
    <3>1. CASE net' = net
      BY <1>0, <1>10, <3>1
    <3>2. CASE net # None /\ net' # net
      BY <1>0, <1>10, <2>1, <2>2, <3>2 DEF LimitNet, LimitRun
    <3>. QED BY <1>10, <3>1, <3>2
  <2>. QED BY <1>0, <1>10, <2>3 DEF LimitsOK
<1>11. CASE Dialogs!Rival
  <2>1. net' = net /\ stray' = stray /\ ui' = ui /\ run' = run /\ rivals' = rivals + 1
    BY <1>11 DEF Dialogs!Rival, Dialogs!Others
  <2>2. rivals' # 0
    BY <1>0, <2>1
  <2>. QED BY <1>0, <1>10, <2>1, <2>2
<1>12. CASE Dialogs!Serve
  <2>1. PICK o \in Dialogs!Handle(srv, net.cmd) :
          /\ net # None /\ net.answer = None /\ stray' = stray /\ ui' = ui /\ run' = run
          /\ lost' = lost /\ rivals' = rivals /\ srv' = o.srv /\ net' = [net EXCEPT !.answer = o.a]
    BY <1>12 DEF Dialogs!Serve, Dialogs!ServeBy, Dialogs!Unanswered, Dialogs!Reply
  <2>2. Packet(net) /\ run # None /\ (net.cmd.kind = "read" \/ LimitPatch(net.cmd))
    BY <1>0, <2>1 DEF LimitNet
  <2>3. Packet(net') /\ net'.answer = o.a /\ net' # None
    BY <2>1, <2>2, SomeAnswer DEF Packet
  <2>4. /\ net.cmd.kind = "read" => o.srv = srv /\ o.a.data = srv
        /\ net.cmd.kind = "patch" => \/ o.srv = net.cmd.body /\ o.a = Dialogs!Yes(None)
                                     \/ o.srv = srv /\ o.a = Dialogs!No
    BY <1>12, <2>2, LimitRequest
  <2>5. rivals = 0 /\ ~ui.unsure => LimitsShown(o.srv, ui, run, net', stray, lost)
    <3>. SUFFICES ASSUME rivals = 0, ~ui.unsure PROVE LimitsShown(o.srv, ui, run, net', stray, lost)
      OBVIOUS
    <3>1. stray = {} /\ ui.data = srv
      BY <1>0, <2>1 DEF LimitsShown, SaveAnswered
    <3>2. CASE run.op = "save"
      <4>1. net.cmd.kind = "patch" /\ net.cmd.body = run.body
        BY <1>0, <2>1, <2>2, <3>2 DEF LimitRun, Dialogs!Reads
      <4>2. net'.answer # None
        <5>1. Dialogs!Yes(None) # None /\ Dialogs!No # None
          <6>1. /\ Fields(Dialogs!Yes(None), {"ok", "conflict", "garbled", "data"})
                /\ Fields(Dialogs!No, {"ok", "conflict", "garbled", "data"})
            BY DEF Dialogs!Yes, Dialogs!No, Fields
          <6>. QED BY <6>1, SomeRecord
        <5>. QED BY <2>3, <2>4, <4>1, <5>1
      <4>3. /\ net'.answer.ok => o.srv = run.body
            /\ ~net'.answer.ok => o.srv = srv
        BY <2>3, <2>4, <4>1 DEF Dialogs!Yes, Dialogs!No
      <4>. QED BY <2>2, <2>3, <3>1, <3>2, <4>2, <4>3 DEF LimitsShown, Acknowledged, SaveAnswered
    <3>3. CASE run.op \in Dialogs!Reads
      <4>1. net.cmd.kind = "read"
        BY <1>0, <2>1, <2>2, <3>3 DEF LimitRun, Dialogs!Reads
      <4>. QED BY <2>3, <2>4, <3>1, <3>3, <4>1 DEF LimitsShown, Acknowledged, SaveAnswered, Dialogs!Reads
    <3>. QED BY <1>0, <2>2, <3>2, <3>3 DEF LimitRun, Dialogs!Reads
  <2>. QED BY <1>0, <1>10, <2>1, <2>5
<1>13. CASE Dialogs!Lose
  <2>1. /\ net # None /\ net.answer = None /\ ui' = ui /\ run' = run /\ lost' = lost + 1
        /\ rivals' = rivals
        /\ srv' = srv \/ \E o \in Dialogs!Handle(srv, net.cmd) : srv' = o.srv
        /\ net' = [net EXCEPT !.answer = Dialogs!No] \/ net' = [net EXCEPT !.answer = Dialogs!Garbled]
        /\ stray' = stray \/ (net.cmd.kind \in Dialogs!Writes /\ stray' = stray \cup {net.cmd})
    BY <1>13
    DEF Dialogs!Lose, Dialogs!LoseBy, Dialogs!Unanswered, Dialogs!Reply
  <2>2. Packet(net) /\ run # None /\ (net.cmd.kind = "read" \/ LimitPatch(net.cmd))
    BY <1>0, <2>1 DEF LimitNet
  <2>3. \A m \in stray' : LimitPatch(m)
    BY <1>0, <2>1, <2>2 DEF Dialogs!Writes
  <2>4. /\ Packet(net') /\ net'.answer # None /\ ~net'.answer.ok /\ net' # None
    <3>1. ~Dialogs!No.ok /\ ~Dialogs!Garbled.ok
      BY DEF Dialogs!No, Dialogs!Garbled
    <3>2. Dialogs!No # None /\ Dialogs!Garbled # None
      <4>1. /\ Fields(Dialogs!No, {"ok", "conflict", "garbled", "data"})
            /\ Fields(Dialogs!Garbled, {"ok", "conflict", "garbled", "data"})
        BY DEF Dialogs!No, Dialogs!Garbled, Fields
      <4>. QED BY <4>1, SomeRecord
    <3>3. Packet(net') /\ (net'.answer = Dialogs!No \/ net'.answer = Dialogs!Garbled)
      BY <2>1, <2>2 DEF Packet
    <3>. QED BY <3>1, <3>2, <3>3, SomeAnswer
  <2>5. lost' # 0
    BY <1>0, <2>1
  <2>6. rivals = 0 /\ ~ui.unsure => LimitsShown(srv', ui, run, net', stray', lost')
    <3>. SUFFICES ASSUME rivals = 0, ~ui.unsure PROVE LimitsShown(srv', ui, run, net', stray', lost')
      OBVIOUS
    <3>1. stray = {} /\ ui.data = srv
      BY <1>0, <2>1 DEF LimitsShown, SaveAnswered
    <3>2. CASE run.op = "save"
      BY <2>2, <2>4, <2>5, <3>2 DEF LimitsShown, Acknowledged, SaveAnswered
    <3>3. CASE run.op \in Dialogs!Reads
      <4>1. net.cmd.kind = "read"
        BY <1>0, <2>1, <2>2, <3>3 DEF LimitRun, Dialogs!Reads
      <4>2. stray' = stray
        BY <2>1, <4>1 DEF Dialogs!Writes
      <4>3. srv' = srv
        BY <1>13, <2>1, <2>2, <4>1, LimitRequest
      <4>. QED BY <2>4, <3>1, <3>3, <4>2, <4>3 DEF LimitsShown, Acknowledged, SaveAnswered, Dialogs!Reads
    <3>. QED BY <1>0, <2>2, <3>2, <3>3 DEF LimitRun, Dialogs!Reads
  <2>. QED BY <1>10, <2>1, <2>3, <2>6
<1>14. CASE Dialogs!ServeStray
  <2>1. PICK m \in stray : /\ net' = net /\ stray' = stray \ {m} /\ ui' = ui /\ run' = run
                           /\ lost' = lost /\ rivals' = rivals
    BY <1>14 DEF Dialogs!ServeStray, Dialogs!StrayBy
  <2>2. rivals = 0 /\ ~ui.unsure => LimitsShown(srv', ui, run, net, stray', lost)
    BY <1>0, <2>1 DEF LimitsShown, Acknowledged, SaveAnswered
  <2>. QED BY <1>0, <1>10, <2>1, <2>2
<1>15. CASE Dialogs!Created \/ Dialogs!Revoked
  BY <1>0, <1>15 DEF Dialogs!Created, Dialogs!Revoked, Dialogs!Doing, LimitRun, Dialogs!Reads
<1>. QED
  BY <1>2, <1>3, <1>4, <1>5, <1>6, <1>7, <1>8, <1>9, <1>11, <1>12, <1>13, <1>14, <1>15
  DEF Dialogs!Next, Dialogs!toggle, Dialogs!create, Dialogs!revoke

\* Whatever happens, what the dialogs hold stays so.
LEMMA DialogsStep ==
  ASSUME NoneApart, Counted, DialogsOK, Dialogs!Next PROVE DialogsOK'
<1>1. form' = form
  BY DialogCounts
<1>. QED BY <1>1, KeysStep, LimitsStep DEF DialogsOK

\* The dialogs start from what the server has.
LEMMA DialogsBegins == ASSUME Dialogs!Init PROVE DialogsOK /\ Counted
<1>1. /\ run = None /\ net = None /\ stray = {} /\ Counted /\ ui = Dialogs!Blank
      /\ srv = IF form = "keys" THEN [keys |-> {[id |-> 0, scopes |-> {"send"}]}, next |-> 1]
               ELSE [k \in Dialogs!fields |-> IF k = "max_domains" THEN 2 ELSE None]
  BY DEF Dialogs!Init, Dialogs!Quiet, Counted
<1>2. /\ DialogForm(ui) /\ ui.edits = <<>> /\ ui.data = Dialogs!Fresh /\ ui.created = None
      /\ ui.revoked = {}
  BY <1>1 DEF DialogForm, Fields, Dialogs!Blank
<1>3. CASE form = "keys"
  <2>1. ui.data = srv.keys
    BY <1>2, <1>3 DEF Dialogs!Fresh
  <2>2. srv = [keys |-> {[id |-> 0, scopes |-> {"send"}]}, next |-> 1]
    BY <1>1, <1>3
  <2>3. KeyRow(srv)
    BY <2>2 DEF KeyRow, Fields, Issued
  <2>4. KeysShown(srv, ui, run, net)
    BY <1>1, <1>2, <2>1 DEF KeysShown, Acknowledged
  <2>. QED BY <1>1, <1>2, <1>3, <2>3, <2>4 DEF DialogsOK, KeysOK, KeyNet, KeyRun
<1>4. CASE form # "keys"
  <2>1. ui.data = srv
    BY <1>2, <1>4 DEF Dialogs!Fresh
  <2>2. LimitsShown(srv, ui, run, net, stray, lost)
    BY <1>1, <2>1 DEF LimitsShown, Acknowledged, SaveAnswered
  <2>. QED
    BY <1>1, <1>2, <1>4, <2>2 DEF DialogsOK, LimitsOK, LimitNet, LimitRun, KeptDraft
<1>. QED BY <1>1, <1>3, <1>4

\* An idle dialog shows what was acknowledged.
LEMMA DialogsMeans ==
  ASSUME DialogsOK, form \in Dialogs!Forms PROVE Dialogs!AcknowledgedShown
BY DEF DialogsOK, KeysOK, LimitsOK, KeysShown, LimitsShown, SaveAnswered, Dialogs!Forms,
   Dialogs!AcknowledgedShown, Dialogs!Idle

\* A save stores the numbers that were shown.
LEMMA DialogsConfirmed ==
  ASSUME DialogsOK, form \in Dialogs!Forms, rivals \in Nat, Dialogs!Next
  PROVE  Dialogs!AsConfirmed
<1>. SUFFICES ASSUME NEW m \in Dialogs!InFlight, m \notin Dialogs!InFlight', rivals' = rivals,
                     srv' # srv, m.kind = "patch", NEW k \in Dialogs!fields
              PROVE  m.shown[k] = Dialogs!String(srv'[k])
  BY DEF Dialogs!AsConfirmed
<1>1. m \in stray \/ (m = net.cmd /\ net # None)
  BY DEF Dialogs!InFlight, Dialogs!Dropped, Dialogs!Unanswered
<1>2. form = "overrides" /\ LimitsOK
  BY <1>1 DEF DialogsOK, KeysOK, KeyNet, Dialogs!Forms
<1>3. LimitPatch(m)
  BY <1>1, <1>2 DEF LimitsOK, LimitNet, LimitPatch
<1>4. ASSUME NEW o \in Dialogs!Handle(srv, m), srv' = o.srv
      PROVE  m.shown[k] = Dialogs!String(srv'[k])
  BY <1>2, <1>3, <1>4, LimitRequest DEF LimitPatch
<1>6. CASE Dialogs!Rival
  BY <1>6 DEF Dialogs!Rival, Dialogs!Others
<1>7. CASE Dialogs!Serve \/ Dialogs!Lose
  <2>1. /\ stray \subseteq stray'
        /\ \E o \in Dialogs!Handle(srv, net.cmd) : srv' = o.srv
    BY <1>7 DEF Dialogs!Serve, Dialogs!ServeBy, Dialogs!Lose, Dialogs!LoseBy
  <2>2. m = net.cmd
    BY <1>1, <2>1 DEF Dialogs!InFlight
  <2>. QED BY <1>4, <2>1, <2>2
<1>8. CASE Dialogs!ServeStray
  <2>1. PICK n \in stray : /\ stray' = stray \ {n} /\ net' = net
                           /\ \E o \in Dialogs!Handle(srv, n) : srv' = o.srv
    BY <1>8 DEF Dialogs!ServeStray, Dialogs!StrayBy
  <2>2. m = n
    BY <2>1 DEF Dialogs!InFlight, Dialogs!Dropped, Dialogs!Unanswered
  <2>. QED BY <1>4, <2>1, <2>2
<1>. QED
  BY <1>6, <1>7, <1>8
  DEF Dialogs!Next, Dialogs!toggle, Dialogs!create, Dialogs!Created, Dialogs!revoke,
     Dialogs!Revoked, Dialogs!change, Dialogs!refuse, Dialogs!save, Dialogs!Saved, Dialogs!retry,
     Dialogs!ReadDone, Dialogs!Revalidate, Dialogs!Remount,
     Dialogs!Type, Dialogs!Look, Dialogs!Read, Dialogs!Write, Dialogs!End, Dialogs!Then,
     Dialogs!Refresh, Dialogs!RefreshFails, Dialogs!Reenter, Dialogs!Abandon, Dialogs!Here

\* What was typed leaves a dialog only with the command that carried it.
LEMMA DialogsTyped ==
  ASSUME DialogsOK, form \in Dialogs!Forms, moves \in Nat, Dialogs!Next
  PROVE  Dialogs!TypedKept
<1>. SUFFICES ASSUME moves' = moves PROVE Dialogs!TypedKept
  BY DEF Dialogs!TypedKept
<1>1. DialogForm(ui)
  BY DEF DialogsOK, KeysOK, LimitsOK, Dialogs!Forms
<1>2. ASSUME ui'.edits = ui.edits, ui'.scopes = ui.scopes, ui'.created = ui.created
      PROVE  Dialogs!TypedKept
  BY <1>2 DEF Dialogs!TypedKept
<1>3. moves' # moves + 1
  OBVIOUS
<1>4. CASE Dialogs!Saved
  <2>1. /\ Dialogs!Doing("save")
        /\ \/ Dialogs!Got.ok /\ ui' = Dialogs!baseline(ui, run.body)
           \/ \E x : ui' = [ui EXCEPT !.unsure = x]
    BY <1>4 DEF Dialogs!Saved, Dialogs!Then, Dialogs!End
  <2>2. run.mine
    BY <1>4, <2>1 DEF Dialogs!Saved, Dialogs!Doing, DialogsOK, KeysOK, LimitsOK, KeyRun, LimitRun, Dialogs!Reads, Dialogs!Forms
  <2>3. /\ ui'.scopes = ui.scopes /\ ui'.created = ui.created
        /\ Dialogs!Got.ok \/ ui'.edits = ui.edits
    BY <1>1, <2>1 DEF DialogForm, Fields, Dialogs!baseline
  <2>. QED BY <2>1, <2>2, <2>3 DEF Dialogs!TypedKept
<1>5. CASE Dialogs!Created
  <2>1. /\ Dialogs!Doing("create")
        /\ \/ Dialogs!Got.ok /\ \E x, y : ui' = [ui EXCEPT !.created = x, !.scopes = y]
           \/ ui' = ui
    BY <1>5 DEF Dialogs!Created, Dialogs!Then, Dialogs!End
  <2>2. run.mine
    BY <2>1 DEF Dialogs!Doing, DialogsOK, KeysOK, LimitsOK, KeyRun, LimitRun, Dialogs!Reads, Dialogs!Forms
  <2>3. ui'.edits = ui.edits /\ (Dialogs!Got.ok \/ (ui'.scopes = ui.scopes /\ ui'.created = ui.created))
    BY <1>1, <2>1 DEF DialogForm, Fields
  <2>. QED BY <2>1, <2>2, <2>3 DEF Dialogs!TypedKept
<1>6. CASE Dialogs!Revoked \/ Dialogs!ReadDone \/ Dialogs!Revalidate
  <2>1. \/ ui' = ui \/ ui' = Dialogs!withoutRow(ui, run.id)
        \/ \E x, y : ui' = [ui EXCEPT !.data = x, !.failed = y]
        \/ \E y : ui' = [ui EXCEPT !.failed = y]
    BY <1>6
    DEF Dialogs!Revoked, Dialogs!ReadDone, Dialogs!Revalidate, Dialogs!End, Dialogs!Refresh,
        Dialogs!RefreshFails
  <2>. QED BY <1>1, <1>2, <2>1 DEF DialogForm, Fields, Dialogs!withoutRow
<1>7. CASE Dialogs!save
  <2>1. ui' = [ui EXCEPT !.invalid = {}]
    BY <1>7 DEF Dialogs!save, Dialogs!Write
  <2>. QED BY <1>1, <1>2, <2>1 DEF DialogForm, Fields
<1>. QED
  BY <1>2, <1>3, <1>4, <1>5, <1>6, <1>7
  DEF Dialogs!Next, Dialogs!toggle, Dialogs!create, Dialogs!revoke,
     Dialogs!change, Dialogs!refuse, Dialogs!retry, Dialogs!Remount,
     Dialogs!Rival, Dialogs!Serve, Dialogs!Lose, Dialogs!ServeStray,
     Dialogs!Type, Dialogs!Look, Dialogs!Read, Dialogs!Write, Dialogs!Reenter, Dialogs!Move,
     Dialogs!Others, Dialogs!ServeBy, Dialogs!LoseBy, Dialogs!StrayBy

-----------------------------------------------------------------------------
(* The operations views.                                                   *)

ViewForm(u) ==
  Fields(u, {"reader", "page", "state", "text", "gen", "cache", "reads", "started", "since", "hint",
             "conn", "opened", "connected", "stream", "events", "captured"})
SameQuery(u, w) ==
  w.reader = u.reader /\ w.page = u.page /\ w.state = u.state /\ w.text = u.text /\ w.gen = u.gen

\* What was read is an observation of some version, and of the present one if
\* nothing changed since.
Observed(s, d, k) ==
  d # None /\ d.v \in Nat /\ d.v <= s.v /\ (d.v = s.v => d.rows = Views!listJobs(s, k).rows)
Read(u, k) == k \in DOMAIN u.reads /\ u.reads[k] # None /\ u.reads[k].ok
Cached(u, k) == k \in DOMAIN u.cache /\ u.cache[k].data # None
Held(s, u) ==
  /\ \A k \in DOMAIN u.cache : Fields(u.cache[k], {"data", "failed"})
  /\ \A k \in DOMAIN u.reads : Read(u, k) => Observed(s, u.reads[k].data, k)
  /\ \A k \in DOMAIN u.cache : Cached(u, k) => Observed(s, u.cache[k].data, k)

\* A list has nothing for a query that is older than the choice of the query.
Latest(u, key) ==
  /\ \A k \in DOMAIN u.cache \cup DOMAIN u.reads :
       /\ k.reader \in Nat /\ k.gen \in Nat /\ k.reader <= u.reader
       /\ k.reader = u.reader => k.gen <= u.gen
  /\ Read(u, key) => u.reads[key].data.v >= u.since
  /\ Cached(u, key) => u.cache[key].data.v >= u.since

\* The monitor reads, or has failed to, or shows what is as new as the last hint.
Hinted(u, key) ==
  /\ Read(u, key) => u.reads[key].data.v >= u.hint
  /\ (key \notin DOMAIN u.reads /\ Cached(u, key)) => u.cache[key].failed \/ u.cache[key].data.v >= u.hint
  /\ u.started => \/ key \in DOMAIN u.reads
                  \/ key \in DOMAIN u.cache /\ (u.cache[key].failed \/ u.cache[key].data # None)
Live(u) == u.connected => u.opened = u.conn

ViewsOK ==
  /\ form \in Views!Forms /\ ViewForm(ui) /\ srv.v \in Nat
  /\ ui.reader \in Nat /\ ui.gen \in Nat
  /\ ui.since \in 0..srv.v /\ ui.hint \in 0..srv.v
  /\ Held(srv, ui) /\ Live(ui)
  /\ form \in Views!Lists => Latest(ui, Views!Key(ui))
  /\ form = "monitor" => Hinted(ui, Views!Key(ui))

\* The key is that of the query on the screen.
LEMMA ViewKey ==
  ASSUME NEW u
  PROVE  /\ form \in Views!Lists => Views!Key(u) = Views!Full(u)
         /\ Views!Full(u).reader = u.reader /\ Views!Full(u).gen = u.gen
         /\ \A w : SameQuery(u, w) => Views!Key(w) = Views!Key(u)
<1>1. form \in Views!Lists => Views!Key(u) = Views!Full(u)
  BY DEF Views!Lists, Views!Key, Views!ingestKey, Views!webhooksKey, Views!auditKey, Views!domainsKey
<1>2. Views!Full(u).reader = u.reader /\ Views!Full(u).gen = u.gen
  BY DEF Views!Full
<1>3. ASSUME NEW w, SameQuery(u, w) PROVE Views!Key(w) = Views!Key(u)
  <2>1. Views!Full(w) = Views!Full(u)
    BY <1>3 DEF SameQuery, Views!Full
  <2>. QED
    BY <2>1
    DEF Views!Key, Views!ingestKey, Views!webhooksKey, Views!auditKey, Views!domainsKey,
        Views!historyKey
<1>. QED BY <1>1, <1>2, <1>3

\* An answer is an observation.
LEMMA ViewAnswer ==
  ASSUME NoneApart, NEW k, srv.v \in Nat
  PROVE  Observed(srv, Views!listJobs(srv, k), k) /\ Views!listJobs(srv, k).v = srv.v
<1>. DEFINE d == Views!listJobs(srv, k)
<1>1. Fields(d, {"v", "key", "total", "rows"}) /\ d.v = srv.v
  BY DEF Views!listJobs, Fields
<1>2. d # None
  BY <1>1, SomeRecord
<1>. QED BY <1>1, <1>2 DEF Observed

\* The form stays, so that the key and the answers of the next state read the same.
LEMMA ViewPrime ==
  ASSUME form' = form
  PROVE  /\ Views!Key(ui)' = Views!Key(ui')
         /\ Held(srv', ui') => Held(srv, ui)'
<1>1. Views!Key(ui)' = Views!Key(ui')
  BY DEF Views!Key, Views!ingestKey, Views!webhooksKey, Views!auditKey, Views!domainsKey,
         Views!historyKey, Views!Full
<1>2. \A k : Views!listJobs(srv, k)' = Views!listJobs(srv', k)
  BY DEF Views!listJobs
<1>3. \A d, k : Observed(srv', d, k) => Observed(srv, d, k)'
  BY <1>2 DEF Observed
<1>. QED BY <1>1, <1>3 DEF Held, Read, Cached

\* Whatever happens, what the views hold stays so.
LEMMA ViewsStep == ASSUME NoneApart, ViewsOK, Views!Next PROVE ViewsOK'
<1>. DEFINE key == Views!Key(ui)
<1>0. /\ form \in Views!Forms /\ ViewForm(ui) /\ srv.v \in Nat
      /\ ui.reader \in Nat /\ ui.gen \in Nat
      /\ ui.since \in 0..srv.v /\ ui.hint \in 0..srv.v
      /\ Held(srv, ui) /\ Live(ui)
      /\ form \in Views!Lists => Latest(ui, key)
      /\ form = "monitor" => Hinted(ui, key)
  BY DEF ViewsOK
<1>. HIDE DEF key

\* Nothing that was read or asked for changes.
<1>1. ASSUME form' = form, srv' = srv, ViewForm(ui'), SameQuery(ui, ui'), ui'.cache = ui.cache,
             ui'.reads = ui.reads, ui'.since = ui.since, ui'.hint = ui.hint, Live(ui'),
             ui'.started => \/ ui.started \/ key \in DOMAIN ui.reads
                            \/ key \in DOMAIN ui.cache /\ ui.cache[key].data # None
      PROVE  ViewsOK'
  <2>1. Views!Key(ui') = key
    BY <1>1, ViewKey DEF key
  <2>2. Held(srv, ui')
    BY <1>0, <1>1 DEF Held, Read, Cached
  <2>3. form \in Views!Lists => Latest(ui', key)
    BY <1>0, <1>1 DEF Latest, Read, Cached, SameQuery
  <2>4. form = "monitor" => Hinted(ui', key)
    BY <1>0, <1>1 DEF Hinted, Read, Cached
  <2>. QED BY <1>0, <1>1, <2>1, <2>2, <2>3, <2>4, ViewPrime DEF ViewsOK, SameQuery

\* The query is read.
<1>2. ASSUME form' = form, srv' = srv, ViewForm(ui'), SameQuery(ui, ui'), ui'.cache = ui.cache,
             ui'.reads = Views!With(ui.reads, key, None), ui'.since = ui.since,
             ui'.hint \in 0..srv.v, Live(ui')
      PROVE  ViewsOK'
  <2>1. Views!Key(ui') = key
    BY <1>1, <1>2, ViewKey DEF key
  <2>2. DOMAIN ui'.reads = DOMAIN ui.reads \cup {key} /\ \A k : Read(ui', k) => k # key /\ Read(ui, k) /\ ui'.reads[k] = ui.reads[k]
    BY <1>2 DEF Views!With, Read
  <2>3. Held(srv, ui')
    BY <1>0, <1>2, <2>2 DEF Held, Cached, Read
  <2>4. form \in Views!Lists => key.reader = ui.reader /\ key.gen = ui.gen
    BY ViewKey DEF key
  <2>5. form \in Views!Lists => Latest(ui', key)
    BY <1>0, <1>2, <2>2, <2>4 DEF Latest, Cached, SameQuery
  <2>6. form = "monitor" => Hinted(ui', key)
    BY <1>0, <1>2, <2>2 DEF Hinted, Cached
  <2>. QED BY <1>0, <1>2, <2>1, <2>3, <2>5, <2>6, ViewPrime DEF ViewsOK, SameQuery
<1>3. \A f : \E q : q = Views!Asked(ui, f)
  OBVIOUS
<1>4. ASSUME NEW q, q = Views!Asked(ui, key)
      PROVE  /\ ViewForm(q) /\ SameQuery(ui, q) /\ q.cache = ui.cache
             /\ q.reads = Views!With(ui.reads, key, None) /\ q.since = ui.since /\ q.hint = ui.hint
             /\ q.connected = ui.connected /\ q.opened = ui.opened /\ q.conn = ui.conn
  BY <1>0, <1>4 DEF Views!Asked, ViewForm, SameQuery, Fields
<1>5. CASE Views!startRead
  <2>1. /\ form' = form /\ srv' = srv
        /\ \/ key \in DOMAIN ui.reads /\ ui' = [ui EXCEPT !.started = TRUE]
           \/ ui' = [Views!Asked(ui, key) EXCEPT !.started = TRUE]
           \/ Views!Entry(ui).data # None /\ ui' = [ui EXCEPT !.started = TRUE]
    BY <1>5 DEF Views!startRead, Views!Shows, Views!Still, Views!isValidating, key
  <2>2. ASSUME ui' = [ui EXCEPT !.started = TRUE]
        PROVE  /\ ViewForm(ui') /\ SameQuery(ui, ui') /\ ui'.cache = ui.cache
               /\ ui'.reads = ui.reads /\ ui'.since = ui.since /\ ui'.hint = ui.hint /\ Live(ui')
    BY <1>0, <2>2 DEF ViewForm, SameQuery, Fields, Live
  <2>3. CASE key \in DOMAIN ui.reads /\ ui' = [ui EXCEPT !.started = TRUE]
    BY <1>1, <2>1, <2>2, <2>3
  <2>4. CASE Views!Entry(ui).data # None /\ ui' = [ui EXCEPT !.started = TRUE]
    <3>1. key \in DOMAIN ui.cache /\ ui.cache[key].data # None
      BY <2>4 DEF Views!Entry, Views!Unread, key
    <3>. QED BY <1>1, <2>1, <2>2, <2>4, <3>1
  <2>5. CASE ui' = [Views!Asked(ui, key) EXCEPT !.started = TRUE]
    <3>1. PICK q : q = Views!Asked(ui, key)
      OBVIOUS
    <3>2. /\ ViewForm(ui') /\ SameQuery(ui, ui') /\ ui'.cache = ui.cache
          /\ ui'.reads = q.reads /\ ui'.since = ui.since /\ ui'.hint = ui.hint /\ Live(ui')
      BY <1>0, <1>4, <2>5, <3>1 DEF ViewForm, SameQuery, Fields, Live
    <3>3. q.reads = Views!With(ui.reads, key, None)
      BY <1>4, <3>1
    <3>. QED BY <1>0, <1>2, <2>1, <3>2, <3>3
  <2>. QED BY <2>1, <2>3, <2>4, <2>5
<1>6. CASE Views!Revalidate \/ Views!refreshList
  <2>1. form' = form /\ srv' = srv /\ ui' = Views!Asked(ui, key)
    BY <1>6 DEF Views!Revalidate, Views!refreshList, Views!Shows, Views!Still, key
  <2>2. /\ ViewForm(ui') /\ SameQuery(ui, ui') /\ ui'.cache = ui.cache
        /\ ui'.reads = Views!With(ui.reads, key, None) /\ ui'.since = ui.since /\ ui'.hint = ui.hint
        /\ ui'.connected = ui.connected /\ ui'.opened = ui.opened /\ ui'.conn = ui.conn
    BY <1>4, <2>1
  <2>. QED BY <1>0, <1>2, <2>1, <2>2 DEF Live
<1>7. CASE Views!onOpen \/ Views!onResync
  <2>1. /\ form' = form /\ srv' = srv
        /\ \/ ui' = [Views!Hinted(ui) EXCEPT !.stream = "open"]
           \/ ui' = Views!Hinted(ui)
    BY <1>7 DEF Views!onOpen, Views!onResync, Views!Frame, Views!Shows, Views!Still
  <2>2. PICK q : q = Views!Asked(ui, key)
    OBVIOUS
  <2>3. PICK h : h = [q EXCEPT !.hint = srv.v]
    OBVIOUS
  <2>4. Views!Hinted(ui) = h
    BY <2>2, <2>3 DEF Views!Hinted, Views!historyRefresh, key
  <2>5. /\ ViewForm(h) /\ SameQuery(ui, h) /\ h.cache = ui.cache
        /\ h.reads = q.reads /\ h.since = ui.since /\ h.hint = srv.v
        /\ h.connected = ui.connected /\ h.opened = ui.opened /\ h.conn = ui.conn
    BY <1>4, <2>2, <2>3 DEF ViewForm, SameQuery, Fields
  <2>6. /\ ViewForm(ui') /\ SameQuery(ui, ui') /\ ui'.cache = ui.cache
        /\ ui'.reads = q.reads /\ ui'.since = ui.since /\ ui'.hint = srv.v
        /\ ui'.connected = ui.connected /\ ui'.opened = ui.opened /\ ui'.conn = ui.conn
    BY <2>1, <2>4, <2>5 DEF ViewForm, SameQuery, Fields
  <2>7. q.reads = Views!With(ui.reads, key, None)
    BY <1>4, <2>2
  <2>. QED BY <1>0, <1>2, <2>1, <2>6, <2>7 DEF Live
<1>8. CASE Views!ServeRead
  <2>1. PICK k, a :
          /\ k \in DOMAIN ui.reads
          /\ form' = form /\ srv' = srv /\ ui' = [ui EXCEPT !.reads[k] = a]
          /\ a = Views!Yes(Views!listJobs(srv, k)) \/ a = Views!No
    BY <1>8 DEF Views!ServeRead, Views!Answers, Views!Still
  <2>2. /\ ViewForm(ui') /\ SameQuery(ui, ui') /\ ui'.cache = ui.cache
        /\ ui'.reads = [ui.reads EXCEPT ![k] = a]
        /\ ui'.since = ui.since /\ ui'.hint = ui.hint /\ ui'.started = ui.started
        /\ ui'.connected = ui.connected /\ ui'.opened = ui.opened /\ ui'.conn = ui.conn
    BY <1>0, <2>1 DEF ViewForm, SameQuery, Fields
  <2>3. a.ok => a.data = Views!listJobs(srv, k)
    BY <2>1 DEF Views!Yes, Views!No
  <2>4. a.ok => Observed(srv, a.data, k) /\ a.data.v = srv.v
    BY <1>0, <2>3, ViewAnswer
  <2>5. /\ DOMAIN ui'.reads = DOMAIN ui.reads
        /\ \A x : Read(ui', x) => \/ Read(ui, x) /\ ui'.reads[x] = ui.reads[x]
                                  \/ x = k /\ ui'.reads[x] = a /\ a.ok
    BY <2>2 DEF Read
  <2>6. Held(srv, ui')
    BY <1>0, <2>2, <2>4, <2>5 DEF Held, Cached, Read
  <2>7. form \in Views!Lists => Latest(ui', key)
    BY <1>0, <2>2, <2>4, <2>5 DEF Latest, Cached, SameQuery
  <2>8. form = "monitor" => Hinted(ui', key)
    BY <1>0, <2>2, <2>4, <2>5 DEF Hinted, Cached
  <2>9. Views!Key(ui') = key
    BY <2>2, ViewKey DEF key
  <2>. QED BY <1>0, <2>1, <2>2, <2>6, <2>7, <2>8, <2>9, ViewPrime DEF ViewsOK, SameQuery, Live
<1>9. CASE Views!ReadArrives
  <2>1. PICK k \in DOMAIN ui.reads :
          ui.reads[k] # None /\ form' = form /\ srv' = srv /\ ui' = Views!Stored(ui, k)
    BY <1>9 DEF Views!ReadArrives, Views!Shows, Views!Still
  <2>2. PICK a, old, e :
          /\ a = ui.reads[k]
          /\ old = IF k \in DOMAIN ui.cache THEN ui.cache[k] ELSE Views!Unread
          /\ e = IF a.ok THEN [data |-> a.data, failed |-> FALSE] ELSE [old EXCEPT !.failed = TRUE]
    OBVIOUS
  <2>3. ui' = [ui EXCEPT !.reads = [x \in DOMAIN @ \ {k} |-> @[x]], !.cache = Views!With(@, k, e)]
    BY <2>1, <2>2 DEF Views!Stored
  <2>4. /\ ViewForm(ui') /\ SameQuery(ui, ui')
        /\ ui'.cache = Views!With(ui.cache, k, e)
        /\ ui'.reads = [x \in DOMAIN ui.reads \ {k} |-> ui.reads[x]]
        /\ ui'.since = ui.since /\ ui'.hint = ui.hint /\ ui'.started = ui.started
        /\ ui'.connected = ui.connected /\ ui'.opened = ui.opened /\ ui'.conn = ui.conn
    BY <1>0, <2>3 DEF ViewForm, SameQuery, Fields
  <2>5. Fields(old, {"data", "failed"}) /\ (k \notin DOMAIN ui.cache => old.data = None)
    BY <1>0, <2>2 DEF Held, Views!Unread, Fields
  <2>6. /\ Fields(e, {"data", "failed"})
        /\ a.ok => e.data = a.data /\ ~e.failed
        /\ ~a.ok => e.data = old.data /\ e.failed
    BY <2>2, <2>5 DEF Fields
  <2>7. a.ok => Read(ui, k) /\ Observed(srv, a.data, k)
    BY <1>0, <2>1, <2>2 DEF Held, Read
  <2>8. /\ DOMAIN ui'.cache = DOMAIN ui.cache \cup {k} /\ ui'.cache[k] = e
        /\ \A x \in DOMAIN ui.cache : x # k => ui'.cache[x] = ui.cache[x]
        /\ DOMAIN ui'.reads = DOMAIN ui.reads \ {k}
        /\ \A x \in DOMAIN ui'.reads : ui'.reads[x] = ui.reads[x]
    BY <2>4 DEF Views!With
  <2>9. /\ \A x : Read(ui', x) => Read(ui, x) /\ ui'.reads[x] = ui.reads[x] /\ x # k
        /\ \A x : Cached(ui', x) => \/ Cached(ui, x) /\ ui'.cache[x] = ui.cache[x] /\ x # k
                                    \/ x = k /\ a.ok /\ ui'.cache[x].data = a.data
                                    \/ x = k /\ ~a.ok /\ Cached(ui, x) /\ ui'.cache[x].data = ui.cache[x].data
                                       /\ ui'.cache[x].failed
    BY <2>2, <2>5, <2>6, <2>8 DEF Read, Cached
  <2>10. Held(srv, ui')
    <3>1. \A x \in DOMAIN ui'.cache : Fields(ui'.cache[x], {"data", "failed"})
      BY <1>0, <2>6, <2>8 DEF Held
    <3>2. \A x \in DOMAIN ui'.reads : Read(ui', x) => Observed(srv, ui'.reads[x].data, x)
      BY <1>0, <2>9 DEF Held, Read
    <3>3. \A x \in DOMAIN ui'.cache : Cached(ui', x) => Observed(srv, ui'.cache[x].data, x)
      BY <1>0, <2>7, <2>9 DEF Held, Cached
    <3>. QED BY <3>1, <3>2, <3>3 DEF Held
  <2>11. form \in Views!Lists => Latest(ui', key)
    <3>. SUFFICES ASSUME form \in Views!Lists PROVE Latest(ui', key)
      OBVIOUS
    <3>1. Latest(ui, key)
      BY <1>0
    <3>2. \A x \in DOMAIN ui'.cache \cup DOMAIN ui'.reads : x \in DOMAIN ui.cache \cup DOMAIN ui.reads
      BY <2>1, <2>8
    <3>3. Cached(ui', key) => ui'.cache[key].data.v >= ui.since
      BY <2>2, <2>7, <2>9, <3>1 DEF Latest
    <3>. QED BY <2>4, <2>9, <3>1, <3>2, <3>3 DEF Latest, SameQuery
  <2>12. form = "monitor" => Hinted(ui', key)
    <3>. SUFFICES ASSUME form = "monitor" PROVE Hinted(ui', key)
      OBVIOUS
    <3>1. Hinted(ui, key)
      BY <1>0
    <3>2. CASE k = key
      <4>1. a.ok => e.data # None /\ e.data.v >= ui.hint
        BY <2>2, <2>6, <2>7, <3>1, <3>2 DEF Hinted, Observed
      <4>. QED BY <2>4, <2>6, <2>8, <3>2, <4>1 DEF Hinted, Read, Cached
    <3>3. CASE k # key
      BY <2>4, <2>8, <3>1, <3>3 DEF Hinted, Read, Cached
    <3>. QED BY <3>2, <3>3
  <2>13. Views!Key(ui') = key
    BY <2>4, ViewKey DEF key
  <2>. QED BY <1>0, <2>1, <2>4, <2>10, <2>11, <2>12, <2>13, ViewPrime DEF ViewsOK, SameQuery, Live

\* A query is chosen, or the page is entered again.
<1>10. ASSUME form' = form, srv' = srv, ViewForm(ui'), ui'.cache = ui.cache, ui'.reads = ui.reads,
              ui'.reader \in Nat, ui'.gen \in Nat,
              form \in Views!Lists => \/ ui'.reader = ui.reader + 1
                                      \/ ui'.reader = ui.reader /\ ui'.gen = ui.gen + 1,
              ui'.since = srv.v, ui'.hint = 0, ui'.started = FALSE, Live(ui')
       PROVE  ViewsOK'
  <2>1. Held(srv, ui')
    BY <1>0, <1>10 DEF Held, Read, Cached
  <2>2. PICK new : new = Views!Key(ui')
    OBVIOUS
  <2>3. form \in Views!Lists => Latest(ui', new)
    <3>. SUFFICES ASSUME form \in Views!Lists PROVE Latest(ui', new)
      OBVIOUS
    <3>1. new.reader = ui'.reader /\ new.gen = ui'.gen
      BY <2>2, ViewKey
    <3>2. \A k \in DOMAIN ui.cache \cup DOMAIN ui.reads :
            /\ k.reader \in Nat /\ k.gen \in Nat /\ k.reader <= ui.reader
            /\ k.reader = ui.reader => k.gen <= ui.gen
      BY <1>0 DEF Latest
    <3>3. new \notin DOMAIN ui.cache \cup DOMAIN ui.reads
      BY <1>0, <1>10, <3>1, <3>2
    <3>. QED BY <1>0, <1>10, <3>2, <3>3 DEF Latest, Read, Cached
  <2>4. form = "monitor" => Hinted(ui', new)
    BY <1>0, <1>10, <2>1 DEF Hinted, Held, Read, Cached, Observed
  <2>. QED BY <1>0, <1>10, <2>1, <2>2, <2>3, <2>4, ViewPrime DEF ViewsOK
<1>11. ASSUME NEW w, ViewForm(w), ui' = Views!Chosen(w), form' = form, srv' = srv,
              w.cache = ui.cache, w.reads = ui.reads, w.reader = ui.reader, w.gen \in Nat,
              form \in Views!Lists => w.gen = ui.gen + 1,
              w.connected = ui.connected, w.opened = ui.opened, w.conn = ui.conn
       PROVE  ViewsOK'
  <2>1. /\ ViewForm(ui') /\ ui'.cache = ui.cache /\ ui'.reads = ui.reads /\ ui'.reader = ui.reader
        /\ ui'.gen = w.gen /\ ui'.since = srv.v /\ ui'.hint = 0 /\ ui'.started = FALSE
        /\ ui'.connected = ui.connected /\ ui'.opened = ui.opened /\ ui'.conn = ui.conn
    BY <1>11 DEF Views!Chosen, ViewForm, Fields
  <2>. QED BY <1>0, <1>10, <1>11, <2>1 DEF Live
<1>12. CASE Views!ingestFilter \/ Views!webhooksFilter \/ Views!changePage
  <2>a. /\ form' = form /\ srv' = srv
        /\ \/ \E x, y, z : ui' = Views!Chosen([ui EXCEPT !.page = x, !.state = y, !.text = z, !.gen = @ + 1])
           \/ \E x : ui' = Views!Chosen([ui EXCEPT !.page = x, !.gen = @ + 1])
    BY <1>12
    DEF Views!ingestFilter, Views!webhooksFilter, Views!changePage, Views!Choose, Views!Still
  <2>1. PICK w : /\ ui' = Views!Chosen(w)
                 /\ \/ \E x, y, z : w = [ui EXCEPT !.page = x, !.state = y, !.text = z, !.gen = @ + 1]
                    \/ \E x : w = [ui EXCEPT !.page = x, !.gen = @ + 1]
    BY <2>a
  <2>2. /\ ViewForm(w) /\ w.cache = ui.cache /\ w.reads = ui.reads /\ w.reader = ui.reader
        /\ w.gen = ui.gen + 1
        /\ w.connected = ui.connected /\ w.opened = ui.opened /\ w.conn = ui.conn
    BY <1>0, <2>1 DEF ViewForm, Fields
  <2>3. w.gen \in Nat
    BY <1>0, <2>2
  <2>. QED BY <1>11, <2>a, <2>1, <2>2, <2>3
<1>13. CASE Views!monitorFilter \/ Views!setHistoryPage
  <2>1. PICK w : /\ form' = form /\ srv' = srv /\ ui' = Views!Chosen(w) /\ form = "monitor"
                 /\ \/ \E x, y, z : w = [ui EXCEPT !.page = x, !.state = y, !.text = z]
                    \/ \E x : w = [ui EXCEPT !.page = x]
    BY <1>13
    DEF Views!monitorFilter, Views!setHistoryPage, Views!Choose, Views!Still
  <2>2. /\ ViewForm(w) /\ w.cache = ui.cache /\ w.reads = ui.reads /\ w.reader = ui.reader
        /\ w.gen = ui.gen
        /\ w.connected = ui.connected /\ w.opened = ui.opened /\ w.conn = ui.conn
    BY <1>0, <2>1 DEF ViewForm, Fields
  <2>3. form \notin Views!Lists
    BY <2>1 DEF Views!Lists
  <2>. QED BY <1>0, <1>11, <2>1, <2>2, <2>3
<1>14. CASE Views!onReady \/ Views!onMail \/ Views!streamEnds \/ Views!reconnect
  <2>1. /\ form' = form /\ srv' = srv
        /\ \/ ui' = [ui EXCEPT !.connected = TRUE, !.opened = ui.conn]
           \/ \E x : ui' = [ui EXCEPT !.events = x]
           \/ ui' = [ui EXCEPT !.stream = "down"]
           \/ ui' = [ui EXCEPT !.stream = "over", !.connected = FALSE]
           \/ ui' = Views!Connected(ui)
    BY <1>14
    DEF Views!onReady, Views!onMail, Views!streamEnds, Views!reconnect, Views!Frame, Views!Shows,
        Views!Still, Views!aborted
  <2>2. /\ ViewForm(ui') /\ SameQuery(ui, ui') /\ ui'.cache = ui.cache
        /\ ui'.reads = ui.reads /\ ui'.since = ui.since /\ ui'.hint = ui.hint
        /\ ui'.started = ui.started
        /\ \/ ui'.connected = ui.connected /\ ui'.opened = ui.opened /\ ui'.conn = ui.conn
           \/ ui'.opened = ui'.conn \/ ~ui'.connected
    BY <1>0, <2>1 DEF ViewForm, SameQuery, Fields, Views!Connected
  <2>. QED BY <1>0, <1>1, <2>1, <2>2 DEF Live
<1>15. CASE Views!Remount
  <2>1. PICK v, w : /\ form' = form /\ srv' = srv /\ ui' = Views!Connected(w)
                    /\ w = [v EXCEPT !.conn = ui.conn]
                    /\ v = Views!Visit(ui.reader + 1, ui.cache, ui.reads)
    BY <1>15 DEF Views!Remount, Views!Still
  <2>2. /\ ViewForm(v) /\ v.cache = ui.cache /\ v.reads = ui.reads /\ v.reader = ui.reader + 1
        /\ v.gen = 0 /\ v.since = srv.v /\ v.hint = 0 /\ v.started = FALSE
    BY <2>1 DEF Views!Visit, ViewForm, Fields
  <2>3. /\ ViewForm(w) /\ w.cache = ui.cache /\ w.reads = ui.reads /\ w.reader = ui.reader + 1
        /\ w.gen = 0 /\ w.since = srv.v /\ w.hint = 0 /\ w.started = FALSE
    BY <2>1, <2>2 DEF ViewForm, Fields
  <2>4. /\ ViewForm(ui') /\ ui'.cache = ui.cache /\ ui'.reads = ui.reads /\ ui'.reader = ui.reader + 1
        /\ ui'.gen = 0 /\ ui'.since = srv.v /\ ui'.hint = 0 /\ ui'.started = FALSE /\ ~ui'.connected
    BY <2>1, <2>3 DEF ViewForm, Fields, Views!Connected
  <2>5. ui'.reader \in Nat /\ ui'.gen \in Nat
    BY <1>0, <2>4
  <2>6. Live(ui')
    BY <2>4 DEF Live
  <2>. QED BY <1>10, <2>1, <2>4, <2>5, <2>6
<1>16. CASE Views!Rival
  <2>1. PICK x : form' = form /\ ui' = ui /\ srv' = [v |-> srv.v + 1, jobs |-> x]
    BY <1>16 DEF Views!Rival, Views!Others
  <2>2. srv'.v = srv.v + 1
    BY <2>1
  <2>3. \A d, k : Observed(srv, d, k) => Observed(srv', d, k)
    BY <1>0, <2>2 DEF Observed
  <2>4. Held(srv', ui)
    BY <1>0, <2>3 DEF Held
  <2>5. /\ srv'.v \in Nat /\ ui.since \in 0..srv'.v /\ ui.hint \in 0..srv'.v
    BY <1>0, <2>2
  <2>6. Views!Key(ui') = key
    BY <2>1 DEF key
  <2>. QED BY <1>0, <2>1, <2>4, <2>5, <2>6, ViewPrime DEF ViewsOK
<1>. QED
  BY <1>5, <1>6, <1>7, <1>8, <1>9, <1>12, <1>13, <1>14, <1>15, <1>16 DEF Views!Next

\* The views start with nothing read.
LEMMA ViewsBegin == ASSUME Views!Init PROVE ViewsOK
<1>1. /\ form \in Views!Forms
      /\ srv = [v |-> 0, jobs |-> [j \in Views!Jobs |-> IF j = 1 THEN "pending" ELSE "dead"]]
      /\ ui = Views!Connected(Views!Visit(0, <<>>, <<>>))
  BY DEF Views!Init
<1>2. srv.v = 0
  BY <1>1
<1>3. PICK w, e : e = <<>> /\ w = Views!Visit(0, e, e) /\ ui = Views!Connected(w)
  BY <1>1
<1>4. /\ ViewForm(w) /\ w.cache = e /\ w.reads = e /\ w.reader = 0
      /\ w.gen = 0 /\ w.since = srv.v /\ w.hint = 0 /\ w.started = FALSE
  BY <1>3 DEF Views!Visit, ViewForm, Fields
<1>5. /\ ViewForm(ui) /\ ui.cache = e /\ ui.reads = e /\ ui.reader = 0
      /\ ui.gen = 0 /\ ui.since = 0 /\ ui.hint = 0 /\ ui.started = FALSE /\ ~ui.connected
  BY <1>2, <1>3, <1>4 DEF ViewForm, Fields, Views!Connected
<1>6. DOMAIN ui.cache = {} /\ DOMAIN ui.reads = {}
  BY <1>3, <1>5
<1>7. Held(srv, ui) /\ Live(ui) /\ \A k : Latest(ui, k) /\ Hinted(ui, k)
  BY <1>5, <1>6 DEF Held, Live, Latest, Hinted, Read, Cached
<1>. QED BY <1>1, <1>2, <1>5, <1>7 DEF ViewsOK

\* What the views show is so.
LEMMA ViewsMean ==
  ASSUME ViewsOK
  PROVE  Views!ListIsCurrent /\ Views!HistoryFollowsResync /\ Views!LiveIsTrue
<1>. DEFINE key == Views!Key(ui)
            d == ui.cache[key].data
<1>1. /\ form \in Views!Lists => Latest(ui, key)
      /\ form = "monitor" => Hinted(ui, key)
      /\ Held(srv, ui) /\ Live(ui)
  BY DEF ViewsOK
<1>2. key \in DOMAIN ui.cache => Views!Entry(ui) = ui.cache[key]
  BY DEF Views!Entry
<1>3. key \notin DOMAIN ui.cache => Views!Entry(ui).data = None /\ ~Views!Entry(ui).failed
  BY DEF Views!Entry, Views!Unread
<1>4. Views!isValidating(ui) = (key \in DOMAIN ui.reads)
  BY DEF Views!isValidating
<1>5. ASSUME form \in Views!Lists, Views!listReady(ui)
      PROVE  /\ Views!response(ui).v >= ui.since
             /\ Views!response(ui).v = srv.v => Views!rows(ui) = Views!listJobs(srv, Views!Full(ui)).rows
  <2>1. Views!Entry(ui).data # None
    BY <1>5 DEF Views!listReady
  <2>2. Cached(ui, key) /\ Views!Entry(ui).data = d
    BY <1>2, <1>3, <2>1 DEF Cached
  <2>3. Views!response(ui) = d /\ d # None
    BY <1>5, <2>1, <2>2 DEF Views!response
  <2>4. Observed(srv, d, key) /\ d.v >= ui.since
    BY <1>1, <1>5, <2>2 DEF Held, Latest, Cached
  <2>5. Views!rows(ui) = d.rows
    BY <2>3 DEF Views!rows
  <2>6. key = Views!Full(ui)
    BY <1>5, ViewKey
  <2>. QED BY <2>3, <2>4, <2>5, <2>6 DEF Observed
<1>6. ASSUME form = "monitor", ui.started, ~Views!isValidating(ui), ~Views!Entry(ui).failed
      PROVE  Views!Entry(ui).data.v >= ui.hint
  BY <1>1, <1>2, <1>3, <1>4, <1>6 DEF Hinted, Cached
<1>. QED
  BY <1>1, <1>5, <1>6
  DEF Views!ListIsCurrent, Views!HistoryFollowsResync, Views!LiveIsTrue, Live

-----------------------------------------------------------------------------
(* The pages together.                                                     *)

PagesOK ==
  /\ page = "onboarding" => form \in Onboard!Forms /\ Counted /\ OnboardOK
  /\ page = "directory" => form \in Directory!Forms /\ Counted /\ DirectoryOK
  /\ page = "recovery" => form \in Recovery!Forms /\ rivals \in Nat /\ RecoveryOK /\ InspectionsOK
  /\ page = "platform" => form \in Platform!Forms /\ Counted /\ PlatformOK
  /\ page = "tenants" => Counted /\ TenantsOK
  /\ page = "dialogs" => form \in Dialogs!Forms /\ Counted /\ DialogsOK
  /\ page = "views" => ViewsOK

\* Every page starts with its invariant.
LEMMA PagesBegin == ASSUME Init PROVE PagesOK
<1>1. page = "onboarding" => Onboard!Init
  BY DEF Init
<1>2. page = "directory" => Directory!Init
  BY DEF Init
<1>3. page = "recovery" => Recovery!Init
  BY DEF Init
<1>4. page = "platform" => Platform!Init
  BY DEF Init
<1>5. page = "tenants" => Tenants!Init
  BY DEF Init
<1>6. page = "dialogs" => Dialogs!Init
  BY DEF Init
<1>7. page = "views" => Views!Init
  BY DEF Init
<1>8. Recovery!Init => form \in Recovery!Forms /\ rivals \in Nat
  BY DEF Recovery!Init, Recovery!Forms, Recovery!Quiet
<1>9. /\ Onboard!Init => form \in Onboard!Forms
      /\ Directory!Init => form \in Directory!Forms
      /\ Platform!Init => form \in Platform!Forms
      /\ Dialogs!Init => form \in Dialogs!Forms
  BY DEF Onboard!Init, Directory!Init, Platform!Init, Dialogs!Init
<1>. QED
  BY <1>1, <1>2, <1>3, <1>4, <1>5, <1>6, <1>7, <1>8, <1>9, OnboardBegins, DirectoryBegins,
     RecoveryStart, InspectionsStart, PlatformBegins, TenantsBegin, DialogsBegins, ViewsBegin
  DEF PagesOK

\* Every step keeps it.
LEMMA PagesStep == ASSUME NoneApart, PagesOK, [Next]_vars PROVE PagesOK'
<1>1. ASSUME Next PROVE PagesOK'
  <2>1. page' = page
    BY <1>1 DEF Next
  <2>2. CASE page = "onboarding"
    <3>1. Onboard!Next /\ form \in Onboard!Forms /\ Counted /\ OnboardOK
      BY <1>1, <2>2 DEF Next, PagesOK
    <3>2. form' \in Onboard!Forms /\ Counted' /\ OnboardOK'
      BY <3>1, OnboardStep, OnboardCounts
    <3>. QED BY <2>1, <2>2, <3>2 DEF PagesOK
  <2>3. CASE page = "directory"
    <3>1. Directory!Next /\ form \in Directory!Forms /\ Counted /\ DirectoryOK
      BY <1>1, <2>3 DEF Next, PagesOK
    <3>2. form' \in Directory!Forms /\ Counted' /\ DirectoryOK'
      BY <3>1, DirectoryStep, DirCounts
    <3>. QED BY <2>1, <2>3, <3>2 DEF PagesOK
  <2>4. CASE page = "recovery"
    <3>1. Recovery!Next /\ form \in Recovery!Forms /\ rivals \in Nat /\ RecoveryOK /\ InspectionsOK
      BY <1>1, <2>4 DEF Next, PagesOK
    <3>2. form' \in Recovery!Forms /\ rivals' \in Nat /\ RecoveryOK'
      BY <3>1, RecoveryStep, RecoveryForm, RecoveryCounts
    <3>3. InspectionsOK'
      BY <3>1, <3>2, InboundStep, OutboundStep DEF Recovery!Forms
    <3>. QED BY <2>1, <2>4, <3>2, <3>3 DEF PagesOK
  <2>5. CASE page = "platform"
    <3>1. Platform!Next /\ form \in Platform!Forms /\ Counted /\ PlatformOK
      BY <1>1, <2>5 DEF Next, PagesOK
    <3>2. form' \in Platform!Forms /\ Counted' /\ PlatformOK'
      BY <3>1, PlatformStep, PlatformCounts
    <3>. QED BY <2>1, <2>5, <3>2 DEF PagesOK
  <2>6. CASE page = "tenants"
    <3>1. Tenants!Next /\ Counted /\ TenantsOK
      BY <1>1, <2>6 DEF Next, PagesOK
    <3>2. Counted' /\ TenantsOK'
      BY <3>1, TenantsStep, TenantCounts
    <3>. QED BY <2>1, <2>6, <3>2 DEF PagesOK
  <2>7. CASE page = "dialogs"
    <3>1. Dialogs!Next /\ form \in Dialogs!Forms /\ Counted /\ DialogsOK
      BY <1>1, <2>7 DEF Next, PagesOK
    <3>2. form' \in Dialogs!Forms /\ Counted' /\ DialogsOK'
      BY <3>1, DialogsStep, DialogCounts
    <3>. QED BY <2>1, <2>7, <3>2 DEF PagesOK
  <2>8. CASE page = "views"
    <3>1. Views!Next /\ ViewsOK
      BY <1>1, <2>8 DEF Next, PagesOK
    <3>2. ViewsOK'
      BY <3>1, ViewsStep
    <3>. QED BY <2>1, <2>8, <3>2 DEF PagesOK
  <2>. QED BY <2>1, <2>2, <2>3, <2>4, <2>5, <2>6, <2>7, <2>8 DEF PagesOK
<1>2. ASSUME UNCHANGED vars PROVE PagesOK'
  <2>1. UNCHANGED <<page, form, run, net, stray, moves, calls, rivals, lost, srv, ui>>
    BY <1>2 DEF vars
  <2>2. Counted = Counted'
    BY <2>1 DEF Counted
  <2>3. OnboardOK => OnboardOK'
    BY <2>1 DEF OnboardOK, InviteOK, ActivateOK
  <2>4. DirectoryOK => DirectoryOK'
    BY <2>1 DEF DirectoryOK, DirNet, DirOps
  <2>5. RecoveryOK => RecoveryOK'
    BY <2>1 DEF RecoveryOK
  <2>6. InspectionsOK => InspectionsOK'
    BY <2>1 DEF InspectionsOK
  <2>7. PlatformOK => PlatformOK'
    BY <2>1 DEF PlatformOK, PlatformSettingsOK, PolicyOK
  <2>8. TenantsOK => TenantsOK'
    BY <2>1 DEF TenantsOK
  <2>9. DialogsOK => DialogsOK'
    BY <2>1 DEF DialogsOK, KeysOK, LimitsOK
  <2>10. ViewsOK => ViewsOK'
    BY <2>1, ViewPrime DEF ViewsOK
  <2>. QED
    BY <2>1, <2>2, <2>3, <2>4, <2>5, <2>6, <2>7, <2>8, <2>9, <2>10 DEF PagesOK
<1>. QED BY <1>1, <1>2

\* No page shows what is not so, for any number of retries, lost answers and
\* changes by others: not a link without an open invitation, an activation that
\* did not happen, the inspection of another job, an earlier list as the present
\* one or a dead stream as live; what was acknowledged is shown, or a warning in
\* its place (onboarding and activation, directory forms, recovery, platform,
\* tenants and their dialogs, operations views).
THEOREM ShownTrue == ASSUME NoneApart PROVE Spec => []ShownIsTrue
<1>1. Init => PagesOK
  BY PagesBegin
<1>2. PagesOK /\ [Next]_vars => PagesOK'
  BY PagesStep
<1>3. PagesOK => ShownIsTrue
  BY OnboardMeans, DirectoryMeans, InspectionsMean, PlatformMeans, TenantsMean, DialogsMeans, ViewsMean
  DEF PagesOK, ShownIsTrue
<1>. QED BY <1>1, <1>2, <1>3, PTL DEF Spec
=============================================================================

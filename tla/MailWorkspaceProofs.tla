------------------------ MODULE MailWorkspaceProofs ------------------------
(***************************************************************************)
(* Proofs about MailWorkspace, for any items and bounds.  Each promise of  *)
(* the page rests on what the operations that outlive their view still     *)
(* carry: which of them may open an editor, which view they own, which     *)
(* load is the newest, which reads of a list are older than a move.  One   *)
(* lemma per such fact says that every step preserves it.                  *)
(***************************************************************************)
EXTENDS MailWorkspace, TLAPS

\* One openEditor call at most is the latest, and none while an editor is open.
OneOpening ==
  /\ \A o, q \in opens : o.latest /\ q.latest => o = q
  /\ editor # 0 => \A o \in opens : ~o.latest

\* An operation whose view is still its own was started from the present route.
OwnersAreHome ==
  /\ \A s \in sends : s.owns => s.from = route
  /\ \A a \in acts : a.owns => a.from = route

\* The loads of a reader have distinct versions, none newer than its epoch, and
\* none that of the refusal; content on screen is newer than the refusal.
LoadsInOrder ==
  /\ live.denied <= live.epoch
  /\ \A l \in live.loads : l.ver \in 1 .. live.epoch /\ l.ver # live.denied
  /\ \A l, m \in live.loads : l.ver = m.ver => l = m
  /\ NoContentAfterDenial

\* An item this session moved out of a list is not there on the server, and not
\* in an answer under way; rows that still show it are an error's or due to be
\* read again.
MovesAreKnown ==
  \A m \in moved :
    /\ where[m[1]] # m[2]
    /\ cache[m[2]].read = "served" => m[1] \notin ItemsIn(cache[m[2]].snap)
    /\ cache[m[2]].rows # None /\ m[1] \in ItemsIn(cache[m[2]].rows)
         => cache[m[2]].error \/ validating(cache[m[2]])

WInv == TypeOK /\ OneOpening /\ OwnersAreHome /\ LoadsInOrder /\ MovesAreKnown

-----------------------------------------------------------------------------
(* What is rendered after a step.                                          *)

Reader == [epoch : 0 .. MaxLoads, loads : SUBSET LoadRecord, content : Nat, denied : Nat]

\* A refresh starts the next load of a mounted reader.
LEMMA ReloadedType ==
  ASSUME NEW l \in Reader
  PROVE  Reloaded(l) \in Reader /\ NoReader \in Reader
<1>1. MaxLoads \in Nat
  BY WorkspaceBounds
<1>2. NoReader \in Reader
  BY <1>1 DEF NoReader, Reader
<1>3. l.epoch \in Nat /\ l.epoch <= MaxLoads
  BY <1>1 DEF Reader
<1>4. CASE l.epoch < MaxLoads
  <2>1. l.epoch + 1 \in 0 .. MaxLoads
    BY <1>1, <1>3, <1>4
  <2>2. {[ver |-> l.epoch + 1, at |-> "content"]} \subseteq LoadRecord
    BY <1>3 DEF LoadRecord
  <2>. QED BY <1>2, <1>4, <2>1, <2>2 DEF Reloaded, Reader
<1>5. CASE ~(l.epoch < MaxLoads)
  BY <1>2, <1>5 DEF Reloaded, Reader
<1>. QED BY <1>4, <1>5

\* The effects of a commit keep the observation and the reader in their types.
LEMMA CommitTypes ==
  ASSUME TypeOK, Commit \/ CommitRefresh
  PROVE  obs' \in {"new", "seen", "retired"} /\ live' \in Reader
<1>1. obs' = Observation /\ live' \in {live, NoReader, Reloaded(live)}
  BY DEF Commit, CommitRefresh
<1>2. live \in Reader
  BY DEF TypeOK, Reader
<1>3. Observation \in {"new", "seen", "retired"}
  BY DEF Observation, TypeOK
<1>. QED BY <1>1, <1>2, <1>3, ReloadedType

\* Retiring the views of pending operations keeps their shape.
LEMMA RetiredType ==
  /\ \A O \in SUBSET OpenRecord : Retired(O) \in SUBSET OpenRecord
  /\ \A S \in SUBSET SendRecord : Retired(S) \in SUBSET SendRecord
  /\ \A A \in SUBSET ActRecord : Retired(A) \in SUBSET ActRecord
<1>1. \A o \in OpenRecord : [o EXCEPT !.owns = FALSE] \in OpenRecord
  BY DEF OpenRecord
<1>2. \A o \in SendRecord : [o EXCEPT !.owns = FALSE] \in SendRecord
  BY DEF SendRecord
<1>3. \A o \in ActRecord : [o EXCEPT !.owns = FALSE] \in ActRecord
  BY DEF ActRecord
<1>. QED BY <1>1, <1>2, <1>3 DEF Retired

\* So does superseding them.
LEMMA SupersededType ==
  ASSUME opens \subseteq OpenRecord
  PROVE  Superseded \subseteq OpenRecord
<1>1. \A o \in OpenRecord : [o EXCEPT !.latest = FALSE] \in OpenRecord
  BY DEF OpenRecord
<1>. QED BY <1>1 DEF Superseded

\* Invalidating lists keeps their entries' shape.
LEMMA MutateType ==
  ASSUME cache \in [ListKeys -> EntryRecord], NEW K, Mutate(K)
  PROVE  cache' \in [ListKeys -> EntryRecord]
<1>1. \A e \in EntryRecord : Invalidated(e) \in EntryRecord
  BY DEF Invalidated, EntryRecord, Rows
<1>. QED BY <1>1 DEF Mutate

-----------------------------------------------------------------------------
(* Types.                                                                  *)

\* The state but for what a commit derives.
Facts ==
  /\ route \in Route /\ rights \subseteq {"read", "send"}
  /\ keys \in Nat /\ editor \in 0 .. keys
  /\ opens \subseteq OpenRecord /\ sends \subseteq SendRecord /\ acts \subseteq ActRecord
  /\ cache \in [ListKeys -> EntryRecord]
  /\ where \in [Items -> ListKeys \cup {"gone"}] /\ rev \in [Items -> Nat]
  /\ readable \in BOOLEAN /\ moved \subseteq Items \X ListKeys
  /\ inputs \in 0 .. MaxInputs /\ faults \in 0 .. MaxFaults

LEMMA FactsAndCommit ==
  ASSUME TypeOK, Facts', Commit \/ CommitRefresh
  PROVE  TypeOK'
BY CommitTypes DEF TypeOK, Facts, Reader

LEMMA Counters ==
  ASSUME TypeOK, Input \/ Fault \/ Quiet
  PROVE  inputs' \in 0 .. MaxInputs /\ faults' \in 0 .. MaxFaults
BY WorkspaceBounds DEF TypeOK, Input, Fault, Quiet

LEMMA ReadsType ==
  ASSUME TypeOK, Reads
  PROVE  TypeOK'
<1>. PICK k \in ListKeys : Revalidate(k) \/ ServeList(k) \/ Deliver(k) \/ ReadFails(k)
  BY DEF Reads
<1>1. /\ UNCHANGED <<route, rights, editor, keys, pending, server, moved>> /\ Commit
      /\ Input \/ Fault \/ Quiet
  BY DEF Revalidate, ServeList, Deliver, ReadFails
<1>2. cache \in [ListKeys -> EntryRecord] /\ cache[k] \in EntryRecord
  BY DEF TypeOK
<1>3. Entry \in EntryRecord
  BY DEF Entry, EntryRecord, Rows
<1>4. {<<i, rev[i]>> : i \in {j \in Items : where[j] = k}} \in Rows
  BY DEF TypeOK, Rows
<1>5. PICK e \in EntryRecord : cache' = [cache EXCEPT ![k] = e]
  <2>1. CASE Revalidate(k)
    BY <1>2, <2>1 DEF Revalidate, EntryRecord
  <2>2. CASE ServeList(k)
    BY <1>2, <1>4, <2>2 DEF ServeList, EntryRecord
  <2>3. CASE Deliver(k)
    BY <1>2, <1>3, <2>3 DEF Deliver, EntryRecord
  <2>4. CASE ReadFails(k)
    BY <1>2, <1>3, <2>4 DEF ReadFails, EntryRecord
  <2>. QED BY <2>1, <2>2, <2>3, <2>4
<1>6. cache' \in [ListKeys -> EntryRecord]
  BY <1>2, <1>5
<1>7. Facts'
  BY <1>1, <1>6, Counters DEF Facts, TypeOK, pending, server
<1>. QED BY <1>1, <1>7, FactsAndCommit

\* Leaving a route.
LEMMA GoToType ==
  ASSUME TypeOK, NEW r \in Route, GoTo(r)
  PROVE  /\ route' \in Route /\ opens' \subseteq OpenRecord /\ sends' \subseteq SendRecord
         /\ acts' \subseteq ActRecord
BY RetiredType DEF TypeOK, GoTo, pending

LEMMA UserType ==
  ASSUME TypeOK, User \/ ClearRetired
  PROVE  TypeOK'
<1>1. ASSUME NEW f \in Folders, NEW s \in Items \cup {None}, Navigate(f, s) PROVE TypeOK'
  <2>1. [folder |-> f, sel |-> s] \in Route
    BY DEF Route
  <2>2. Facts'
    BY <1>1, <2>1, GoToType, Counters DEF Navigate, Facts, TypeOK, server
  <2>. QED BY <1>1, <2>2, FactsAndCommit DEF Navigate
<1>2. CASE ClearRetired
  <2>1. [route EXCEPT !.sel = None] \in Route
    BY DEF TypeOK, Route
  <2>2. Facts'
    BY <1>2, <2>1, GoToType, Counters DEF ClearRetired, Facts, TypeOK, server
  <2>. QED BY <1>2, <2>2, FactsAndCommit DEF ClearRetired
<1>3. CASE Refresh \/ CloseEditor
  <2>1. cache' \in [ListKeys -> EntryRecord] /\ CommitRefresh
    BY <1>3, MutateType DEF Refresh, CloseEditor, TypeOK
  <2>2. /\ editor' \in 0 .. keys'
        /\ UNCHANGED <<route, rights, keys, pending, server, moved>> /\ Input
    BY <1>3 DEF Refresh, CloseEditor, TypeOK
  <2>3. Facts'
    BY <2>1, <2>2, Counters DEF Facts, TypeOK, server, pending
  <2>. QED BY <2>1, <2>3, FactsAndCommit
<1>4. CASE Compose
  <2>1. opens' \subseteq OpenRecord /\ acts' \subseteq ActRecord
    BY <1>4, SupersededType, RetiredType DEF Compose, start, TypeOK
  <2>2. Facts'
    BY <1>4, <2>1, Counters DEF Compose, Facts, TypeOK, server
  <2>. QED BY <1>4, <2>2, FactsAndCommit DEF Compose
<1>5. ASSUME NEW kind \in {"edit", "reply"}, openEditor(kind) PROVE TypeOK'
  <2>1. [kind |-> kind, owns |-> TRUE, latest |-> TRUE, from |-> route,
         draft |-> kind = "edit" \/ sender] \in OpenRecord
    BY DEF TypeOK, OpenRecord, sender
  <2>2. opens' \subseteq OpenRecord
    BY <1>5, <2>1, SupersededType DEF openEditor, TypeOK
  <2>3. Facts'
    BY <1>5, <2>2, Counters DEF openEditor, Facts, TypeOK, server
  <2>. QED BY <1>5, <2>3, FactsAndCommit DEF openEditor
<1>6. CASE ClickSend
  <2>0. [key |-> editor, owns |-> TRUE, from |-> route] \in SendRecord
    BY DEF TypeOK, SendRecord
  <2>1. sends' \subseteq SendRecord
    BY <1>6, <2>0 DEF ClickSend, TypeOK
  <2>2. Facts'
    BY <1>6, <2>1, Counters DEF ClickSend, Facts, TypeOK, server
  <2>. QED BY <1>6, <2>2, FactsAndCommit DEF ClickSend
<1>7. ASSUME NEW i \in Items, NEW r \in Nat, route.folder \in ListKeys, Act(i, r) PROVE TypeOK'
  <2>0. [item |-> i, rev |-> r, key |-> route.folder, owns |-> TRUE, from |-> route,
         at |-> "asked"] \in ActRecord
    BY <1>7 DEF TypeOK, ActRecord
  <2>1. acts' \subseteq ActRecord
    BY <1>7, <2>0 DEF Act, TypeOK
  <2>2. Facts'
    BY <1>7, <2>1, Counters DEF Act, Facts, TypeOK, server
  <2>. QED BY <1>7, <2>2, FactsAndCommit DEF Act
<1>8. ASSUME NEW k \in ListKeys, NEW i, NEW r \in rowOf(k, i) PROVE r[2] \in Nat
  <2>1. cache[k].rows \in Rows \cup {None}
    BY DEF TypeOK, EntryRecord
  <2>2. r \in Items \X Nat
    BY <1>8, <2>1 DEF rowOf, Rows
  <2>. QED BY <2>2
<1>9. CASE ActReceived
  BY <1>7, <1>9 DEF ActReceived, MessagePane, Items, ListKeys
<1>10. CASE ActSent
  BY <1>7, <1>8, <1>10 DEF ActSent, liveItem, listMounted, Items, ListKeys
<1>11. CASE RemoveDraft
  BY <1>7, <1>8, <1>11 DEF RemoveDraft, listMounted, Items, ListKeys
<1>12. CASE ContinueDraft \/ Reply
  BY <1>5, <1>12 DEF ContinueDraft, Reply
<1>13. CASE \E f \in Folders : \E s \in {None} \cup {i \in Items \ Drafts : f \in FoldersOf(i)} :
              Navigate(f, s)
  BY <1>1, <1>13
<1>. QED BY <1>2, <1>3, <1>4, <1>6, <1>9, <1>10, <1>11, <1>12, <1>13 DEF User

LEMMA CompletionsType ==
  ASSUME TypeOK, Completions
  PROVE  TypeOK'
<1>1. ASSUME NEW o \in opens, Opened(o) PROVE TypeOK'
  <2>1. acts' \subseteq ActRecord /\ keys' \in Nat /\ editor' \in 0 .. keys'
    BY <1>1, RetiredType DEF Opened, TypeOK
  <2>2. Facts'
    BY <1>1, <2>1, Counters DEF Opened, Facts, TypeOK, server
  <2>. QED BY <1>1, <2>2, FactsAndCommit DEF Opened
<1>2. ASSUME NEW o \in opens, OpenFails(o) PROVE TypeOK'
  <2>1. Facts'
    BY <1>2, Counters DEF OpenFails, Facts, TypeOK, server
  <2>. QED BY <1>2, <2>1, FactsAndCommit DEF OpenFails
<1>3. ASSUME NEW s \in sends, OnSent(s) PROVE TypeOK'
  <2>1. /\ opens' \subseteq OpenRecord /\ sends' \subseteq SendRecord
        /\ acts' \subseteq ActRecord
    <3>1. sends \ {s} \in SUBSET SendRecord
      BY DEF TypeOK
    <3>. QED BY <1>3, <3>1, RetiredType DEF OnSent, TypeOK
  <2>2. route' \in Route
    BY <1>3 DEF OnSent, TypeOK, Route, Folders
  <2>3. cache' \in [ListKeys -> EntryRecord]
    BY <1>3, MutateType DEF OnSent, TypeOK
  <2>4. editor' \in 0 .. keys'
    BY <1>3 DEF OnSent, TypeOK
  <2>5. Facts'
    BY <1>3, <2>1, <2>2, <2>3, <2>4, Counters DEF OnSent, Facts, TypeOK, server
  <2>. QED BY <1>3, <2>5, FactsAndCommit DEF OnSent
<1>4. ASSUME NEW s \in sends, SendFails(s) PROVE TypeOK'
  <2>1. Facts'
    BY <1>4, Counters DEF SendFails, Facts, TypeOK, server
  <2>. QED BY <1>4, <2>1, FactsAndCommit DEF SendFails
<1>5. ASSUME NEW a \in acts, ServeAct(a) PROVE TypeOK'
  <2>1. a \in ActRecord /\ a.item \in Items
    BY DEF TypeOK, ActRecord
  <2>2. \A x \in {"done", "refused"} : [a EXCEPT !.at = x] \in ActRecord
    BY <2>1 DEF ActRecord
  <2>3. acts' \subseteq ActRecord
    BY <1>5, <2>2 DEF ServeAct, TypeOK
  <2>4. where' \in [Items -> ListKeys \cup {"gone"}] /\ rev' \in [Items -> Nat]
    BY <1>5, <2>1 DEF ServeAct, TypeOK, Target, ListKeys
  <2>5. moved' \subseteq moved
    BY <1>5 DEF ServeAct
  <2>6. Facts'
    BY <1>5, <2>3, <2>4, <2>5, Counters DEF ServeAct, Facts, TypeOK
  <2>. QED BY <1>5, <2>6, FactsAndCommit DEF ServeAct
<1>6. ASSUME NEW a \in acts, ActDone(a) PROVE TypeOK'
  <2>1. a.item \in Items /\ a.key \in ListKeys
    BY DEF TypeOK, ActRecord
  <2>2. route' \in Route
    BY <1>6 DEF ActDone, TypeOK, Route
  <2>3. /\ opens' \subseteq OpenRecord /\ sends' \subseteq SendRecord
        /\ acts' \subseteq ActRecord
    <3>1. acts \ {a} \in SUBSET ActRecord
      BY DEF TypeOK
    <3>. QED BY <1>6, <3>1, RetiredType DEF ActDone, TypeOK
  <2>4. cache' \in [ListKeys -> EntryRecord]
    BY <1>6, MutateType DEF ActDone, TypeOK
  <2>5. moved' \subseteq Items \X ListKeys
    BY <1>6, <2>1 DEF ActDone, TypeOK
  <2>6. Facts'
    BY <1>6, <2>2, <2>3, <2>4, <2>5, Counters DEF ActDone, Facts, TypeOK, server
  <2>. QED BY <1>6, <2>6, FactsAndCommit DEF ActDone
<1>7. ASSUME NEW a \in acts, ActRefused(a) PROVE TypeOK'
  <2>1. Facts'
    BY <1>7, Counters DEF ActRefused, Facts, TypeOK, server
  <2>. QED BY <1>7, <2>1, FactsAndCommit DEF ActRefused
<1>. QED BY <1>1, <1>2, <1>3, <1>4, <1>5, <1>6, <1>7 DEF Completions

\* A load of the reader touches the reader alone.
LEMMA LoadsType ==
  ASSUME TypeOK, Loads
  PROVE  TypeOK'
<1>1. UNCHANGED <<route, rights, editor, keys, pending, obs, cache, server, moved>> /\ Quiet
  BY DEF Loads, LoadStart, LoadServed, LoadSettles
<1>2. live \in Reader /\ MaxLoads \in Nat
  BY WorkspaceBounds DEF TypeOK, Reader
<1>3. CASE LoadStart
  <2>1. [ver |-> live.epoch + 1, at |-> "content"] \in LoadRecord
    BY <1>2 DEF Reader, LoadRecord
  <2>2. live.epoch + 1 \in 0 .. MaxLoads
    BY <1>2, <1>3 DEF LoadStart, Reader
  <2>. QED BY <1>1, <1>2, <1>3, <2>1, <2>2
           DEF LoadStart, Reader, TypeOK, pending, server, Quiet
<1>4. ASSUME NEW l \in live.loads, LoadServed(l) \/ LoadSettles(l) PROVE live' \in Reader
  <2>1. l \in LoadRecord
    BY <1>2 DEF Reader
  <2>2. /\ \A x \in {"denied", "half", "all", "files"} : [l EXCEPT !.at = x] \in LoadRecord
        /\ l.ver \in Nat
    BY <2>1 DEF LoadRecord
  <2>3. CASE LoadServed(l)
    BY <1>2, <2>2, <2>3 DEF LoadServed, Reader
  <2>4. CASE LoadSettles(l)
    BY <1>2, <2>2, <2>4 DEF LoadSettles, Reader
  <2>. QED BY <1>4, <2>3, <2>4
<1>5. CASE ~LoadStart
  <2>1. live' \in Reader
    BY <1>4, <1>5 DEF Loads
  <2>. QED BY <1>1, <2>1 DEF Reader, TypeOK, pending, server, Quiet
<1>. QED BY <1>3, <1>5

LEMMA WorldType ==
  ASSUME TypeOK, World
  PROVE  TypeOK'
<1>1. ASSUME NEW i \in Items, OtherMoves(i) PROVE TypeOK'
  <2>1. FoldersOf(i) \cup {"gone"} \subseteq ListKeys \cup {"gone"}
    BY DEF FoldersOf, ListKeys
  <2>2. where' \in [Items -> ListKeys \cup {"gone"}] /\ rev' \in [Items -> Nat]
    BY <1>1, <2>1 DEF OtherMoves, TypeOK
  <2>3. moved' \subseteq moved
    BY <1>1 DEF OtherMoves
  <2>4. Facts'
    BY <1>1, <2>2, <2>3, Counters DEF OtherMoves, Facts, TypeOK, pending
  <2>. QED BY <1>1, <2>4, FactsAndCommit DEF OtherMoves
<1>2. CASE StreamEvent
  <2>1. cache' \in [ListKeys -> EntryRecord]
    BY <1>2, MutateType DEF StreamEvent, TypeOK
  <2>2. Facts'
    BY <1>2, <2>1, Counters DEF StreamEvent, Facts, TypeOK, server, pending
  <2>. QED BY <1>2, <2>2, FactsAndCommit DEF StreamEvent
<1>3. CASE ContentChanges
  <2>1. Facts'
    BY <1>3, Counters DEF ContentChanges, Facts, TypeOK, pending
  <2>. QED BY <1>3, <2>1, FactsAndCommit DEF ContentChanges
<1>4. CASE RightsChange
  <2>1. acts' \subseteq ActRecord /\ rights' \subseteq {"read", "send"}
    BY <1>4, RetiredType DEF RightsChange, TypeOK
  <2>2. Facts'
    BY <1>4, <2>1, Counters DEF RightsChange, Facts, TypeOK, server
  <2>. QED BY <1>4, <2>2, FactsAndCommit DEF RightsChange
<1>. QED BY <1>1, <1>2, <1>3, <1>4 DEF World

LEMMA InitType ==
  ASSUME Init
  PROVE  TypeOK
<1>1. \A i \in Items : (CHOOSE f \in FoldersOf(i) : f # "archive") \in ListKeys
  <2>. SUFFICES ASSUME NEW i \in Items
                PROVE  (CHOOSE f \in FoldersOf(i) : f # "archive") \in ListKeys
    OBVIOUS
  <2>1. FoldersOf(i) \subseteq ListKeys /\ \E f \in FoldersOf(i) : f # "archive"
    BY DEF FoldersOf, ListKeys
  <2>. QED BY <2>1
<1>2. NoReader \in Reader
  BY WorkspaceBounds DEF NoReader, Reader
<1>3. Entry \in EntryRecord
  BY DEF Entry, EntryRecord, Rows
<1>4. route \in Route
  BY DEF Init, Route, Folders, ListKeys
<1>5. 0 \in 0 .. MaxInputs /\ 0 \in 0 .. MaxFaults
  BY WorkspaceBounds
<1>6. where \in [Items -> ListKeys \cup {"gone"}]
  BY <1>1 DEF Init
<1>. QED BY <1>2, <1>3, <1>4, <1>5, <1>6 DEF Init, TypeOK, Reader

\* Every step keeps the types.
LEMMA NextType ==
  ASSUME TypeOK, [Next]_vars
  PROVE  TypeOK'
<1>1. CASE UNCHANGED vars
  BY <1>1 DEF TypeOK, vars
<1>2. CASE Next
  BY <1>2, ReadsType, UserType, CompletionsType, LoadsType, WorldType DEF Next
<1>. QED BY <1>1, <1>2

-----------------------------------------------------------------------------
(* Opening an editor.                                                      *)

\* Apart from the three actions that ask for an editor, a step only drops or
\* retires pending openings, and gives an editor only to the latest of them.
LEMMA OpensStep ==
  ASSUME TypeOK, Next, ~Compose, ~ContinueDraft, ~Reply
  PROVE  /\ opens' \subseteq opens \/ opens' = Retired(opens)
         /\ \/ editor' \in {editor, 0}
            \/ \E o \in opens : o.latest /\ opens' = opens \ {o}
<1>1. CASE Reads
  BY <1>1 DEF Reads, Revalidate, ServeList, Deliver, ReadFails, pending
<1>2. CASE User \/ ClearRetired
  <2>1. ASSUME NEW f, NEW s, Navigate(f, s)
        PROVE  (opens' = opens \/ opens' = Retired(opens)) /\ editor' = editor
    BY <2>1 DEF Navigate, GoTo, pending
  <2>2. CASE ClearRetired
    BY <2>2 DEF ClearRetired, GoTo, pending
  <2>3. CASE Refresh \/ CloseEditor \/ ClickSend \/ ActReceived \/ ActSent \/ RemoveDraft
    BY <2>3 DEF Refresh, CloseEditor, ClickSend, ActReceived, ActSent, RemoveDraft, Act,
                pending
  <2>. QED BY <1>2, <2>1, <2>2, <2>3 DEF User
<1>3. CASE Completions
  BY <1>3 DEF Completions, Opened, OpenFails, OnSent, SendFails, ServeAct, ActDone,
              ActRefused, owns
<1>4. CASE Loads
  BY <1>4 DEF Loads, LoadStart, LoadServed, LoadSettles, pending
<1>5. CASE World
  BY <1>5 DEF World, OtherMoves, StreamEvent, ContentChanges, RightsChange, pending
<1>. QED BY <1>1, <1>2, <1>3, <1>4, <1>5 DEF Next

\* An opening that was superseded is not the latest; a retired one is the latest
\* if it was before.
LEMMA OpeningKinds ==
  ASSUME opens \subseteq OpenRecord
  PROVE  /\ \A o \in Superseded : ~o.latest
         /\ \A o \in Retired(opens) : \E q \in opens : /\ o = [q EXCEPT !.owns = FALSE]
                                                       /\ o.latest = q.latest
<1>1. \A o \in OpenRecord : /\ ~[o EXCEPT !.latest = FALSE].latest
                            /\ [o EXCEPT !.owns = FALSE].latest = o.latest
  BY DEF OpenRecord
<1>2. \A o \in Superseded : ~o.latest
  <2>. SUFFICES ASSUME NEW o \in Superseded PROVE ~o.latest
    OBVIOUS
  <2>1. PICK q \in opens : o = [q EXCEPT !.latest = FALSE]
    BY DEF Superseded
  <2>. QED BY <1>1, <2>1
<1>3. ASSUME NEW o \in Retired(opens)
      PROVE  \E q \in opens : o = [q EXCEPT !.owns = FALSE] /\ o.latest = q.latest
  <2>1. PICK q \in opens : o = [q EXCEPT !.owns = FALSE]
    BY DEF Retired
  <2>. QED BY <1>1, <2>1
<1>. QED BY <1>2, <1>3

LEMMA OneOpeningStep ==
  ASSUME TypeOK, OneOpening, Next
  PROVE  OneOpening'
<1>. opens \subseteq OpenRecord
  BY DEF TypeOK
<1>1. CASE Compose
  BY <1>1, OpeningKinds DEF Compose, start, OneOpening
<1>2. CASE ContinueDraft \/ Reply
  <2>1. PICK kind : openEditor(kind)
    BY <1>2 DEF ContinueDraft, Reply
  <2>2. editor = 0
    BY <1>2 DEF ContinueDraft, Reply, MessagePane, listMounted
  <2>. QED BY <2>1, <2>2, OpeningKinds DEF openEditor, OneOpening
<1>3. CASE ~Compose /\ ~ContinueDraft /\ ~Reply
  <2>1. CASE opens' \subseteq opens
    BY <1>3, <2>1, OpensStep DEF OneOpening
  <2>2. CASE opens' = Retired(opens) /\ editor' \in {editor, 0}
    BY <2>2, OpeningKinds DEF OneOpening
  <2>. QED BY <1>3, <2>1, <2>2, OpensStep
<1>. QED BY <1>1, <1>2, <1>3

-----------------------------------------------------------------------------
(* Operations and the view they began in.                                  *)

\* Nothing retired owns a view.
LEMMA RetiredOwnNothing ==
  /\ \A S \in SUBSET SendRecord : \A s \in Retired(S) : ~s.owns
  /\ \A A \in SUBSET ActRecord : \A a \in Retired(A) : ~a.owns
<1>1. \A o \in SendRecord : ~[o EXCEPT !.owns = FALSE].owns
  BY DEF SendRecord
<1>2. \A o \in ActRecord : ~[o EXCEPT !.owns = FALSE].owns
  BY DEF ActRecord
<1>. QED BY <1>1, <1>2 DEF Retired

LEMMA OwnersAreHomeStep ==
  ASSUME TypeOK, OwnersAreHome, Next
  PROVE  OwnersAreHome'
<1>. sends \in SUBSET SendRecord /\ acts \in SUBSET ActRecord
  BY DEF TypeOK
<1>1. CASE route' = route /\ sends' \subseteq sends
           /\ (acts' \subseteq acts \/ acts' = Retired(acts))
  BY <1>1, RetiredOwnNothing DEF OwnersAreHome
<1>2. CASE sends' = Retired(sends) /\ acts' = Retired(acts)
  BY <1>2, RetiredOwnNothing DEF OwnersAreHome
<1>3. CASE Reads
  BY <1>1, <1>3 DEF Reads, Revalidate, ServeList, Deliver, ReadFails, pending
<1>4. CASE User \/ ClearRetired
  <2>1. ASSUME NEW r, GoTo(r) PROVE OwnersAreHome'
    BY <1>1, <1>2, <2>1 DEF GoTo, pending
  <2>2. CASE ClearRetired \/ \E f, s : Navigate(f, s)
    BY <2>1, <2>2 DEF ClearRetired, Navigate
  <2>3. CASE Refresh \/ Compose \/ CloseEditor
    BY <1>1, <2>3 DEF Refresh, Compose, CloseEditor, pending
  <2>4. CASE ContinueDraft \/ Reply
    BY <1>1, <2>4 DEF ContinueDraft, Reply, openEditor
  <2>5. CASE ClickSend
    BY <2>5 DEF ClickSend, OwnersAreHome
  <2>6. ASSUME NEW i, NEW r, Act(i, r) PROVE OwnersAreHome'
    BY <2>6 DEF Act, OwnersAreHome
  <2>7. CASE ActReceived \/ ActSent \/ RemoveDraft
    BY <2>6, <2>7 DEF ActReceived, ActSent, RemoveDraft
  <2>. QED BY <1>4, <2>2, <2>3, <2>4, <2>5, <2>7 DEF User
<1>5. CASE Completions
  <2>1. ASSUME NEW o \in opens, Opened(o) \/ OpenFails(o) PROVE OwnersAreHome'
    BY <1>1, <2>1 DEF Opened, OpenFails
  <2>2. ASSUME NEW s \in sends, OnSent(s) \/ SendFails(s) PROVE OwnersAreHome'
    <3>1. CASE OnSent(s) /\ mayRedirect(s)
      <4>1. sends \ {s} \in SUBSET SendRecord
        OBVIOUS
      <4>. QED BY <3>1, <4>1, RetiredOwnNothing DEF OnSent, OwnersAreHome
    <3>2. CASE SendFails(s) \/ (OnSent(s) /\ ~mayRedirect(s))
      BY <1>1, <3>2 DEF SendFails, OnSent
    <3>. QED BY <2>2, <3>1, <3>2
  <2>3. ASSUME NEW a \in acts, ServeAct(a) PROVE OwnersAreHome'
    <3>1. a \in ActRecord
      OBVIOUS
    <3>2. \A x : [a EXCEPT !.at = x].owns = a.owns /\ [a EXCEPT !.at = x].from = a.from
      BY <3>1 DEF ActRecord
    <3>. QED BY <2>3, <3>2 DEF ServeAct, OwnersAreHome
  <2>4. ASSUME NEW a \in acts, ActDone(a) \/ ActRefused(a) PROVE OwnersAreHome'
    <3>1. CASE ActDone(a) /\ clearsSelection(a)
      <4>1. acts \ {a} \in SUBSET ActRecord
        OBVIOUS
      <4>. QED BY <3>1, <4>1, RetiredOwnNothing DEF ActDone, OwnersAreHome
    <3>2. CASE ActRefused(a) \/ (ActDone(a) /\ ~clearsSelection(a))
      BY <1>1, <3>2 DEF ActRefused, ActDone
    <3>. QED BY <2>4, <3>1, <3>2
  <2>. QED BY <1>5, <2>1, <2>2, <2>3, <2>4 DEF Completions
<1>6. CASE Loads
  BY <1>1, <1>6 DEF Loads, LoadStart, LoadServed, LoadSettles, pending
<1>7. CASE World
  BY <1>1, <1>7 DEF World, OtherMoves, StreamEvent, ContentChanges, RightsChange, pending
<1>. QED BY <1>3, <1>4, <1>5, <1>6, <1>7 DEF Next

-----------------------------------------------------------------------------
(* The reader of a sent message.                                           *)

\* LoadsInOrder of a given reader.
Ordered(l) ==
  /\ l.denied <= l.epoch
  /\ \A x \in l.loads : x.ver \in 1 .. l.epoch /\ x.ver # l.denied
  /\ \A x, y \in l.loads : x.ver = y.ver => x = y
  /\ l.content # 0 => l.content > l.denied

\* Only the three steps of a load change the reader otherwise than by unmounting
\* it or by a refresh.
LEMMA LiveStep ==
  ASSUME Next, ~Loads
  PROVE  live' \in {live, NoReader, Reloaded(live)}
<1>1. Commit \/ CommitRefresh
  BY DEF Next, Reads, Revalidate, ServeList, Deliver, ReadFails, User, Navigate, Refresh,
         Compose, ContinueDraft, Reply, openEditor, CloseEditor, ClickSend, ActReceived,
         ActSent, RemoveDraft, Act, ClearRetired, Completions, Opened, OpenFails, OnSent,
         SendFails, ServeAct, ActDone, ActRefused, World, OtherMoves, StreamEvent,
         ContentChanges, RightsChange
<1>. QED BY <1>1 DEF Commit, CommitRefresh

LEMMA LoadsInOrderStep ==
  ASSUME TypeOK, LoadsInOrder, Next
  PROVE  LoadsInOrder'
<1>1. live \in Reader /\ Ordered(live)
  BY DEF TypeOK, Reader, LoadsInOrder, Ordered, NoContentAfterDenial
<1>2. SUFFICES Ordered(live')
  BY DEF LoadsInOrder, Ordered, NoContentAfterDenial
<1>3. live.epoch \in Nat /\ live.denied \in Nat /\ live.content \in Nat /\ MaxLoads \in Nat
  BY <1>1, WorkspaceBounds DEF Reader
<1>4. \A x \in live.loads : x \in LoadRecord /\ x.ver \in Nat
  BY <1>1 DEF Reader, LoadRecord
<1>5. CASE live' = live
  BY <1>1, <1>5
<1>6. CASE live' = NoReader
  BY <1>6 DEF NoReader, Ordered
<1>7. CASE live' = Reloaded(live)
  <2>1. CASE live.epoch < MaxLoads
    <3>1. /\ live'.epoch = live.epoch + 1 /\ live'.denied = live.denied
          /\ live'.content = live.content
          /\ live'.loads = {[ver |-> live.epoch + 1, at |-> "content"]}
      BY <1>1, <1>7, <2>1 DEF Reloaded, Reader
    <3>. QED BY <1>1, <1>3, <3>1 DEF Ordered
  <2>2. CASE ~(live.epoch < MaxLoads)
    <3>1. /\ live'.epoch = live.epoch /\ live'.denied = live.denied
          /\ live'.content = live.content /\ live'.loads = {}
      BY <1>1, <1>7, <2>2 DEF Reloaded, Reader
    <3>. QED BY <1>1, <3>1 DEF Ordered
  <2>. QED BY <2>1, <2>2
<1>8. CASE LoadStart
  <2>1. /\ live'.epoch = live.epoch + 1 /\ live'.denied = live.denied
        /\ live'.content = live.content
        /\ live'.loads = live.loads \cup {[ver |-> live.epoch + 1, at |-> "content"]}
    BY <1>1, <1>8 DEF LoadStart, Reader
  <2>. QED BY <1>1, <1>3, <1>4, <2>1 DEF Ordered
<1>9. ASSUME NEW l \in live.loads, LoadServed(l) PROVE Ordered(live')
  <2>1. PICK x : /\ live'.epoch = live.epoch /\ live'.denied = live.denied
                 /\ live'.content = live.content
                 /\ live'.loads = (live.loads \ {l}) \cup {[l EXCEPT !.at = x]}
    BY <1>1, <1>9 DEF LoadServed, Reader
  <2>2. [l EXCEPT !.at = x].ver = l.ver
    BY <1>4 DEF LoadRecord
  <2>. QED BY <1>1, <1>3, <1>4, <2>1, <2>2 DEF Ordered
<1>10. ASSUME NEW l \in live.loads, LoadSettles(l) PROVE Ordered(live')
  <2>1. CASE ~newest(l)
    <3>1. /\ live'.epoch = live.epoch /\ live'.denied = live.denied
          /\ live'.content = live.content /\ live'.loads = live.loads \ {l}
      BY <1>1, <1>10, <2>1 DEF LoadSettles, Reader
    <3>. QED BY <1>1, <3>1 DEF Ordered
  <2>2. CASE newest(l) /\ l.at = "half"
    <3>1. /\ live'.epoch = live.epoch /\ live'.denied = live.denied
          /\ live'.content = live.content
          /\ live'.loads = (live.loads \ {l}) \cup {[l EXCEPT !.at = "files"]}
      BY <1>1, <1>10, <2>2 DEF LoadSettles, Reader
    <3>2. [l EXCEPT !.at = "files"].ver = l.ver
      BY <1>4 DEF LoadRecord
    <3>. QED BY <1>1, <1>3, <1>4, <3>1, <3>2 DEF Ordered
  <2>3. CASE newest(l) /\ l.at # "half"
    <3>1. /\ live'.epoch = live.epoch /\ live'.loads = live.loads \ {l}
          /\ live'.content = IF l.at = "all" THEN l.ver ELSE 0
          /\ live'.denied = IF l.at = "all" THEN live.denied ELSE l.ver
      BY <1>1, <1>10, <2>3 DEF LoadSettles, Reader
    <3>2. l.ver = live.epoch
      BY <2>3 DEF newest
    <3>. QED BY <1>1, <1>3, <1>4, <3>1, <3>2 DEF Ordered
  <2>. QED BY <2>1, <2>2, <2>3
<1>. QED BY <1>5, <1>6, <1>7, <1>8, <1>9, <1>10, LiveStep DEF Loads

-----------------------------------------------------------------------------
(* The lists and the moves of this session.                                *)

\* What MovesAreKnown says of one moved item and one list entry.
Shows(e, i) ==
  /\ e.read = "served" => i \notin ItemsIn(e.snap)
  /\ e.rows # None /\ i \in ItemsIn(e.rows) => e.error \/ validating(e)

\* An invalidated list is due to be read, whatever it shows.
LEMMA InvalidatedShows ==
  ASSUME NEW e \in EntryRecord, NEW i
  PROVE  Shows(Invalidated(e), i)
BY DEF Shows, Invalidated, EntryRecord, validating

\* A mutate keeps every list honest, and makes each list it names so.
LEMMA MutateShows ==
  ASSUME TypeOK, NEW K, Mutate(K), NEW k \in ListKeys, NEW i, k \in K \/ Shows(cache[k], i)
  PROVE  Shows(cache'[k], i)
<1>1. cache[k] \in EntryRecord
  BY DEF TypeOK
<1>2. cache'[k] = IF k \in K THEN Invalidated(cache[k]) ELSE cache[k]
  BY DEF Mutate
<1>. QED BY <1>1, <1>2, InvalidatedShows

\* The reads of a list.
LEMMA ReadsShow ==
  ASSUME TypeOK, NEW k \in ListKeys,
         Revalidate(k) \/ ServeList(k) \/ Deliver(k) \/ ReadFails(k),
         NEW j \in ListKeys, NEW i, where[i] # j, Shows(cache[j], i)
  PROVE  Shows(cache'[j], i)
<1>1. cache \in [ListKeys -> EntryRecord] /\ cache[k] \in EntryRecord
  BY DEF TypeOK
<1>2. CASE j # k
  BY <1>1, <1>2 DEF Revalidate, ServeList, Deliver, ReadFails
<1>3. CASE j = k /\ Revalidate(k)
  <2>1. /\ cache'[k].read = "asked" /\ cache'[k].rows = cache[k].rows
    BY <1>1, <1>3 DEF Revalidate, EntryRecord
  <2>. QED BY <1>3, <2>1 DEF Shows, validating
<1>4. CASE j = k /\ ServeList(k)
  <2>1. /\ cache'[k].read = "served" /\ cache'[k].rows = cache[k].rows
        /\ cache'[k].snap = {<<x, rev[x]>> : x \in {y \in Items : where[y] = k}}
    BY <1>1, <1>4 DEF ServeList, EntryRecord
  <2>2. i \notin ItemsIn(cache'[k].snap)
    BY <1>4, <2>1 DEF ItemsIn
  <2>. QED BY <1>4, <2>1, <2>2 DEF Shows, validating
<1>5. CASE j = k /\ Deliver(k)
  <2>1. cache'[k].read = "no" /\ cache'[k].rows = cache[k].snap
    BY <1>1, <1>5 DEF Deliver, Entry, EntryRecord
  <2>. QED BY <1>5, <2>1 DEF Shows, Deliver
<1>6. CASE j = k /\ ReadFails(k)
  <2>1. cache'[k].read = "no" /\ cache'[k].error
    BY <1>1, <1>6 DEF ReadFails, Entry, EntryRecord
  <2>. QED BY <1>6, <2>1 DEF Shows
<1>. QED BY <1>2, <1>3, <1>4, <1>5, <1>6

LEMMA MovesAreKnownStep ==
  ASSUME TypeOK, MovesAreKnown, Next
  PROVE  MovesAreKnown'
<1>1. \A m \in moved : where[m[1]] # m[2] /\ Shows(cache[m[2]], m[1]) /\ m[2] \in ListKeys
  BY DEF MovesAreKnown, Shows, TypeOK
<1>2. SUFFICES ASSUME NEW m \in moved'
               PROVE  where'[m[1]] # m[2] /\ Shows(cache'[m[2]], m[1])
  BY DEF MovesAreKnown, Shows, validating
<1>3. CASE UNCHANGED <<where, cache, moved>>
  BY <1>1, <1>3
<1>4. ASSUME NEW K, Mutate(K), UNCHANGED <<where, moved>>
      PROVE  where'[m[1]] # m[2] /\ Shows(cache'[m[2]], m[1])
  BY <1>1, <1>4, MutateShows
<1>5. CASE Reads
  <2>1. PICK k \in ListKeys : Revalidate(k) \/ ServeList(k) \/ Deliver(k) \/ ReadFails(k)
    BY <1>5 DEF Reads
  <2>2. UNCHANGED <<where, moved>>
    BY <2>1 DEF Revalidate, ServeList, Deliver, ReadFails, server
  <2>. QED BY <1>1, <2>1, <2>2, ReadsShow
<1>6. CASE User \/ ClearRetired
  <2>1. CASE Refresh \/ CloseEditor
    BY <1>4, <2>1 DEF Refresh, CloseEditor, server
  <2>2. CASE ~Refresh /\ ~CloseEditor
    BY <1>3, <1>6, <2>2 DEF User, Navigate, Compose, ContinueDraft, Reply, openEditor,
       ClickSend, ActReceived, ActSent, RemoveDraft, Act, ClearRetired, server
  <2>. QED BY <2>1, <2>2
<1>7. CASE Completions
  <2>1. ASSUME NEW a \in acts, ServeAct(a)
        PROVE  where'[m[1]] # m[2] /\ Shows(cache'[m[2]], m[1])
    <3>1. /\ m \in moved /\ UNCHANGED cache
          /\ m[1] # a.item \/ where'[a.item] # m[2]
          /\ where' = where \/ where' = [where EXCEPT ![a.item] = Target(a)]
      BY <2>1 DEF ServeAct
    <3>2. where \in [Items -> ListKeys \cup {"gone"}] /\ m[1] \in Items
      BY <3>1 DEF TypeOK
    <3>. QED BY <1>1, <3>1, <3>2
  <2>2. ASSUME NEW a \in acts, ActDone(a)
        PROVE  where'[m[1]] # m[2] /\ Shows(cache'[m[2]], m[1])
    <3>1. Mutate({a.key}) /\ where' = where
      BY <2>2 DEF ActDone, submittedKeys, server
    <3>2. m \in moved \/ (m = <<a.item, a.key>> /\ where[a.item] # a.key)
      BY <2>2 DEF ActDone
    <3>3. a.key \in ListKeys
      BY DEF TypeOK, ActRecord
    <3>4. CASE m \in moved
      BY <1>1, <3>1, <3>4, MutateShows
    <3>5. CASE m = <<a.item, a.key>> /\ where[a.item] # a.key
      BY <3>1, <3>3, <3>5, MutateShows
    <3>. QED BY <3>2, <3>4, <3>5
  <2>3. ASSUME NEW s \in sends, OnSent(s)
        PROVE  where'[m[1]] # m[2] /\ Shows(cache'[m[2]], m[1])
    BY <1>4, <2>3 DEF OnSent, server
  <2>4. CASE \/ \E o \in opens : Opened(o) \/ OpenFails(o)
             \/ \E s \in sends : SendFails(s)
             \/ \E a \in acts : ActRefused(a)
    BY <1>3, <2>4 DEF Opened, OpenFails, SendFails, ActRefused, server
  <2>. QED BY <1>7, <2>1, <2>2, <2>3, <2>4 DEF Completions
<1>8. CASE Loads
  BY <1>3, <1>8 DEF Loads, LoadStart, LoadServed, LoadSettles, server
<1>9. CASE World
  <2>1. ASSUME NEW i \in Items, OtherMoves(i)
        PROVE  where'[m[1]] # m[2] /\ Shows(cache'[m[2]], m[1])
    <3>1. /\ m \in moved /\ UNCHANGED cache /\ (m[1] # i \/ where'[i] # m[2])
          /\ \E f : where' = [where EXCEPT ![i] = f]
      BY <2>1 DEF OtherMoves
    <3>2. where \in [Items -> ListKeys \cup {"gone"}] /\ m[1] \in Items
      BY <3>1 DEF TypeOK
    <3>. QED BY <1>1, <3>1, <3>2
  <2>2. CASE StreamEvent
    BY <1>4, <2>2 DEF StreamEvent, server
  <2>3. CASE ContentChanges \/ RightsChange
    BY <1>3, <2>3 DEF ContentChanges, RightsChange, server
  <2>. QED BY <1>9, <2>1, <2>2, <2>3 DEF World
<1>. QED BY <1>5, <1>6, <1>7, <1>8, <1>9 DEF Next

-----------------------------------------------------------------------------
(* Theorems.                                                               *)

\* At every step of every run, the operations that outlive their view keep the
\* facts of WInv.
THEOREM WorkspaceInvariant == Spec => []WInv
<1>1. Init => WInv
  <2>. SUFFICES ASSUME Init PROVE WInv
    OBVIOUS
  <2>1. OneOpening /\ OwnersAreHome /\ MovesAreKnown
    BY DEF Init, OneOpening, OwnersAreHome, MovesAreKnown
  <2>2. LoadsInOrder
    BY DEF Init, NoReader, LoadsInOrder, NoContentAfterDenial
  <2>. QED BY <2>1, <2>2, InitType DEF WInv
<1>2. WInv /\ [Next]_vars => WInv'
  <2>. SUFFICES ASSUME WInv, [Next]_vars PROVE WInv'
    OBVIOUS
  <2>1. TypeOK'
    BY NextType DEF WInv
  <2>2. CASE UNCHANGED vars
    BY <2>1, <2>2 DEF WInv, vars, OneOpening, OwnersAreHome, LoadsInOrder, MovesAreKnown,
                      NoContentAfterDenial, validating
  <2>3. CASE Next
    BY <2>1, <2>3, OneOpeningStep, OwnersAreHomeStep, LoadsInOrderStep, MovesAreKnownStep
       DEF WInv
  <2>. QED BY <2>2, <2>3
<1>. QED BY <1>1, <1>2, PTL DEF Spec

\* TypeOK: the whole state of the mail page has its shape.
THEOREM WorkspaceTypes == Spec => []TypeOK
<1>1. WInv => TypeOK
  BY DEF WInv
<1>. QED BY <1>1, WorkspaceInvariant, PTL

\* OwnMovesAreShown: a settled list never shows an item this session moved out
\* of it, whatever reads were under way when it was moved.
THEOREM MovesStayMoved == Spec => []OwnMovesAreShown
<1>1. WInv => OwnMovesAreShown
  BY DEF WInv, MovesAreKnown, OwnMovesAreShown, listReady
<1>. QED BY <1>1, WorkspaceInvariant, PTL

\* NoContentAfterDenial: an answer older than a refusal cannot bring the private
\* content of a sent message back.
THEOREM DenialIsFinal == Spec => []NoContentAfterDenial
<1>1. WInv => NoContentAfterDenial
  BY DEF WInv, LoadsInOrder
<1>. QED BY <1>1, WorkspaceInvariant, PTL

\* EditorNotReplaced: a draft or reply that arrives late never takes the place
\* of the editor the user is in.
THEOREM EditorStays == Spec => EditorNotReplaced
<1>1. WInv /\ [Next]_vars => [editor # 0 => editor' \in {editor, 0}]_vars
  <2>. SUFFICES ASSUME WInv, Next, editor # 0 PROVE editor' \in {editor, 0}
    BY DEF vars
  <2>1. CASE Compose
    BY <2>1 DEF Compose
  <2>2. CASE ContinueDraft \/ Reply
    BY <2>2 DEF ContinueDraft, Reply, MessagePane, listMounted
  <2>3. CASE ~Compose /\ ~ContinueDraft /\ ~Reply
    BY <2>3, OpensStep DEF WInv, OneOpening
  <2>. QED BY <2>1, <2>2, <2>3
<1>. QED BY <1>1, WorkspaceInvariant, PTL DEF Spec, EditorNotReplaced

\* AutomaticMovesStayHome: a completion changes the route only of the view it
\* was started in.
THEOREM CompletionsStayHome == Spec => AutomaticMovesStayHome
<1>1. WInv /\ [Next]_vars =>
        [route' # route /\ inputs' = inputs => obs = "retired" \/ route \in MovedBy]_vars
  <2>. SUFFICES ASSUME WInv, Next, route' # route, inputs' = inputs
                PROVE  obs = "retired" \/ route \in MovedBy
    BY DEF vars
  <2>0. inputs \in Nat /\ sends \in SUBSET SendRecord /\ acts \in SUBSET ActRecord
    BY DEF WInv, TypeOK
  <2>1. ~Input
    BY <2>0 DEF Input
  <2>2. CASE Reads \/ Loads \/ World
    BY <2>2 DEF Reads, Revalidate, ServeList, Deliver, ReadFails, Loads, LoadStart,
       LoadServed, LoadSettles, World, OtherMoves, StreamEvent, ContentChanges, RightsChange
  <2>3. CASE User
    BY <2>1, <2>3 DEF User, Navigate, Refresh, Compose, ContinueDraft, Reply, openEditor,
       CloseEditor, ClickSend, ActReceived, ActSent, RemoveDraft, Act
  <2>4. CASE ClearRetired
    BY <2>4 DEF ClearRetired
  <2>5. CASE Completions
    <3>1. ASSUME NEW s \in sends, OnSent(s) PROVE route \in MovedBy
      <4>1. mayRedirect(s) /\ sends' = Retired(sends \ {s})
        BY <3>1 DEF OnSent
      <4>2. s.owns /\ s.from = route
        BY <4>1 DEF mayRedirect, WInv, OwnersAreHome
      <4>3. s \notin sends'
        <5>1. sends \ {s} \in SUBSET SendRecord
          BY <2>0
        <5>. QED BY <4>1, <4>2, <5>1, RetiredOwnNothing
      <4>. QED BY <4>2, <4>3 DEF MovedBy
    <3>2. ASSUME NEW a \in acts, ActDone(a) PROVE route \in MovedBy
      <4>1. clearsSelection(a) /\ acts' = Retired(acts \ {a})
        BY <3>2 DEF ActDone
      <4>2. a.owns /\ a.from = route
        BY <4>1 DEF clearsSelection, WInv, OwnersAreHome
      <4>3. a \notin acts'
        <5>1. acts \ {a} \in SUBSET ActRecord
          BY <2>0
        <5>. QED BY <4>1, <4>2, <5>1, RetiredOwnNothing
      <4>. QED BY <4>2, <4>3 DEF MovedBy
    <3>3. ASSUME NEW a \in acts, ServeAct(a) \/ ActRefused(a) PROVE FALSE
      BY <3>3 DEF ServeAct, ActRefused
    <3>4. ASSUME NEW o \in opens, Opened(o) \/ OpenFails(o) PROVE FALSE
      BY <3>4 DEF Opened, OpenFails
    <3>5. ASSUME NEW s \in sends, SendFails(s) PROVE FALSE
      BY <3>5 DEF SendFails
    <3>. QED BY <2>5, <3>1, <3>2, <3>3, <3>4, <3>5 DEF Completions
  <2>. QED BY <2>2, <2>3, <2>4, <2>5 DEF Next
<1>. QED BY <1>1, WorkspaceInvariant, PTL DEF Spec, AutomaticMovesStayHome
=============================================================================

--------------------------- MODULE MailWorkspace ---------------------------
(***************************************************************************)
(* The mail page of one mailbox (features/mail): the route in the URL, the *)
(* editor that covers the folders, the cached lists, and the operations    *)
(* that outlive the view that started them: opening a draft or a reply,    *)
(* sending, archiving or deleting, and the reader that reloads the private *)
(* content of a sent message.                                              *)
(*                                                                         *)
(* A React owner object (useRef of a fresh {}) is a flag of the operation  *)
(* that captured it: TRUE until the effect that published it is cleaned    *)
(* up.  An SWR cache entry holds the rows last delivered, the read under   *)
(* way and whether a mutate still demands one.                             *)
(***************************************************************************)
EXTENDS Integers

CONSTANTS Received, Sent, Drafts, \* the items of the mailbox
          None,
          MaxInputs, \* things the user does
          MaxFaults, \* moves by others, failures, rights and session changes
          MaxLoads   \* content loads of one mounted reader

Items == Received \cup Sent \cup Drafts

ASSUME WorkspaceBounds ==
  /\ None \notin Items
  /\ {MaxInputs, MaxFaults, MaxLoads} \subseteq Nat

VARIABLES
  route,   \* the query of the URL: folder and selected item
  rights,  \* work-mailboxes: what this user may do with the mailbox
  editor,  \* key of the open editor, 0 when there is none
  keys,    \* editor keys handed out
  opens,   \* openEditor calls whose draft is awaited
  sends,   \* submissions whose onSent is awaited
  acts,    \* item actions whose answer is awaited
  obs,     \* ReceivedFolder's observation of the selected row
  cache,   \* list key -> SWR entry
  where,   \* server: the folder of each item
  rev,     \* server: revision of each item
  live,    \* the LiveSubmissionContent reader
  readable,\* server: whether the content of sent items may be read
  moved,   \* items this session moved, with the list they left, until back
  inputs, faults

vars == <<route, rights, editor, keys, opens, sends, acts, obs, cache, where, rev,
          live, readable, moved, inputs, faults>>
server == <<where, rev, readable>>
pending == <<opens, sends, acts>>

ListKeys == {"inbox", "archive", "sent", "drafts"}
Folders == ListKeys \cup {"receipts"}
FoldersOf(i) == IF i \in Received THEN {"inbox", "archive"}
                ELSE IF i \in Sent THEN {"sent"} ELSE {"drafts"}
Rows == SUBSET (Items \X Nat)
ItemsIn(rows) == {r[1] : r \in rows}

Entry == [rows |-> None, read |-> "no", snap |-> {}, error |-> FALSE, must |-> TRUE]
NoReader == [epoch |-> 0, loads |-> {}, content |-> 0, denied |-> 0]

Input == inputs < MaxInputs /\ inputs' = inputs + 1 /\ UNCHANGED faults
Fault == faults < MaxFaults /\ faults' = faults + 1 /\ UNCHANGED inputs
Quiet == UNCHANGED <<inputs, faults>>

-----------------------------------------------------------------------------
(* What is mounted.                                                        *)

sender == "send" \in rights
listMounted(k) == /\ editor = 0 /\ route.folder = k
                  /\ k = "drafts" \/ "read" \in rights
validating(e) == e.read # "no" \/ e.must
listReady(e) == e.rows # None /\ ~e.error /\ ~validating(e)
rowOf(k, i) == {r \in IF cache[k].rows = None \/ cache[k].error THEN {}
                      ELSE cache[k].rows : r[1] = i}

MessagePane == /\ route.folder \in {"inbox", "archive"} /\ listMounted(route.folder)
               /\ route.sel \in Received /\ obs # "retired"
liveItem == IF /\ listMounted("sent") /\ route.sel \in Sent
               /\ rowOf("sent", route.sel) # {}
            THEN route.sel ELSE None

-----------------------------------------------------------------------------
(* Effects of a commit, taken with every action that changes what is       *)
(* rendered.                                                               *)

\* ReceivedFolder: a row once seen in a list and missing from a later settled
\* one retires the selection; a new selection starts a new observation.
Observation ==
  LET e == cache'[route'.folder]
      o == IF route' = route THEN obs ELSE "new" IN
  IF route'.folder \notin {"inbox", "archive"} \/ route'.sel = None THEN "new"
  ELSE IF o = "retired" \/ e.error \/ e.rows = None THEN o
  ELSE IF route'.sel \in ItemsIn(e.rows) THEN "seen"
  ELSE IF o = "seen" /\ ~validating(e) THEN "retired" ELSE o

\* A reader that is unmounted or shows another item starts from nothing.
Commit ==
  /\ obs' = Observation
  /\ live' = IF liveItem' = liveItem /\ liveItem # None THEN live ELSE NoReader

\* Cleanup of the layout effects: a changed route retires the views of pending
\* operations; so does unmounting the folders under an editor for actions.
Retired(ops) == {[o EXCEPT !.owns = FALSE] : o \in ops}
GoTo(r) ==
  /\ route' = r
  /\ IF r = route THEN UNCHANGED pending
     ELSE /\ opens' = Retired(opens) /\ sends' = Retired(sends)
          /\ acts' = Retired(acts)

-----------------------------------------------------------------------------
(* The SWR cache and the reads behind it (external library).               *)

\* mutate(key): a read already under way is discarded, a new one is due.
Invalidated(e) == [e EXCEPT !.read = "no", !.snap = {}, !.must = TRUE]
Mutate(K) == cache' = [k \in ListKeys |-> IF k \in K THEN Invalidated(cache[k])
                                          ELSE cache[k]]

\* Mounting, polling, focus or a mutate starts a read.
Revalidate(k) ==
  /\ listMounted(k) /\ cache[k].read = "no"
  /\ cache' = [cache EXCEPT ![k].read = "asked", ![k].must = FALSE]
  /\ UNCHANGED <<route, rights, editor, keys, pending, server, moved>>
  /\ Commit /\ Quiet

ServeList(k) ==
  /\ cache[k].read = "asked"
  /\ cache' = [cache EXCEPT ![k].read = "served", ![k].snap =
                {<<i, rev[i]>> : i \in {j \in Items : where[j] = k}}]
  /\ UNCHANGED <<route, rights, editor, keys, pending, server, moved>>
  /\ Commit /\ Quiet

Deliver(k) ==
  /\ cache[k].read = "served"
  /\ cache' = [cache EXCEPT ![k] = [Entry EXCEPT !.rows = cache[k].snap,
                                                 !.must = FALSE]]
  /\ UNCHANGED <<route, rights, editor, keys, pending, server, moved>>
  /\ Commit /\ Quiet

ReadFails(k) ==
  /\ Fault
  /\ cache[k].read # "no"
  /\ cache' = [cache EXCEPT ![k] = [Entry EXCEPT !.rows = cache[k].rows,
                                                 !.must = FALSE, !.error = TRUE]]
  /\ UNCHANGED <<route, rights, editor, keys, pending, server, moved>>
  /\ Commit

-----------------------------------------------------------------------------
(* Navigation.                                                             *)

\* Folder and mailbox buttons, a row, a link, or the browser's history: the
\* last also while an editor is open.
Navigate(f, s) ==
  /\ Input
  /\ GoTo([folder |-> f, sel |-> s]) /\ route' # route
  /\ UNCHANGED <<rights, editor, keys, cache, server, moved>>
  /\ Commit

\* The effect of a retired observation clears the selection.
ClearRetired ==
  /\ obs = "retired" /\ editor = 0
  /\ GoTo([route EXCEPT !.sel = None])
  /\ UNCHANGED <<rights, editor, keys, cache, server, moved>>
  /\ Commit /\ Quiet

\* refresh(): every mail list is invalidated and a mounted reader reloads.
Reloaded(l) == IF l.epoch < MaxLoads
               THEN [l EXCEPT !.epoch = @ + 1,
                              !.loads = {[ver |-> l.epoch + 1, at |-> "content"]}]
               ELSE [l EXCEPT !.loads = {}]
CommitRefresh ==
  /\ obs' = Observation
  /\ live' = IF liveItem' = liveItem /\ liveItem # None THEN Reloaded(live)
             ELSE NoReader

Refresh ==
  /\ Input
  /\ Mutate(ListKeys)
  /\ UNCHANGED <<route, rights, editor, keys, pending, server, moved>>
  /\ CommitRefresh

\* An event of the mailbox stream, which runs while the mailbox is readable.
StreamEvent ==
  /\ Fault
  /\ "read" \in rights
  /\ Mutate(ListKeys)
  /\ UNCHANGED <<route, rights, editor, keys, pending, server, moved>>
  /\ CommitRefresh

-----------------------------------------------------------------------------
(* Opening an editor.                                                      *)

\* openingIntent: whatever was asked before is superseded.
Superseded == {[o EXCEPT !.latest = FALSE] : o \in opens}

\* MUTANT: drafts being opened are not superseded.
startAlongside == UNCHANGED opens

start == opens' = Superseded

Compose ==
  /\ Input
  /\ editor = 0 /\ sender
  /\ start
  /\ keys' = keys + 1 /\ editor' = keys + 1
  /\ acts' = Retired(acts)
  /\ UNCHANGED <<route, rights, sends, cache, server, moved>>
  /\ Commit

\* Continue a draft, or reply: the draft is fetched first.  newDraft gives no
\* editor to a reply when there is no sender.
openEditor(kind) ==
  /\ Input
  /\ opens' = Superseded \cup
       {[kind |-> kind, owns |-> TRUE, latest |-> TRUE, from |-> route,
         draft |-> kind = "edit" \/ sender]}
  /\ UNCHANGED <<route, rights, editor, keys, sends, acts, cache, server, moved>>
  /\ Commit

ContinueDraft ==
  /\ listMounted("drafts") /\ ~\E a \in acts : a.key = "drafts" /\ a.owns
  /\ \E d \in Drafts : rowOf("drafts", d) # {}
  /\ openEditor("edit")
Reply ==
  /\ MessagePane /\ sender /\ ~\E a \in acts : a.key = route.folder /\ a.owns
  /\ openEditor("reply")

owns(o) == o.owns /\ o.latest
Opened(o) ==
  /\ o \in opens
  /\ IF owns(o) /\ o.draft
     THEN /\ keys' = keys + 1 /\ editor' = keys + 1
          /\ acts' = Retired(acts)
     ELSE UNCHANGED <<keys, editor, acts>>
  /\ opens' = opens \ {o}
  /\ UNCHANGED <<route, rights, sends, cache, server, moved>>
  /\ Commit /\ Quiet

OpenFails(o) ==
  /\ Fault
  /\ o \in opens /\ opens' = opens \ {o}
  /\ UNCHANGED <<route, rights, editor, keys, sends, acts, cache, server, moved>>
  /\ Commit

-----------------------------------------------------------------------------
(* Leaving an editor.                                                      *)

CloseEditor ==
  /\ Input
  /\ editor # 0 /\ editor' = 0
  /\ Mutate(ListKeys)
  /\ UNCHANGED <<route, rights, keys, pending, server, moved>>
  /\ CommitRefresh

sending == \E s \in sends : s.key = editor
ClickSend ==
  /\ Input
  /\ editor # 0 /\ ~sending
  /\ sends' = sends \cup {[key |-> editor, owns |-> TRUE, from |-> route]}
  /\ UNCHANGED <<route, rights, editor, keys, opens, acts, cache, server, moved>>
  /\ Commit

\* MUTANT: a completed send always moves the view.
redirectsAlways(s) == TRUE

\* onSent: the editor that sent is retired; the redirect to the delivery status
\* needs the view the send began in, with that editor still on screen.
mayRedirect(s) == s.owns /\ editor = s.key

OnSent(s) ==
  /\ s \in sends
  /\ editor' = IF editor = s.key THEN 0 ELSE editor
  /\ IF mayRedirect(s)
     THEN /\ route' = [folder |-> "receipts", sel |-> None]
          /\ opens' = Retired(opens) /\ sends' = Retired(sends \ {s})
          /\ acts' = Retired(acts)
     ELSE sends' = sends \ {s} /\ UNCHANGED <<route, opens, acts>>
  /\ Mutate(ListKeys)
  /\ UNCHANGED <<rights, keys, server, moved>>
  /\ CommitRefresh /\ Quiet

SendFails(s) ==
  /\ Fault
  /\ s \in sends /\ sends' = sends \ {s}
  /\ UNCHANGED <<route, rights, editor, keys, opens, acts, cache, server, moved>>
  /\ Commit

-----------------------------------------------------------------------------
(* Actions on an item: archive and unarchive in MessagePane, trash in      *)
(* SentFolder, delete in DraftFolder.  One per mounted view (useAction).    *)

Act(i, r) ==
  /\ Input
  /\ ~\E a \in acts : a.key = route.folder /\ a.owns
  /\ acts' = acts \cup {[item |-> i, rev |-> r, key |-> route.folder, owns |-> TRUE,
                         from |-> route, at |-> "asked"]}
  /\ UNCHANGED <<route, rights, editor, keys, opens, sends, cache, server, moved>>
  /\ Commit

ActReceived == MessagePane /\ Act(route.sel, 0)
ActSent == /\ liveItem # None
           /\ \E r \in rowOf("sent", liveItem) : Act(liveItem, r[2])
RemoveDraft == /\ listMounted("drafts")
               /\ \E d \in Drafts : \E r \in rowOf("drafts", d) : Act(d, r[2])

\* The server moves the item; a revision, where the action sends one, must be
\* the current one.
Target(a) == IF a.item \in Received
             THEN IF a.key = "inbox" THEN "archive" ELSE "inbox" ELSE "gone"
ServeAct(a) ==
  /\ a \in acts /\ a.at = "asked"
  /\ LET ok == /\ where[a.item] \in FoldersOf(a.item)
               /\ a.item \in Received \/ a.rev = rev[a.item] IN
     /\ acts' = (acts \ {a}) \cup {[a EXCEPT !.at = IF ok THEN "done" ELSE "refused"]}
     /\ IF ok THEN /\ where' = [where EXCEPT ![a.item] = Target(a)]
                   /\ rev' = [rev EXCEPT ![a.item] = IF a.item \in Received THEN @
                                                     ELSE @ + 1]
        ELSE UNCHANGED <<where, rev>>
  /\ moved' = {m \in moved : m[1] # a.item \/ where'[a.item] # m[2]}
  /\ UNCHANGED <<route, rights, editor, keys, opens, sends, cache, readable>>
  /\ Commit /\ Quiet

\* MUTANT: the bound mutate, which follows the newest key.
boundKeys(a) == {route.folder} \cap ListKeys

\* The answer: the list the action was started from is invalidated, whichever
\* is mounted now; SentFolder also clears its selection if the view is its own.
submittedKeys(a) == {a.key}
clearsSelection(a) == a.item \in Sent /\ a.owns

ActDone(a) ==
  /\ a \in acts /\ a.at = "done"
  /\ Mutate(submittedKeys(a))
  /\ moved' = IF where[a.item] = a.key THEN moved
              ELSE moved \cup {<<a.item, a.key>>}
  /\ IF clearsSelection(a)
     THEN /\ route' = [route EXCEPT !.sel = None]
          /\ opens' = Retired(opens) /\ sends' = Retired(sends)
          /\ acts' = Retired(acts \ {a})
     ELSE acts' = acts \ {a} /\ UNCHANGED <<route, opens, sends>>
  /\ UNCHANGED <<rights, editor, keys, server>>
  /\ Commit /\ Quiet

ActRefused(a) ==
  /\ a \in acts /\ a.at = "refused"
  /\ acts' = acts \ {a}
  /\ UNCHANGED <<route, rights, editor, keys, opens, sends, cache, server, moved>>
  /\ Commit /\ Quiet

-----------------------------------------------------------------------------
(* LiveSubmissionContent: each load asks for the content, then for the     *)
(* attachments, and may set the state only as the newest of its reader.    *)

\* The timer, Retry loading or mounting: the older load is aborted, but its
\* answer may already be queued.
LoadStart ==
  /\ liveItem # None /\ live.epoch < MaxLoads
  /\ live' = [live EXCEPT !.epoch = @ + 1,
                          !.loads = @ \cup {[ver |-> live.epoch + 1,
                                             at |-> "content"]}]
  /\ UNCHANGED <<route, rights, editor, keys, pending, obs, cache, server, moved>>
  /\ Quiet

LoadServed(l) ==
  /\ l \in live.loads /\ l.at \in {"content", "files"}
  /\ live' = [live EXCEPT !.loads = (@ \ {l}) \cup
       {[l EXCEPT !.at = IF ~readable THEN "denied"
                         ELSE IF l.at = "content" THEN "half" ELSE "all"]}]
  /\ UNCHANGED <<route, rights, editor, keys, pending, obs, cache, server, moved>>
  /\ Quiet

\* MUTANT: an older load may publish.
anyVersion(l) == TRUE

newest(l) == l.ver = live.epoch

LoadSettles(l) ==
  /\ l \in live.loads /\ l.at \in {"half", "all", "denied"}
  /\ live' = IF ~newest(l) THEN [live EXCEPT !.loads = @ \ {l}]
             ELSE IF l.at = "half"
             THEN [live EXCEPT !.loads = (@ \ {l}) \cup {[l EXCEPT !.at = "files"]}]
             ELSE [live EXCEPT !.loads = @ \ {l},
                               !.content = IF l.at = "all" THEN l.ver ELSE 0,
                               !.denied = IF l.at = "all" THEN @ ELSE l.ver]
  /\ UNCHANGED <<route, rights, editor, keys, pending, obs, cache, server, moved>>
  /\ Quiet

-----------------------------------------------------------------------------
(* The rest of the world.                                                  *)

\* Another member or another tab moves an item.
OtherMoves(i) ==
  /\ Fault
  /\ \E f \in (FoldersOf(i) \cup {"gone"}) \ {where[i]} :
       where' = [where EXCEPT ![i] = f]
  /\ where[i] # "gone"
  /\ rev' = [rev EXCEPT ![i] = IF i \in Received THEN @ ELSE @ + 1]
  /\ moved' = {m \in moved : m[1] # i \/ where'[i] # m[2]}
  /\ UNCHANGED <<route, rights, editor, keys, pending, cache, readable>>
  /\ Commit

ContentChanges ==
  /\ Fault
  /\ readable' = ~readable
  /\ UNCHANGED <<route, rights, editor, keys, pending, cache, where, rev, moved>>
  /\ Commit

\* The work-mailboxes poll brings other rights.
RightsChange ==
  /\ Fault
  /\ \E r \in SUBSET {"read", "send"} : r # rights /\ rights' = r
  /\ acts' = IF "read" \in rights' THEN acts ELSE Retired(acts)
  /\ UNCHANGED <<route, editor, keys, opens, sends, cache, server, moved>>
  /\ Commit

-----------------------------------------------------------------------------
Init ==
  /\ route = [folder |-> "inbox", sel |-> None]
  /\ rights = {"read", "send"} /\ editor = 0 /\ keys = 0
  /\ opens = {} /\ sends = {} /\ acts = {} /\ moved = {}
  /\ obs = "new" /\ live = NoReader /\ readable = TRUE
  /\ cache = [k \in ListKeys |-> Entry]
  /\ where = [i \in Items |-> CHOOSE f \in FoldersOf(i) : f # "archive"]
  /\ rev = [i \in Items |-> 0]
  /\ inputs = 0 /\ faults = 0

Reads == \E k \in ListKeys : \/ Revalidate(k) \/ ServeList(k) \/ Deliver(k)
                             \/ ReadFails(k)
User == \/ \E f \in Folders : \E s \in {None} \cup {i \in Items \ Drafts :
                                                      f \in FoldersOf(i)} :
             Navigate(f, s)
        \/ Refresh \/ Compose \/ ContinueDraft \/ Reply \/ CloseEditor \/ ClickSend
        \/ ActReceived \/ ActSent \/ RemoveDraft
Completions ==
  \/ \E o \in opens : Opened(o) \/ OpenFails(o)
  \/ \E s \in sends : OnSent(s) \/ SendFails(s)
  \/ \E a \in acts : ServeAct(a) \/ ActDone(a) \/ ActRefused(a)
Loads == LoadStart \/ \E l \in live.loads : LoadServed(l) \/ LoadSettles(l)
World == \/ \E i \in Items : OtherMoves(i)
         \/ StreamEvent \/ ContentChanges \/ RightsChange

Next == Reads \/ User \/ ClearRetired \/ Completions \/ Loads \/ World

Spec == Init /\ [][Next]_vars

-----------------------------------------------------------------------------
Route == [folder : Folders, sel : Items \cup {None}]
OpenRecord == [kind : {"edit", "reply"}, owns : BOOLEAN, latest : BOOLEAN, from : Route,
               draft : BOOLEAN]
SendRecord == [key : Nat, owns : BOOLEAN, from : Route]
ActRecord == [item : Items, rev : Nat, key : ListKeys, owns : BOOLEAN, from : Route,
              at : {"asked", "done", "refused"}]
EntryRecord == [rows : Rows \cup {None}, read : {"no", "asked", "served"}, snap : Rows,
                error : BOOLEAN, must : BOOLEAN]
LoadRecord == [ver : Nat, at : {"content", "half", "files", "all", "denied"}]

TypeOK ==
  /\ route \in Route /\ rights \subseteq {"read", "send"}
  /\ keys \in Nat /\ editor \in 0 .. keys
  /\ opens \subseteq OpenRecord /\ sends \subseteq SendRecord /\ acts \subseteq ActRecord
  /\ obs \in {"new", "seen", "retired"} /\ cache \in [ListKeys -> EntryRecord]
  /\ where \in [Items -> ListKeys \cup {"gone"}] /\ rev \in [Items -> Nat]
  /\ live \in [epoch : 0 .. MaxLoads, loads : SUBSET LoadRecord, content : Nat, denied : Nat]
  /\ readable \in BOOLEAN /\ moved \subseteq Items \X ListKeys
  /\ inputs \in 0 .. MaxInputs /\ faults \in 0 .. MaxFaults

\* Whatever draft or reply is still being prepared, an open editor is never
\* replaced under the user's hands: it can only be closed.
EditorNotReplaced == [][editor # 0 => editor' \in {editor, 0}]_vars

\* A completion moves the user only out of the view it was started in: the
\* redirect after a send, and the cleared selection after a sent item is moved,
\* leave a user alone who has gone elsewhere.
MovedBy == {s.from : s \in sends \ sends'} \cup
           {a.from : a \in acts \ acts'}
AutomaticMovesStayHome ==
  [][route' # route /\ inputs' = inputs => obs = "retired" \/ route \in MovedBy]_vars

\* A settled list never shows an item that this session has moved out of it,
\* even if the list was left before the answer and a read of it was under way.
OwnMovesAreShown ==
  \A m \in moved : listReady(cache[m[2]]) => m[1] \notin ItemsIn(cache[m[2]].rows)

\* Once the newest load of a reader was refused, an older answer cannot bring
\* the private content back on screen.
NoContentAfterDenial == live.content # 0 => live.content > live.denied
=============================================================================

--------------------------- MODULE OperationsViews ---------------------------
(***************************************************************************)
(* The read-only views of the platform administrator: the lists of ingest  *)
(* jobs, webhook deliveries, audit entries and domains, and the monitor    *)
(* with its stored history and its live stream.  All of them read through  *)
(* one cache by key (useCRUDPage, SWR).  The fetch for a key begins only   *)
(* after the page was drawn with it, joins a fetch of the same key that is *)
(* under way, and is left out for a key fetched a moment ago; an answer is *)
(* stored under its own key whenever it comes.                             *)
(***************************************************************************)
EXTENDS PageForm, FiniteSets, Sequences

Lists == {"ingest", "webhooks", "audit", "domains"}
Forms == Lists \cup {"monitor"}
Jobs == 1..2
States == {"pending", "dead"}
PAGE_SIZE == 1
MAX_EVENTS == 1
MaxChoices == 2 \* enough to leave a query or a visit and to come back to it

-----------------------------------------------------------------------------
(* The server.  v counts its changes; an answer records the query and the  *)
(* version it was given for.                                               *)

Hits(s, q) == {j \in Jobs : q.state \in {"all", s.jobs[j]} /\ q.text \in {"", "x1"} /\ (q.text = "x1" => j = 1)}
PageOf(j, hits) == (Cardinality({i \in hits : i <= j}) + PAGE_SIZE - 1) \div PAGE_SIZE
listJobs(s, key) ==
  LET hits == Hits(s, key) IN
  [v |-> s.v, key |-> key, total |-> Cardinality(hits),
   rows |-> {<<j, s.jobs[j]>> : j \in {i \in hits : form = "domains" \/ PageOf(i, hits) = key.page}}]

Rival == \E st \in States \ {srv.jobs[1]} : Others([v |-> srv.v + 1, jobs |-> [srv.jobs EXCEPT ![1] = st]])

-----------------------------------------------------------------------------
(* The cache.                                                              *)

Full(u) == [reader |-> u.reader, page |-> u.page, state |-> u.state, text |-> u.text, gen |-> u.gen]
\* MUTANT: a query that is chosen again finds what was read for it before.
noGeneration(u) == [Full(u) EXCEPT !.gen = 0]
ingestKey(u) == Full(u)
webhooksKey(u) == Full(u)
auditKey(u) == Full(u)
\* MUTANT: a visit finds what an earlier visit of the page has read.
sharedReader(u) == [Full(u) EXCEPT !.reader = 0]
domainsKey(u) == Full(u)
historyKey(u) == [Full(u) EXCEPT !.reader = 0, !.gen = 0]
Key(u) == CASE form = "ingest" -> ingestKey(u)
            [] form = "webhooks" -> webhooksKey(u)
            [] form = "audit" -> auditKey(u)
            [] form = "domains" -> domainsKey(u)
            [] form = "monitor" -> historyKey(u)

Unread == [data |-> None, failed |-> FALSE]
Entry(u) == IF Key(u) \in DOMAIN u.cache THEN u.cache[Key(u)] ELSE Unread
isValidating(u) == Key(u) \in DOMAIN u.reads
listPending(u) == isValidating(u) \/ Entry(u) = Unread
listReady(u) == Entry(u).data # None /\ ~Entry(u).failed /\ ~listPending(u)
response(u) == IF form = "monitor" \/ listReady(u) THEN Entry(u).data ELSE None
rows(u) == IF response(u) = None THEN {} ELSE response(u).rows
totalPages(u) == Max2(1, (response(u).total + PAGE_SIZE - 1) \div PAGE_SIZE)

\* mutate: a new fetch of the key takes the place of one under way.
Asked(u, key) == [u EXCEPT !.reads = With(@, key, None)]
Still == UNCHANGED <<form, run, net, stray, srv, calls, rivals>>
Turn == moves < MaxChoices /\ Move
Shows(u) == ui' = u /\ UNCHANGED <<moves, lost>> /\ Still

startRead ==
  /\ ~ui.started
  /\ \/ Shows([IF isValidating(ui) THEN ui ELSE Asked(ui, Key(ui)) EXCEPT !.started = TRUE])
     \/ Entry(ui).data # None /\ Shows([ui EXCEPT !.started = TRUE])
Stale(u) == ~Entry(u).failed => Entry(u).data.v # srv.v
Revalidate ==
  /\ ui.started /\ ~isValidating(ui) /\ Stale(ui)
  /\ Shows(Asked(ui, Key(ui)))
refreshList ==
  /\ form \in Lists /\ ui.started /\ ~isValidating(ui) /\ (listReady(ui) \/ Entry(ui).failed)
  /\ Turn /\ ui' = Asked(ui, Key(ui)) /\ UNCHANGED lost /\ Still

Answers(key, a) == ui' = [ui EXCEPT !.reads[key] = a]
ServeRead ==
  \E key \in DOMAIN ui.reads :
    /\ ui.reads[key] = None
    /\ \/ Answers(key, Yes(listJobs(srv, key))) /\ UNCHANGED lost
       \/ lost < MaxLost /\ lost' = lost + 1 /\ Answers(key, No)
    /\ UNCHANGED moves /\ Still
Stored(u, key) ==
  LET a == u.reads[key]
      old == IF key \in DOMAIN u.cache THEN u.cache[key] ELSE Unread
  IN [u EXCEPT !.reads = [k \in DOMAIN @ \ {key} |-> @[k]],
               !.cache = With(@, key, IF a.ok THEN [data |-> a.data, failed |-> FALSE]
                                              ELSE [old EXCEPT !.failed = TRUE])]
ReadArrives == \E key \in DOMAIN ui.reads : ui.reads[key] # None /\ Shows(Stored(ui, key))

-----------------------------------------------------------------------------
(* The query.  The lists number every choice; the monitor does not, and it *)
(* keeps the page when the event type is chosen.                           *)

Chosen(u) == [u EXCEPT !.started = FALSE, !.since = srv.v, !.hint = 0]
Choose(u) == Turn /\ ui' = Chosen(u) /\ UNCHANGED lost /\ Still

\* One input changes at a time.
Filters == {<<st, ui.text>> : st \in {"all", "dead"} \ {ui.state}} \cup {<<ui.state, tx>> : tx \in {"", "x1"} \ {ui.text}}
ingestFilter ==
  /\ form = "ingest"
  /\ \E f \in Filters : Choose([ui EXCEPT !.page = 1, !.state = f[1], !.text = f[2], !.gen = @ + 1])
webhooksFilter ==
  /\ form = "webhooks"
  /\ \E f \in Filters : Choose([ui EXCEPT !.page = 1, !.state = f[1], !.text = f[2], !.gen = @ + 1])
monitorFilter ==
  /\ form = "monitor"
  /\ \E f \in Filters : Choose([ui EXCEPT !.page = IF f[2] # ui.text THEN 1 ELSE @, !.state = f[1], !.text = f[2]])
changePage ==
  /\ form \in Lists \ {"domains"} /\ listReady(ui)
  /\ \E p \in {ui.page - 1, ui.page + 1} :
       p >= 1 /\ (p > ui.page => ui.page < totalPages(ui)) /\ Choose([ui EXCEPT !.page = p, !.gen = @ + 1])
setHistoryPage ==
  /\ form = "monitor"
  /\ LET total == IF response(ui) = None THEN 0 ELSE response(ui).total IN
     \E p \in {ui.page - 1, ui.page + 1} :
       p >= 1 /\ (p > ui.page => ui.page * PAGE_SIZE < total) /\ Choose([ui EXCEPT !.page = p])

-----------------------------------------------------------------------------
(* The live stream.  A connection opens its transport again after every    *)
(* end of it, and each opening is a hint to read the history; a change     *)
(* comes as an event, or as the hint that events were left out.  Frames of *)
(* a connection that was given up may still arrive.                        *)

\* MUTANT: a frame of a connection that was given up is taken for a live one.
neverAborted(u, c) == FALSE
aborted(u, c) == c # u.conn
Frame(c, u) == form = "monitor" /\ ~aborted(ui, c) /\ Shows(u)
\* MUTANT: the hint refreshes the query that was shown when the stream was opened.
capturedKey(u) == u.captured
historyRefresh(u) == Key(u)
Hinted(u) == [Asked(u, historyRefresh(u)) EXCEPT !.hint = srv.v]
onOpen == ui.stream = "down" /\ Frame(ui.conn, [Hinted(ui) EXCEPT !.stream = "open"])
onResync == ui.stream = "open" /\ ui.hint < srv.v /\ Frame(ui.conn, Hinted(ui))
onReady == \E c \in 0..ui.conn :
  /\ c = ui.conn => ui.stream = "open"
  /\ Frame(c, [ui EXCEPT !.connected = TRUE, !.opened = c])
onMail ==
  /\ ui.stream = "open" /\ srv.v > 0 /\ ui.events # <<srv.v>>
  /\ Frame(ui.conn, [ui EXCEPT !.events = SubSeq(<<srv.v>> \o @, 1, MAX_EVENTS)])
\* The transport ends and will be opened again, or the permission is gone.
streamEnds ==
  /\ form = "monitor" /\ ui.stream # "over" /\ lost < MaxLost /\ lost' = lost + 1
  /\ \/ ui' = [ui EXCEPT !.stream = "down"]
     \/ ui' = [ui EXCEPT !.stream = "over", !.connected = FALSE]
  /\ UNCHANGED moves /\ Still
Connected(u) == [u EXCEPT !.connected = FALSE, !.opened = None, !.conn = @ + 1, !.stream = "down", !.captured = historyKey(u)]
reconnect == form = "monitor" /\ Turn /\ ui' = Connected(ui) /\ UNCHANGED lost /\ Still

-----------------------------------------------------------------------------
Visit(reader, cache, reads) ==
  [reader |-> reader, page |-> 1, state |-> "all", text |-> "", gen |-> 0,
   cache |-> cache, reads |-> reads, started |-> FALSE, since |-> srv.v, hint |-> 0,
   conn |-> reader, opened |-> None, connected |-> FALSE, stream |-> "down",
   events |-> <<>>, captured |-> None]
\* The cache outlives the page, and so do the fetches under way.
Remount == /\ Turn /\ UNCHANGED lost /\ Still
           /\ ui' = Connected([Visit(ui.reader + 1, ui.cache, ui.reads) EXCEPT !.conn = ui.conn])

Init == /\ form \in Forms /\ Quiet
        /\ srv = [v |-> 0, jobs |-> [j \in Jobs |-> IF j = 1 THEN "pending" ELSE "dead"]]
        /\ ui = Connected(Visit(0, <<>>, <<>>))

Next == \/ startRead \/ Revalidate \/ refreshList \/ ServeRead \/ ReadArrives
        \/ ingestFilter \/ webhooksFilter \/ monitorFilter \/ changePage \/ setHistoryPage
        \/ onOpen \/ onResync \/ onReady \/ onMail \/ streamEnds \/ reconnect
        \/ Remount \/ Rival
Spec == Init /\ [][Next]_vars

-----------------------------------------------------------------------------
(* What the console's properties say of this page.                         *)

\* Rows that a list presents as current were read for the query on the screen,
\* and not before that query was chosen: going A, B, A does not bring back the
\* first observation of A.
ListIsCurrent ==
  (form \in Lists /\ listReady(ui)) =>
    /\ response(ui).v >= ui.since
    /\ response(ui).v = srv.v => rows(ui) = listJobs(srv, Full(ui)).rows
\* When the monitor has nothing left to read, the history it shows is not older
\* than a hint that reached it while this query was on the screen.
HistoryFollowsResync ==
  (form = "monitor" /\ ui.started /\ ~isValidating(ui) /\ ~Entry(ui).failed) => Entry(ui).data.v >= ui.hint
\* The monitor says that it is live only once its present connection has
\* answered.
LiveIsTrue == (form = "monitor" /\ ui.connected) => ui.opened = ui.conn
=============================================================================

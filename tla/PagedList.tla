----------------------------- MODULE PagedList -----------------------------
(***************************************************************************)
(* The sound list: ui/sound_list/paged_model.rs, with the request lanes of *)
(* library_store.rs it reads the library through.                          *)
(*                                                                         *)
(* The list shows a query (a scope and a search) of which it knows only    *)
(* the number of rows.  Rows come in pages; a few pages are cached, the    *)
(* others show placeholders.  A page is asked for when one of its rows is  *)
(* bound to the screen, and its neighbours are then prefetched.  Requests  *)
(* go through the store's lanes, answers come back as callbacks of the GTK *)
(* thread, one worker thread per request, so in any order.                 *)
(*                                                                         *)
(* Every callback and event of the GTK thread is one step.  The model's    *)
(* fields are one record, which the methods transform; the requests they   *)
(* push are collected in the field "sent" and pushed one by one before the *)
(* GTK thread does anything else, while the store's worker goes on.        *)
(*                                                                         *)
(* Left out: what a row shows, the strong references GTK holds on rows,    *)
(* and clear(), which only the end of the window calls.                    *)
(***************************************************************************)
EXTENDS Integers, Sequences, FiniteSets, FiniteSetsExt, SequencesExt, Bags

CONSTANTS
  PageSize,           \* PAGE_SIZE
  MaxCachedPages,     \* MAX_CACHED_PAGES
  MaxCachedPayload,   \* MAX_CACHED_PAYLOAD_BYTES, in units of a page's payload
  MaxPendingLoads,    \* MAX_PENDING_PAGE_LOADS
  VisibleCapacity,    \* VISIBLE_QUEUE_CAPACITY
  MaintenanceCapacity,\* MAINTENANCE_QUEUE_CAPACITY
  Sizes,              \* how many rows the query may have
  Payloads,           \* payloads a loaded page may have
  MaxReloads,         \* bound: queries shown
  MaxEvents,          \* bound: failed requests, requests of others, changes of the library
  MaxBinds            \* bound: scrolls and edits of a shown row

ASSUME PagedListAssumption ==
  /\ {PageSize, MaxCachedPages, MaxPendingLoads} \subseteq Nat \ {0}
  /\ {VisibleCapacity, MaintenanceCapacity, MaxCachedPayload} \subseteq Nat
  /\ {MaxReloads, MaxEvents, MaxBinds} \subseteq Nat
  /\ Sizes \subseteq Nat /\ IsFiniteSet(Sizes) /\ Sizes # {}
  /\ Payloads \subseteq Nat

VARIABLES
  list,       \* the fields of PagedSoundModel
  shownQuery, \* PagedSoundModel.generation: which query is shown
  prepared,   \* PagedSoundModel.initial_page is still there
  visible,    \* QueueState.visible
  maintenance,\* QueueState.maintenance
  newest,     \* QueueState.search_generations of this list
  answers,    \* callbacks on their way to the GTK thread
  stored,     \* rows of the shown query in the database
  outdated,   \* history: the library changed since the query was shown
  forgotten,  \* history: a page was dropped while others waited for their turn
  events,     \* failed requests, requests of others and changes so far
  binds       \* scrolls and edits so far

lanes == <<visible, maintenance, newest>>
listVars == <<list, shownQuery, prepared, lanes, answers, stored, outdated,
              forgotten, events, binds>>

\* Pages there may be, the one after the last included (a page that a query
\* with more rows had).
Pages == 0 .. Max(Sizes) \div PageSize
PageCount(total) == (total + PageSize - 1) \div PageSize
Capped(n, limit) == IF n > limit THEN limit ELSE n
RowsOf(total, p) == IF total > p * PageSize THEN Capped(total - p * PageSize, PageSize) ELSE 0

EmptyList ==
  [total |-> 0, pages |-> <<>>, lru |-> <<>>, pending |-> {}, deferred |-> <<>>,
   timer |-> FALSE, sent |-> <<>>]

\* A request of this list, or of somebody else who shares the lanes.
Request(kind, p, priority, query) ==
  [kind |-> kind, page |-> p, priority |-> priority, query |-> query]
Other == [kind |-> "other", page |-> 0, priority |-> "none", query |-> 0]

-----------------------------------------------------------------------------
(* The page cache. *)

Without(f, S) == [x \in DOMAIN f \ S |-> f[x]]
With(f, x, v) == [y \in DOMAIN f \cup {x} |-> IF y = x THEN v ELSE f[y]]

\* The payload, unit by unit.
CachedPayload(pages) == Cardinality(UNION {{p} \X (1 .. pages[p].payload) : p \in DOMAIN pages})

\* evict_page, of several pages. The LRU order keeps them.
EvictAll(m, S) ==
  [m EXCEPT !.pages = Without(m.pages, S), !.pending = m.pending \ S]
Evict(m, p) == EvictAll(m, {p})

\* An order with x at its end, wherever it was.
MovedToEnd(order, x) ==
  IF x \in ToSet(order) THEN Append(RemoveAt(order, CHOOSE i \in DOMAIN order : order[i] = x), x)
  ELSE Append(order, x)

\* The first k of an order of the pages are evicted.
EvictFirst(m, order, k) ==
  [EvictAll(m, {order[i] : i \in 1 .. k}) EXCEPT !.lru = SubSeq(order, k + 1, Len(order))]
WithinLimits(m) ==
  Len(m.lru) <= MaxCachedPages /\ CachedPayload(m.pages) <= MaxCachedPayload

\* touch_page: the page is the most recently used one; the least recently
\* used are evicted until the count and the payload are within their limits.
Touch(m, p) ==
  LET order == MovedToEnd(m.lru, p)
  IN  EvictFirst(m, order, Min({k \in 0 .. Len(order) :
                                  WithinLimits(EvictFirst(m, order, k)) \/ k = Len(order)}))

\* A page of placeholders, one that has failed, and one with the first n rows of
\* its len loaded.
Placeholders(len) == [len |-> len, loaded |-> 0, state |-> "loading", payload |-> 0, query |-> 0]
Refused(len) == [len |-> len, loaded |-> 0, state |-> "failed", payload |-> 0, query |-> 0]
Loaded(len, n, payload, q) ==
  [len |-> len, loaded |-> n, state |-> "rows", payload |-> payload, query |-> q]

-----------------------------------------------------------------------------
(* Loading pages. *)

\* defer_visible_page: only the latest requests wait.
Defer(m, p) ==
  LET waiting == MovedToEnd(m.deferred, p)
      dropped == IF Len(waiting) > MaxPendingLoads THEN Len(waiting) - MaxPendingLoads ELSE 0
  IN  [m EXCEPT !.deferred = SubSeq(waiting, dropped + 1, Len(waiting))]

\* Is there room for another page under way?
HasRoom(m) == Cardinality(m.pending) < MaxPendingLoads

\* ensure_page.
Place(m, p) == Touch([m EXCEPT !.pages = With(m.pages, p, Placeholders(RowsOf(m.total, p)))], p)
LoadPage(m, p, priority) ==
  LET placed == Place(m, p)
  IN  [placed EXCEPT !.pending = placed.pending \cup {p},
                     !.sent = Append(placed.sent, Request("page", p, priority, shownQuery))]
Ensure(m, p, priority) ==
  IF p \in DOMAIN m.pages THEN Touch(m, p)
  ELSE IF ~HasRoom(m) THEN IF priority = "visible" THEN Defer(m, p) ELSE m
  ELSE IF RowsOf(m.total, p) = 0 THEN m
  ELSE LoadPage(m, p, priority)

\* drain_deferred_pages: the pages that wait have their turns while there is
\* room; nothing while the debounce timer runs.
Turn(m) ==
  IF HasRoom(m) /\ m.deferred # <<>>
  THEN Ensure([m EXCEPT !.deferred = Tail(m.deferred)], Head(m.deferred), "visible")
  ELSE m
Drain(m) ==
  LET turns[i \in 0 .. Len(m.deferred)] == IF i = 0 THEN m ELSE Turn(turns[i - 1])
  IN  IF m.timer THEN m ELSE turns[Len(m.deferred)]

\* schedule_deferred_pages.
Schedule(m) == [m EXCEPT !.timer = TRUE]

\* prefetch_adjacent.
Prefetch(m, p) ==
  LET after  == IF p + 1 < PageCount(m.total) THEN Ensure(m, p + 1, "prefetch") ELSE m
  IN  IF p > 0 THEN Ensure(after, p - 1, "prefetch") ELSE after

\* install_page: rows replace placeholders, and never add to them.
Install(m, p, n, payload, q) ==
  LET known == [m EXCEPT !.pending = m.pending \ {p}]
      len   == m.pages[p].len
  IN  IF p \notin DOMAIN m.pages THEN known
      ELSE Touch([known EXCEPT !.pages = With(m.pages, p, Loaded(len, Capped(n, len), payload, q))], p)

\* fail_page.
Fail(m, p) ==
  LET known == [m EXCEPT !.pending = m.pending \ {p}]
  IN  IF p \notin DOMAIN m.pages THEN known
      ELSE Touch([known EXCEPT !.pages = With(m.pages, p, Refused(m.pages[p].len))], p)

\* publish_initial_page: total rows, the n first of them loaded.
Publish(m, total, n, payload, q) ==
  LET shown == [m EXCEPT !.total = total]
  IN  IF n = 0 THEN shown
      ELSE Touch([shown EXCEPT !.pages = With(m.pages, 0, Loaded(n, n, payload, q))], 0)
-----------------------------------------------------------------------------
(* The store's request lanes. *)

\* What comes back for a request: its rows, a full lane or a database error.
Answer(request, outcome, rows) ==
  [request |-> request, outcome |-> outcome, rows |-> rows]

IsSuperseded(request, query) == request.kind # "other" /\ request.query < query

\* What a lane keeps when a newer query of the list comes.
Kept(lane, query) ==
  LET kept[i \in 0 .. Len(lane)] ==
        IF i = 0 THEN <<>>
        ELSE IF IsSuperseded(lane[i], query) THEN kept[i - 1]
        ELSE Append(kept[i - 1], lane[i])
  IN  kept[Len(lane)]

\* RequestQueue::push. A newer query of the list drops what the lanes still
\* hold of the older ones; a full lane refuses at once.
Renewed(l, request) ==
  IF request.kind # "other" /\ request.query # l.newest
  THEN [visible |-> Kept(l.visible, request.query), maintenance |-> Kept(l.maintenance, request.query),
        newest |-> request.query, answers |-> l.answers]
  ELSE l
Full(l, request) == [l EXCEPT !.answers = l.answers (+) SetToBag({Answer(request, "full", 0)})]
Push(l, request) ==
  LET k == Renewed(l, request)
  IN  IF IsSuperseded(request, l.newest) THEN l
      ELSE IF request.priority = "prefetch"
      THEN IF Len(k.maintenance) >= MaintenanceCapacity THEN Full(k, request)
           ELSE [k EXCEPT !.maintenance = Append(k.maintenance, request)]
      ELSE IF Len(k.visible) >= VisibleCapacity THEN Full(k, request)
           ELSE [k EXCEPT !.visible = Append(k.visible, request)]

Lanes ==
  [visible |-> visible, maintenance |-> maintenance, newest |-> newest,
   answers |-> answers]

\* The GTK thread pushes the next request of the callback it runs.
Send ==
  /\ list.sent # <<>>
  /\ list' = [list EXCEPT !.sent = Tail(@)]
  /\ LET l == Push(Lanes, Head(list.sent))
     IN  /\ visible' = l.visible
         /\ maintenance' = l.maintenance
         /\ newest' = l.newest
         /\ answers' = l.answers
  /\ UNCHANGED <<shownQuery, prepared, stored, outdated, forgotten, events, binds>>

\* The GTK thread is free, and an event or a callback turns the list into m.
Become(m) == list.sent = <<>> /\ list' = m /\ UNCHANGED lanes

\* Something that nobody in the list asked for.
Happens == events < MaxEvents /\ events' = events + 1

\* Other requests come to either lane. The ones a full lane refuses are
\* nothing to this list.
OtherVisible ==
  /\ Happens
  /\ Len(visible) < VisibleCapacity
  /\ visible' = Append(visible, Other)
  /\ UNCHANGED <<list, shownQuery, prepared, maintenance, newest, answers,
                 stored, outdated, forgotten, binds>>

OtherMaintenance ==
  /\ Happens
  /\ Len(maintenance) < MaintenanceCapacity
  /\ maintenance' = Append(maintenance, Other)
  /\ UNCHANGED <<list, shownQuery, prepared, visible, newest, answers,
                 stored, outdated, forgotten, binds>>

\* RequestQueue::pop and handle_request: the visible lane first. (The control
\* lane comes before both; nothing of this list is in it.)
Reply(request, remaining) ==
  \/ /\ request.kind = "other"
     /\ UNCHANGED <<answers, events>>
  \/ /\ request.kind # "other"
     /\ answers' = answers (+) SetToBag({Answer(request, "ok",
          IF request.kind = "count" THEN stored ELSE RowsOf(stored, request.page))})
     /\ UNCHANGED events
  \/ /\ request.kind # "other"
     /\ Happens
     /\ answers' = answers (+) SetToBag({Answer(request, "error", 0)})

Serve ==
  /\ \/ /\ visible # <<>>
        /\ visible' = Tail(visible)
        /\ UNCHANGED maintenance
        /\ Reply(Head(visible), visible')
     \/ /\ visible = <<>> /\ maintenance # <<>>
        /\ maintenance' = Tail(maintenance)
        /\ UNCHANGED visible
        /\ Reply(Head(maintenance), maintenance')
  /\ UNCHANGED <<list, shownQuery, prepared, newest, stored, outdated, forgotten, binds>>

\* An edit, a scan or a hotkey command changes what the query finds. (The
\* change shows the list again.)
LibraryChanges ==
  /\ Happens
  /\ \E n \in Sizes \ {stored} : stored' = n
  /\ outdated' = TRUE
  /\ UNCHANGED <<list, shownQuery, prepared, lanes, answers, forgotten, binds>>

-----------------------------------------------------------------------------
(* Events and callbacks of the GTK thread. *)

ListInit ==
  /\ list = EmptyList
  /\ shownQuery = 0
  /\ prepared = TRUE
  /\ visible = <<>> /\ maintenance = <<>> /\ newest = 0
  /\ answers = EmptyBag
  /\ stored \in Sizes
  /\ outdated = FALSE /\ forgotten = FALSE
  /\ events = 0 /\ binds = 0

\* reload: everything of the old query is dropped. The first time the whole
\* library is shown, the page that the startup prepared is published from an
\* idle callback; otherwise page 0 and the number of rows are asked for.
FirstRequests(q) == <<Request("first", 0, "visible", q), Request("count", 0, "visible", q)>>
Reloaded(q) ==
  [total |-> 0, pages |-> [p \in {0} |-> Placeholders(PageSize)], lru |-> <<0>>, pending |-> {0},
   deferred |-> <<>>, timer |-> FALSE, sent |-> FirstRequests(q)]
Reload ==
  /\ shownQuery < MaxReloads
  /\ shownQuery' = shownQuery + 1
  /\ outdated' = FALSE /\ forgotten' = FALSE
  /\ \/ /\ prepared
        /\ Become(EmptyList)
        /\ answers' = answers (+) SetToBag({Answer(Request("prepared", 0, "none", shownQuery + 1), "ok", stored)})
        /\ prepared' = FALSE
     \/ /\ Become(Reloaded(shownQuery + 1))
        /\ UNCHANGED <<prepared, answers>>
  /\ UNCHANGED <<stored, events, binds>>

\* load_position, when GTK binds a row of the page to the screen.
LoadPosition ==
  /\ binds < MaxBinds /\ binds' = binds + 1
  /\ \E p \in 0 .. PageCount(list.total) - 1 :
      /\ p \notin DOMAIN list.pages \cup list.pending \cup ToSet(list.deferred)
      /\ Become(Schedule(Defer(list, p)))
  /\ UNCHANGED <<shownQuery, prepared, answers, stored, outdated, forgotten, events>>

\* The debounce timer fires.
LoadDeferred ==
  /\ list.timer
  /\ Become(Drain([list EXCEPT !.timer = FALSE]))
  /\ UNCHANGED <<shownQuery, prepared, answers, stored, outdated, forgotten, events, binds>>

\* retry_position: the user activates a row of a page that has failed.
Retry ==
  /\ \E p \in DOMAIN list.pages :
      /\ list.pages[p].state = "failed"
      /\ Become(Ensure(Evict(list, p), p, "visible"))
  /\ UNCHANGED <<shownQuery, prepared, answers, stored, outdated, forgotten, events, binds>>

\* replace_at: a row of a loaded page is edited and its payload changes.
ReplaceRow ==
  /\ binds < MaxBinds /\ binds' = binds + 1
  /\ \E p \in DOMAIN list.pages, payload \in Payloads :
      /\ list.pages[p].loaded > 0
      /\ Become(Touch([list EXCEPT !.pages = With(list.pages, p, [list.pages[p] EXCEPT !.payload = payload])], p))
  /\ UNCHANGED <<shownQuery, prepared, answers, stored, outdated, forgotten, events>>

\* The callback of reload's request for page 0: its rows are published at
\* once, unless the number of rows came first.
FirstPage(m, a, payload) ==
  LET k == Drain(Install(m, 0, a.rows, payload, a.request.query))
  IN  CASE a.outcome # "ok" -> Evict(m, 0)
        [] a.outcome = "ok" /\ m.total = 0 ->
             Publish([m EXCEPT !.pending = m.pending \ {0}], a.rows, a.rows, payload, a.request.query)
        [] OTHER -> IF 0 \in DOMAIN m.pages /\ k.deferred = <<>> THEN Prefetch(k, 0) ELSE k

\* The callback of its request for the number of rows (apply_exact_total).
RowCount(m, a) == IF a.outcome = "ok" THEN [m EXCEPT !.total = a.rows] ELSE m

\* Fault: the pages that wait for their turn are not thought of.
FailedAlone(m, p, asked) == IF asked THEN Fail(m, p) ELSE Evict(m, p)

\* handle_page_failure: a page that was asked for shows its failure, a
\* prefetched one is given up; then a waiting page has its turn.
Failed(m, p, asked) == Drain(IF asked THEN Fail(m, p) ELSE Evict(m, p))

\* The callback of ensure_page's request: after a page that was asked for its
\* neighbours are prefetched, unless a page waits for its turn; after a full
\* lane it is asked for again; after an error it shows its failure
\* (handle_page_failure). A prefetched page is just given up.
LoadedPage(m, a, payload) ==
  LET p       == a.request.page
      asked   == a.request.priority = "visible"
      k       == Drain(Install(m, p, a.rows, payload, a.request.query))
      dropped == Evict(m, p)
  IN  CASE a.outcome = "ok" ->
             IF p \in DOMAIN m.pages /\ asked /\ k.deferred = <<>> THEN Prefetch(k, p) ELSE k
        [] a.outcome = "full" -> IF asked THEN Schedule(Defer(dropped, p)) ELSE dropped
        [] OTHER -> Failed(m, p, asked)

\* The idle callback of a reload that has the startup's page.
PreparedPage(m, a, payload) ==
  LET k == Publish(m, a.rows, Capped(a.rows, PageSize), payload, a.request.query)
  IN  IF m.total # 0 THEN m
      ELSE IF a.rows > PageSize THEN Prefetch(k, 0) ELSE k

Callback(m, a, payload) ==
  CASE a.request.kind = "first"    -> FirstPage(m, a, payload)
    [] a.request.kind = "count"    -> RowCount(m, a)
    [] a.request.kind = "page"     -> LoadedPage(m, a, payload)
    [] a.request.kind = "prepared" -> PreparedPage(m, a, payload)

\* The callbacks that make room for a page and leave the waiting ones alone.
LeavesWaiting(a) ==
  \/ a.request.kind = "first" /\ a.outcome # "ok"
  \/ a.request.priority = "prefetch" /\ a.outcome = "full"

\* A callback runs; it does nothing when another query is shown by now.
Arrive ==
  /\ \E a \in BagToSet(answers) :
      /\ answers' = answers (-) SetToBag({a})
      /\ \/ /\ a.request.query = shownQuery
            /\ \E payload \in Payloads : Become(Callback(list, a, payload))
            /\ forgotten' = (forgotten \/ (LeavesWaiting(a) /\ list.deferred # <<>>))
         \/ /\ a.request.query # shownQuery
            /\ Become(list)
            /\ UNCHANGED forgotten
  /\ UNCHANGED <<shownQuery, prepared, stored, outdated, events, binds>>

ListNext ==
  \/ Reload \/ LoadPosition \/ LoadDeferred \/ Retry \/ ReplaceRow \/ Arrive
  \/ Send \/ Serve \/ OtherVisible \/ OtherMaintenance \/ LibraryChanges

ListSpec == ListInit /\ [][ListNext]_listVars

-----------------------------------------------------------------------------
(* Properties. *)

PageStates ==
  [len : 1 .. PageSize, loaded : 0 .. PageSize, state : {"loading", "rows", "failed"},
   payload : Payloads \cup {0}, query : 0 .. MaxReloads]

ListTypeOK ==
  /\ list.total \in Sizes \cup 0 .. PageSize
  /\ DOMAIN list.pages \subseteq Pages
  /\ \A p \in DOMAIN list.pages : list.pages[p] \in PageStates
  /\ list.lru \in Seq(Pages) /\ IsInjective(list.lru)
  /\ list.pending \subseteq Pages
  /\ list.deferred \in Seq(Pages) /\ Len(list.deferred) <= MaxPendingLoads
  /\ list.timer \in BOOLEAN
  /\ IsABag(answers)

\* The cache never holds more pages or more payload than its limits, and every
\* cached page is in the LRU order: touch_page, which pops that order until
\* the payload fits, cannot loop for ever on the GTK thread.
CacheIsBounded ==
  /\ Cardinality(DOMAIN list.pages) <= MaxCachedPages
  /\ CachedPayload(list.pages) <= MaxCachedPayload
  /\ DOMAIN list.pages \subseteq ToSet(list.lru)
  /\ list.pending \subseteq DOMAIN list.pages

\* Requests and answers under way for pages of the query that is shown.
Requested ==
  {r \in ToSet(list.sent) \cup ToSet(visible) \cup ToSet(maintenance)
           \cup {a.request : a \in BagToSet(answers)} :
     r.kind \in {"first", "page"} /\ r.query = shownQuery}
Underway(p) == \E r \in Requested : r.page = p

\* Rows on the screen are rows of the query that is shown, however late the
\* answers to an earlier search come.
RowsAnswerTheQuery ==
  \A p \in DOMAIN list.pages :
    list.pages[p].state = "rows" => list.pages[p].query = shownQuery

\* A page that is not there yet comes. One of "Loading..." rows is not asked for
\* again when it is bound, so its request must be under way: no eviction, full
\* lane or superseded search may lose it. (Only rows that came to be after the
\* list was shown stay so; their change shows the list again.) One that waits
\* for its turn gets it: by the timer, or by the answer to another page. (The
\* answers of LeavesWaiting are the exception: they make room and start
\* nothing, and binding the page again does nothing.) And all the while the
\* limits of the cache hold, and the rows are those of the shown query.
MissingPagesCome ==
  /\ CacheIsBounded
  /\ RowsAnswerTheQuery
  /\ \A p \in DOMAIN list.pages :
       list.pages[p].state = "loading" /\ RowsOf(list.total, p) > 0 => Underway(p) \/ outdated
  /\ list.deferred # <<>> =>
       list.timer \/ forgotten \/ Requested # {}
=============================================================================

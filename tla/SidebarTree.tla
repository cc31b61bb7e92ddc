------------------------------ MODULE SidebarTree ------------------------------
(***************************************************************************)
(* How the sidebar shows the folders of a root: ui/tabs_sidebar.rs.        *)
(*                                                                         *)
(* The folders below the root come in pages, by a pager that is created    *)
(* when GTK asks for the row's children.  The next page is asked for when  *)
(* a row near the end is bound to the screen; of the pages far from the    *)
(* one last bound only blank rows are kept, which ask for their page when  *)
(* they are bound again.  A pager has one request under way, and the pages *)
(* asked for meanwhile wait for it.  Whatever changes the folders reloads  *)
(* the whole tree afterwards.                                              *)
(*                                                                         *)
(* One root, and the folders just below it; FolderTree has their nesting   *)
(* and what the user may do to them.                                       *)
(***************************************************************************)
EXTENDS Naturals, Sequences, FiniteSets, FiniteSetsExt, SequencesExt

CONSTANTS
  StPageSize,    \* PAGE_SIZE
  StMaxPages,    \* MAX_LOADED_SIBLING_PAGES
  StMargin,      \* SIBLING_PREFETCH_MARGIN
  StMaxRows,     \* MAX_RETAINED_CHILD_ROWS
  StFolders,     \* how many folders there are at first
  StMaxBinds,    \* bound: rows bound
  StMaxEdits,    \* bound: changes of the folders
  StMaxCloses,   \* bound: times the root is collapsed
  StMaxFaults    \* bound: requests that fail

ASSUME SidebarTreeAssumption ==
  /\ {StPageSize, StMaxPages, StMargin} \subseteq Nat \ {0}
  /\ {StMaxRows, StFolders, StMaxBinds, StMaxEdits, StMaxCloses, StMaxFaults} \subseteq Nat

VARIABLES
  stStored,     \* the folders that the library has, in their order
  stGeneration, \* folder_generation
  stLoads,      \* the requests for the roots: their generations
  stRoots,      \* how many rows folder_roots has
  stOpen,       \* FolderNode.expanded of the root
  stRequested,  \* FolderNode.children_requested of the root
  stSlot,       \* FolderNode.children_pager of the root: a pager, or 0
  stRows,       \* FolderNode.children of the root
  stPagers,     \* the pagers of this tree, with their requests
  stOwed,       \* reloads that the answers to changes bring
  stTorn,       \* history: a pager was given up when there were rows, or a request was under way
  stBinds, stEdits, stCloses, stFaults

stBounds == <<stBinds, stEdits, stCloses, stFaults>>
stRoot == <<stOpen, stRequested, stSlot>>
stVars == <<stStored, stGeneration, stLoads, stRoots, stRoot, stRows, stPagers, stOwed, stTorn, stBounds>>

NoRequest == [page |-> 0, state |-> "none", folders |-> <<>>]
NewPager ==
  [loaded |-> 0, next |-> 0, more |-> TRUE, pages |-> {}, focus |-> 0, pending |-> {}, request |-> NoRequest]
Blank == 0
Busy(p) == p.request.state # "none"
Distance(a, b) == IF a < b THEN b - a ELSE a - b

StInit ==
  /\ stStored = [i \in 1..StFolders |-> i]
  /\ stGeneration = 1 /\ stLoads = {1} /\ stRoots = 0
  /\ stOpen = TRUE /\ stRequested = FALSE /\ stSlot = 0 /\ stRows = <<>>
  /\ stPagers = <<>> /\ stOwed = 0 /\ stTorn = FALSE
  /\ stBinds = 0 /\ stEdits = 0 /\ stCloses = 0 /\ stFaults = 0

(***************************************************************************)
(* What is done to a pager.                                                *)
(***************************************************************************)

\* load_sibling_page
WithPage(p, page) ==
  IF page \in p.pages THEN p
  ELSE IF Busy(p) THEN [p EXCEPT !.pending = @ \cup {page}]
  ELSE [p EXCEPT !.request = [NoRequest EXCEPT !.page = page, !.state = "asked"]]

\* drain_pending_sibling_page: the nearest to the page last bound.
Drained(p) ==
  LET waiting == p.pending \ p.pages
      nearest == {a \in waiting : \A b \in waiting : Distance(a, p.focus) <= Distance(b, p.focus)}
  IN IF waiting = {} THEN [p EXCEPT !.pending = {}]
     ELSE WithPage([p EXCEPT !.pending = @ \ {Min(nearest)}], Min(nearest))

\* page_to_evict: the farthest from the page last bound.
Victims(p) ==
  IF Cardinality(p.pages) <= StMaxPages THEN {}
  ELSE {Min({a \in p.pages : \A b \in p.pages : Distance(b, p.focus) <= Distance(a, p.focus)})}

\* evict_distant_sibling_pages; a page that came makes at most one too many.
Evicted(p) == [p EXCEPT !.pages = @ \ Victims(p)]
\* Faulty variant: the blank rows count as loaded.
EvictedRowsOnly(p) == p
AfterEviction(p) == Evicted(p)

BlankRows(k, p, rows) ==
  [i \in DOMAIN rows |->
     IF (i - 1) \div StPageSize \in Victims(p) THEN [folder |-> Blank, index |-> i - 1, pager |-> k] ELSE rows[i]]

(***************************************************************************)
(* Requests.                                                               *)
(***************************************************************************)

\* reload_folder_roots_model
ReloadTree ==
  /\ stOwed > 0 /\ stOwed' = stOwed - 1
  /\ stGeneration' = stGeneration + 1 /\ stLoads' = stLoads \cup {stGeneration + 1}
  /\ stRoots' = 0 /\ stOpen' = TRUE /\ stRequested' = FALSE /\ stSlot' = 0
  /\ stRows' = <<>> /\ stPagers' = <<>> /\ stTorn' = FALSE
  /\ UNCHANGED <<stStored, stBounds>>

StFault == stFaults < StMaxFaults /\ stFaults' = stFaults + 1

\* The callback of load_roots_async.
RootsArrive ==
  /\ \E g \in stLoads :
       /\ stLoads' = stLoads \ {g}
       /\ \/ stRoots' = (IF g = stGeneration THEN stRoots + 1 ELSE stRoots) /\ UNCHANGED stFaults
          \/ StFault /\ UNCHANGED stRoots
  /\ UNCHANGED <<stStored, stGeneration, stRoot, stRows, stPagers, stOwed, stTorn, stBinds, stEdits, stCloses>>

\* The closure of TreeListModel::new and start_children_pager.
AskForChildren ==
  /\ stRoots > 0 /\ ~stRequested
  /\ stRequested' = TRUE
  /\ stPagers' = Append(stPagers, WithPage(NewPager, 0)) /\ stSlot' = Len(stPagers')
  /\ UNCHANGED <<stStored, stGeneration, stLoads, stRoots, stOpen, stRows, stOwed, stTorn, stBounds>>

\* load_folder_children
PageOf(page) == SubSeq(stStored, page * StPageSize + 1, Min({(page + 1) * StPageSize, Len(stStored)}))
StoreAnswers(k) ==
  /\ stPagers[k].request.state = "asked"
  /\ \/ stPagers' = [stPagers EXCEPT ![k].request.state = "answered",
                                     ![k].request.folders = PageOf(stPagers[k].request.page)]
        /\ UNCHANGED stFaults
     \/ StFault /\ stPagers' = [stPagers EXCEPT ![k].request.state = "failed"]
  /\ UNCHANGED <<stStored, stGeneration, stLoads, stRoots, stRoot, stRows, stOwed, stTorn, stBinds, stEdits, stCloses>>

\* The callback of load_sibling_page: the page goes to the end, or in place of
\* as many rows as there are.
PageArrives(k) ==
  LET p == stPagers[k]
      page == p.request.page
      start == page * StPageSize
      folders == p.request.folders
      nodes == [i \in DOMAIN folders |-> [folder |-> folders[i], index |-> start + i - 1, pager |-> k]]
      replaced == Min({Len(nodes), Len(stRows) - start})
      rows == IF start >= Len(stRows) THEN stRows \o nodes
              ELSE [i \in DOMAIN stRows |-> IF i \in start + 1..start + replaced THEN nodes[i - start] ELSE stRows[i]]
      idle == [p EXCEPT !.pages = @ \cup {page}, !.request = NoRequest]
      came == IF start < Len(stRows) THEN idle
              ELSE [idle EXCEPT !.loaded = start + Len(nodes), !.next = page + 1, !.more = Len(nodes) = StPageSize]
  IN /\ p.request.state = "answered"
     /\ stRows' = BlankRows(k, came, rows)
     /\ stPagers' = [stPagers EXCEPT ![k] = Drained(AfterEviction(came))]
     /\ UNCHANGED <<stStored, stGeneration, stLoads, stRoots, stRoot, stOwed, stTorn, stBounds>>

\* "Let transient failures retry": the next time GTK asks for the children.
PageFails(k) ==
  /\ stPagers[k].request.state = "failed"
  /\ stPagers' = [stPagers EXCEPT ![k] = Drained([@ EXCEPT !.more = FALSE, !.request = NoRequest])]
  /\ stRequested' = FALSE
  /\ stTorn' = (stTorn \/ stRows # <<>>)
  /\ UNCHANGED <<stStored, stGeneration, stLoads, stRoots, stOpen, stSlot, stRows, stOwed, stBounds>>

(***************************************************************************)
(* The user.                                                               *)
(***************************************************************************)

\* Rows refer weakly to their pager.
Alive(k) == k = stSlot \/ Busy(stPagers[k])

\* connect_bind, with should_request_next_sibling_page.
BindRow ==
  /\ stOpen /\ stBinds < StMaxBinds /\ stBinds' = stBinds + 1
  /\ \E i \in DOMAIN stRows :
       LET row == stRows[i]
           p == [stPagers[row.pager] EXCEPT !.focus = row.index \div StPageSize]
           near == p.more /\ ~Busy(p) /\ row.index + StMargin >= p.loaded
       IN /\ Alive(row.pager)
          /\ stPagers' = [stPagers EXCEPT ![row.pager] =
               IF row.folder = Blank THEN WithPage(p, p.focus) ELSE IF near THEN WithPage(p, p.next) ELSE p]
  /\ UNCHANGED <<stStored, stGeneration, stLoads, stRoots, stRoot, stRows, stOwed, stTorn, stEdits, stCloses, stFaults>>

\* The root is collapsed, and its rows are dropped if there are too many.
Collapse ==
  /\ stRoots > 0 /\ stOpen /\ stCloses < StMaxCloses /\ stCloses' = stCloses + 1
  /\ stOpen' = FALSE
  /\ IF stRoots + Len(stRows) > StMaxRows
     THEN /\ stRows' = <<>> /\ stSlot' = 0 /\ stRequested' = FALSE
          /\ stTorn' = (stTorn \/ \E k \in DOMAIN stPagers : Busy(stPagers[k]))
     ELSE UNCHANGED <<stRows, stSlot, stRequested, stTorn>>
  /\ UNCHANGED <<stStored, stGeneration, stLoads, stRoots, stPagers, stOwed, stBinds, stEdits, stFaults>>

Expand ==
  /\ stRoots > 0 /\ ~stOpen /\ stOpen' = TRUE
  /\ UNCHANGED <<stStored, stGeneration, stLoads, stRoots, stRequested, stSlot, stRows, stPagers, stOwed, stTorn, stBounds>>

\* The first or the last folder is hidden, whose answer reloads the tree and then
\* the tabs, which reload it again; or the last is moved to the front.
ChangeFolders ==
  /\ stStored # <<>> /\ stEdits < StMaxEdits /\ stEdits' = stEdits + 1
  /\ \/ stOwed' = stOwed + 2 /\ \E i \in {1, Len(stStored)} : stStored' = RemoveAt(stStored, i)
     \/ stOwed' = stOwed + 1 /\ stStored' = <<Last(stStored)>> \o Front(stStored)
  /\ UNCHANGED <<stGeneration, stLoads, stRoots, stRoot, stRows, stPagers, stTorn, stBinds, stCloses, stFaults>>

StNext ==
  \/ ReloadTree \/ RootsArrive \/ AskForChildren
  \/ \E k \in DOMAIN stPagers : StoreAnswers(k) \/ PageArrives(k) \/ PageFails(k)
  \/ BindRow \/ Collapse \/ Expand \/ ChangeFolders

StSpec == StInit /\ [][StNext]_stVars

(***************************************************************************)
(* Properties.                                                             *)
(***************************************************************************)

SidebarTreeTypeOK ==
  /\ stStored \in Seq(1..StFolders) /\ IsInjective(stStored)
  /\ stLoads \subseteq 1..stGeneration /\ stRoots \in Nat /\ stOwed \in Nat
  /\ {stOpen, stRequested, stTorn} \subseteq BOOLEAN /\ stSlot \in 0..Len(stPagers)
  /\ stRows \in Seq([folder : 0..StFolders, index : 0..StFolders, pager : DOMAIN stPagers])
  /\ \A k \in DOMAIN stPagers :
       LET p == stPagers[k]
       IN /\ p.loaded \in 0..StFolders /\ p.more \in BOOLEAN
          /\ p.pages \cup p.pending \cup {p.next, p.focus, p.request.page} \subseteq 0..StFolders
          /\ p.request.state \in {"none", "asked", "answered", "failed"}

\* Once the tree has been reloaded for every change, the rows are the library's
\* folders in their order, however pages were asked for, given up and asked for
\* again: each row is at its own index, and there is one row of the root. A
\* blank row gets its page when it is bound, and the last row asks for more
\* as long as there are folders that the rows do not reach. (Not after a later
\* page has failed, nor after the rows were dropped while a page was on its way:
\* another pager then works on rows that it does not know.)
SiblingsComeInOrder ==
  /\ stRoots <= 1
  /\ stOwed = 0 /\ ~stTorn =>
       /\ \A i \in DOMAIN stRows :
            /\ stRows[i].index = i - 1 /\ stRows[i].folder \in {Blank, stStored[i]}
            /\ stRows[i].pager = stSlot
            /\ stRows[i].folder = Blank <=> (i - 1) \div StPageSize \notin stPagers[stSlot].pages
       /\ stRequested =>
            LET p == stPagers[stSlot]
            IN /\ Cardinality(p.pages) <= StMaxPages
               /\ p.loaded = Len(stRows)
               /\ ~Busy(p) => p.pending = {} /\ (p.more \/ Len(stRows) = Len(stStored))
================================================================================

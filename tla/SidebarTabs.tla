------------------------------ MODULE SidebarTabs ------------------------------
(***************************************************************************)
(* The tabs in the sidebar and the commands that change them:              *)
(* ui/tabs_sidebar.rs and commands/tabs.rs.                                *)
(*                                                                         *)
(* A command runs on a worker thread, one at a time, and asks the library  *)
(* twice: what to change, and to change it.  Its answer comes to the main  *)
(* loop later, and has the list reloaded later still: the rows are taken   *)
(* out, and General and the tabs come back page by page.  Meanwhile the    *)
(* user selects rows and folders, starts the next command, and a refresh   *)
(* changes the library.                                                    *)
(*                                                                         *)
(* Of a tab's name and sounds there is one number, which every change of   *)
(* them moves on.                                                          *)
(***************************************************************************)
EXTENDS Integers, Sequences, FiniteSets, SequencesExt

CONSTANTS
  TbPageSize,    \* PAGE_SIZE
  TbTabs,        \* how many tabs there are at first
  TbMaxEvents    \* bound: commands, changes by others, selections and failed requests

ASSUME SidebarTabsAssumption ==
  /\ TbPageSize \in Nat \ {0}
  /\ {TbTabs, TbMaxEvents} \subseteq Nat

VARIABLES
  tbStored,     \* manual_tabs of the library, by position and id
  tbIds,        \* ids given out
  tbTask,       \* the command on its worker: TAB_MUTATION_PENDING is set
  tbAnswers,    \* what commands have answered and the main loop not seen
  tbDeleting,   \* tab_deletion_pending
  tbNews,       \* changes by others that the main loop has not seen
  tbOwed,       \* the reloads that wait for the main loop to be idle: what to select
  tbGeneration, \* tab_generation
  tbLoads,      \* requests of reloads
  tbRows,       \* the rows of list_box
  tbSelected,   \* its selected row
  tbListed,     \* manual_tabs of the window's state
  tbFolder,     \* a folder is selected in the tree
  tbActive,     \* active_tab_id
  tbShown,      \* the scope of the sound list
  tbPartial,    \* history: a request of the newest reload has failed
  tbEvents

tbCommands == <<tbTask, tbAnswers, tbDeleting>>
tbList == <<tbRows, tbListed, tbGeneration, tbLoads, tbPartial>>
tbChoice == <<tbSelected, tbFolder, tbActive, tbShown>>
tbVars == <<tbStored, tbIds, tbCommands, tbNews, tbOwed, tbList, tbChoice, tbEvents>>

General == 0
Folder == -1
NoTab == -2           \* no row, and a reload that keeps the active tab
Ids == 1..TbTabs + TbMaxEvents
Idle == [kind |-> "none", tab |-> NoTab, from |-> NoTab, step |-> "find", place |-> 0]

IdsIn(tabs) == {tabs[i].id : i \in DOMAIN tabs}
GeneralRow == [id |-> General, place |-> 0, content |-> 0]

TbInit ==
  /\ tbStored = [i \in 1..TbTabs |-> [id |-> i, place |-> i - 1, content |-> 0]] /\ tbIds = TbTabs
  /\ tbTask = Idle /\ tbAnswers = {} /\ tbDeleting = FALSE /\ tbNews = 0
  /\ tbOwed = <<>> /\ tbGeneration = 0 /\ tbLoads = {} /\ tbPartial = FALSE
  /\ tbRows = <<GeneralRow>> \o tbStored /\ tbListed = tbStored
  /\ tbSelected = General /\ tbFolder = FALSE /\ tbActive = General /\ tbShown = General
  /\ tbEvents = 0

TbEvent == tbEvents < TbMaxEvents /\ tbEvents' = tbEvents + 1

(***************************************************************************)
(* Commands.                                                               *)
(***************************************************************************)

\* dispatch_tab_mutation; another command that is still running refuses this one.
DispatchTab(kind, tab, from) ==
  /\ tbTask = Idle /\ TbEvent
  /\ tbTask' = [Idle EXCEPT !.kind = kind, !.tab = tab, !.from = from,
                            !.step = IF kind \in {"delete", "remove"} THEN "write" ELSE "find"]
  /\ UNCHANGED <<tbStored, tbIds, tbAnswers, tbNews, tbOwed, tbList, tbChoice>>

CreateTab == DispatchTab("create", NoTab, NoTab)
RenameTab == \E tab \in IdsIn(tbListed) : DispatchTab("rename", tab, NoTab)
\* The menu of the sound list.
AddOrRemove == \E tab \in IdsIn(tbListed), kind \in {"add", "remove"} : DispatchTab(kind, tab, NoTab)

\* connect_drop: sounds go from a tab to another, from General or a folder to a
\* tab, and from a tab to nowhere. They come with the tab they were dragged from.
DropOnTab ==
  \E from \in IdsIn(tbListed) \cup {General, Folder}, tab \in IdsIn(tbRows) :
    from # tab /\ DispatchTab("drop", tab, from)

StartCommand == (CreateTab \/ RenameTab \/ AddOrRemove \/ DropOnTab) /\ UNCHANGED tbDeleting

\* request_tab_deletion, confirmed; the row may have gone since it was asked for.
ConfirmDeletion ==
  /\ ~tbDeleting
  /\ \E tab \in 1..tbIds : DispatchTab("delete", tab, NoTab)
  /\ tbDeleting' = TRUE

\* The worker ends, its guard is dropped, and the answer is on its way.
WorkerEnds(outcome, tab) ==
  /\ tbTask' = Idle
  /\ tbAnswers' = tbAnswers \cup {[kind |-> tbTask.kind, tab |-> tab, outcome |-> outcome, event |-> tbEvents]}
CommandFails == tbTask # Idle /\ TbEvent /\ WorkerEnds("failed", tbTask.tab) /\ UNCHANGED <<tbStored, tbIds>>

\* The first request: the number of tabs, or the tab in the pages.
FindTab ==
  /\ tbTask.kind # "none" /\ tbTask.step = "find"
  /\ LET found == {t \in Range(tbStored) : t.id = tbTask.tab}
         write(place) == tbTask' = [tbTask EXCEPT !.step = "write", !.place = place] /\ UNCHANGED tbAnswers
     IN \/ tbTask.kind = "create" /\ write(Len(tbStored))
        \/ tbTask.kind = "drop" /\ write(0)
        \/ tbTask.kind \in {"rename", "add"} /\ IF found = {} THEN WorkerEnds("failed", tbTask.tab)
                                                ELSE \E t \in found : write(t.place)
  /\ UNCHANGED <<tbStored, tbIds>>

\* INSERT INTO manual_tabs: its row gets the highest rowid, so it comes behind
\* the tabs of its own position.
Inserted(tab) ==
  LET before == {i \in DOMAIN tbStored : tbStored[i].place <= tab.place}
  IN InsertAt(tbStored, Cardinality(before) + 1, tab)
Touched(tabs) ==
  [i \in DOMAIN tbStored |-> IF tbStored[i].id \in tabs THEN [tbStored[i] EXCEPT !.content = @ + 1] ELSE tbStored[i]]

\* apply_edit. Sounds that are added are always written again; those that are
\* removed may not have been there.
WriteTab ==
  /\ tbTask.kind # "none" /\ tbTask.step = "write"
  /\ LET tab == tbTask.tab
         stored == IdsIn(tbStored)
         members(tabs) == \/ tbStored' = Touched(tabs) /\ WorkerEnds(IF tabs \cap stored = {} THEN "same" ELSE "done", tab)
                          \/ /\ tbTask.kind = "remove" \/ tab \notin stored
                             /\ UNCHANGED tbStored /\ WorkerEnds("same", tab)
         fresh(id) == [id |-> id, place |-> tbTask.place, content |-> 0]
     IN CASE tbTask.kind = "create" ->
               tbIds' = tbIds + 1 /\ tbStored' = Inserted(fresh(tbIds')) /\ WorkerEnds("done", tbIds')
          [] tbTask.kind = "rename" ->
               /\ tbStored' = IF tab \in stored THEN Touched({tab}) ELSE Inserted(fresh(tab))
               /\ WorkerEnds("done", tab) /\ UNCHANGED tbIds
          [] tbTask.kind = "delete" ->
               /\ UNCHANGED tbIds
               /\ \/ /\ \E i \in DOMAIN tbStored : tbStored[i].id = tab /\ tbStored' = RemoveAt(tbStored, i)
                     /\ WorkerEnds("done", tab)
                  \/ tab \notin stored /\ UNCHANGED tbStored /\ WorkerEnds("failed", tab)
          [] tbTask.kind \in {"add", "remove"} -> members({tab}) /\ UNCHANGED tbIds
          [] tbTask.kind = "drop" -> members({tab, tbTask.from} \ {General, Folder}) /\ UNCHANGED tbIds

RunCommand ==
  /\ \/ (FindTab \/ WriteTab) /\ UNCHANGED tbEvents
     \/ CommandFails
  /\ UNCHANGED <<tbDeleting, tbNews, tbOwed, tbList, tbChoice>>

Owe(target) == tbOwed' = Append(tbOwed, target)

\* What the main loop does with an answer: select the tab that was made or
\* renamed, General instead of a deleted one, and otherwise keep the active one.
OweFor(a) ==
  CASE a.kind \in {"create", "rename"} /\ a.outcome = "done" -> Owe(a.tab)
    [] a.kind = "delete" /\ a.outcome = "done" -> Owe(General)
    [] a.kind = "delete" /\ a.outcome # "done" -> UNCHANGED tbOwed
    [] a.kind = "drop" /\ a.outcome = "same" -> UNCHANGED tbOwed
    [] OTHER -> Owe(NoTab)
\* Faulty variant: adding and removing leave the sidebar alone.
OweForTabs(a) == IF a.kind \in {"add", "remove"} THEN UNCHANGED tbOwed ELSE OweFor(a)
Reloads(a) == OweFor(a)

SeeAnswer ==
  \E a \in tbAnswers :
    /\ tbAnswers' = tbAnswers \ {a}
    /\ tbDeleting' = (tbDeleting /\ a.kind # "delete")
    /\ tbActive' = (IF a.outcome # "done" THEN tbActive
                    ELSE CASE a.kind = "create" -> a.tab [] a.kind = "delete" -> General [] OTHER -> tbActive)
    /\ Reloads(a)
    /\ UNCHANGED <<tbStored, tbIds, tbTask, tbNews, tbList, tbSelected, tbFolder, tbShown, tbEvents>>

\* A refresh takes out the tab of a folder; sounds are deleted.
OthersChange ==
  /\ TbEvent /\ tbNews' = tbNews + 1
  /\ \E i \in DOMAIN tbStored : tbStored' \in {RemoveAt(tbStored, i), Touched({tbStored[i].id})}
  /\ UNCHANGED <<tbIds, tbCommands, tbOwed, tbList, tbChoice>>

\* connect_library_changed, folder_removed
SeeNews ==
  /\ tbNews > 0 /\ tbNews' = tbNews - 1
  /\ \E target \in {NoTab, tbActive} : Owe(target)
  /\ UNCHANGED <<tbStored, tbIds, tbCommands, tbList, tbChoice, tbEvents>>

(***************************************************************************)
(* Reloading.                                                              *)
(***************************************************************************)

TabRequest(generation, page, target) ==
  [generation |-> generation, page |-> page, state |-> "asked", tabs |-> <<>>, more |-> FALSE, target |-> target]

\* reload_tabs_async; page 0 stands for the number of General's sounds.
ReloadTabs ==
  /\ tbOwed # <<>> /\ tbOwed' = Tail(tbOwed)
  /\ tbGeneration' = tbGeneration + 1
  /\ tbRows' = <<>> /\ tbListed' = <<>> /\ tbSelected' = NoTab /\ tbFolder' = FALSE /\ tbPartial' = FALSE
  /\ tbLoads' = tbLoads \cup {TabRequest(tbGeneration', 0, IF Head(tbOwed) = NoTab THEN tbActive ELSE Head(tbOwed))}
  /\ UNCHANGED <<tbStored, tbIds, tbCommands, tbNews, tbActive, tbShown, tbEvents>>

\* load_manual_tabs
TabPage(l) ==
  [l EXCEPT !.state = "answered",
            !.tabs = SubSeq(tbStored, (l.page - 1) * TbPageSize + 1,
                            IF l.page * TbPageSize < Len(tbStored) THEN l.page * TbPageSize ELSE Len(tbStored)),
            !.more = l.page * TbPageSize < Len(tbStored)]
StoreAnswersTabs ==
  \E l \in tbLoads :
    /\ l.state = "asked" /\ l.page > 0
    /\ \/ tbLoads' = (tbLoads \ {l}) \cup {TabPage(l)} /\ UNCHANGED tbEvents
       \/ TbEvent /\ tbLoads' = (tbLoads \ {l}) \cup {[l EXCEPT !.state = "failed"]}
    /\ UNCHANGED <<tbStored, tbIds, tbCommands, tbNews, tbOwed, tbRows, tbListed, tbGeneration, tbPartial, tbChoice>>

\* Selecting a row sets the active tab and the scope of the list.
Selected(id) == tbSelected' = id /\ tbActive' = id /\ tbShown' = id /\ UNCHANGED tbFolder

\* finish_tab_reload
TabsFinished(target, rows) == Selected(IF target \in IdsIn(rows) THEN target ELSE General)

\* Faulty variant: an answer for an earlier reload counts.
AnyIsCurrent(l) == TRUE
IsCurrent(l) == l.generation = tbGeneration

\* The callbacks of reload_tabs_async and load_manual_tabs_async.
TabsArrive ==
  \E l \in tbLoads :
    LET others == tbLoads \ {l}
        rows == tbRows \o l.tabs
        next == TabRequest(tbGeneration, l.page + 1, l.target)
    IN /\ l.state # "asked" \/ l.page = 0
       /\ IF ~IsCurrent(l) THEN tbLoads' = others /\ UNCHANGED <<tbRows, tbListed, tbPartial, tbChoice>>
          ELSE \/ /\ l.page = 0 /\ UNCHANGED <<tbListed, tbPartial, tbChoice>>
                  /\ tbRows' = Append(tbRows, GeneralRow) /\ tbLoads' = others \cup {next}
               \/ /\ l.state = "answered" /\ UNCHANGED tbPartial
                  /\ tbRows' = rows /\ tbListed' = tbListed \o l.tabs
                  /\ IF l.more THEN tbLoads' = others \cup {next} /\ UNCHANGED tbChoice
                     ELSE tbLoads' = others /\ TabsFinished(l.target, rows)
               \/ /\ l.state = "failed" /\ UNCHANGED <<tbRows, tbListed>>
                  /\ tbPartial' = TRUE /\ tbLoads' = others /\ TabsFinished(l.target, tbRows)
       /\ UNCHANGED <<tbStored, tbIds, tbCommands, tbNews, tbOwed, tbGeneration, tbEvents>>

(***************************************************************************)
(* The user, who may also open a tab by its hotkey (activate_tab).         *)
(***************************************************************************)

SelectTab ==
  /\ TbEvent /\ \E id \in IdsIn(tbRows) \ {tbSelected} : Selected(id)
  /\ UNCHANGED <<tbStored, tbIds, tbCommands, tbNews, tbOwed, tbList>>

\* A folder that is selected already tells nobody when it is clicked again.
SelectFolder ==
  /\ TbEvent /\ ~tbFolder
  /\ tbFolder' = TRUE /\ tbSelected' = NoTab /\ tbActive' = Folder /\ tbShown' = Folder
  /\ UNCHANGED <<tbStored, tbIds, tbCommands, tbNews, tbOwed, tbList>>

TbNext ==
  \/ StartCommand \/ ConfirmDeletion \/ RunCommand \/ SeeAnswer
  \/ OthersChange \/ SeeNews \/ ReloadTabs \/ StoreAnswersTabs \/ TabsArrive
  \/ SelectTab \/ SelectFolder

TbSpec == TbInit /\ [][TbNext]_tbVars

(***************************************************************************)
(* Properties.                                                             *)
(***************************************************************************)

SidebarTabsTypeOK ==
  LET tabs == Seq([id : Ids \cup {General}, place : Nat, content : Nat])
  IN /\ tbStored \in tabs /\ tbRows \in tabs /\ tbListed \in tabs /\ tbIds \in 0..TbTabs + TbMaxEvents
     /\ {tbDeleting, tbFolder, tbPartial} \subseteq BOOLEAN /\ {tbNews, tbGeneration} \subseteq Nat
     /\ {tbSelected, tbActive, tbShown, tbTask.tab} \cup Range(tbOwed) \subseteq Ids \cup {General, Folder, NoTab}
     /\ \A l \in tbLoads : l.generation \in 1..tbGeneration /\ l.tabs \in tabs

\* Whatever commands, refreshes and selections overlap with the reloads they
\* cause: when all is quiet the sidebar has General and the library's tabs with
\* their present contents and in their order, the same tabs are offered by the
\* sound list's menu, and the tab that is active is listed, selected, and what
\* the sound list shows. (A reload with a failed request lists what came before.)
TabsShowTheLibrary ==
  tbTask = Idle /\ tbAnswers = {} /\ tbNews = 0 /\ tbOwed = <<>> /\ tbLoads = {} =>
    /\ ~tbPartial => tbListed = tbStored
    /\ tbRows = <<GeneralRow>> \o tbListed
    /\ tbShown = tbActive
    /\ IF tbActive = Folder THEN tbSelected = NoTab ELSE tbSelected = tbActive /\ tbActive \in IdsIn(tbRows)
================================================================================

------------------------------ MODULE ListView ------------------------------
(***************************************************************************)
(* The resource list on screen: which rows it shows and in which order     *)
(* (machine "rows": filter, sort and the per-list memo of earlier          *)
(* results), which rows are ticked and what a bulk operation takes         *)
(* (machine "picks"), which list the table draws while the next one is on  *)
(* its way (machine "table"), and what a row's menu starts (machine        *)
(* "acts").  A search text is the set of words it holds, so "the query     *)
(* contains an earlier one" is set inclusion.                              *)
(***************************************************************************)
EXTENDS Integers, Sequences, FiniteSets

CONSTANTS
  ListRows,      \* rows a list may hold: records [id, ns, words, vals]
  ListQueries,   \* what may be typed above the list, the empty query included
  SortColumns,   \* columns of vals
  CacheMax,      \* filtered lists remembered per list
  PickTabs,      \* list tabs of the pane
  PickNodes,     \* resource types a list tab can show
  PickNames,     \* a sequence of row names, in the order the list shows them
  ActPlaces,     \* lists a pane can show: [cluster, kind, xr]; xr: of crossplane
  ActNames,      \* names of their rows; lists may share them
  MaxListSteps,  \* bound: user steps of a behaviour
  MaxBulks       \* bound: bulk operations started

VARIABLES listed, nsShown, sorting, listQuery, saved, memo, drawn, cursor
VARIABLES pickTab, nodeOf, ticks, anchor, present, hiddenNames, dialog,
          pendingOp, bulks, bulkCount
VARIABLES tabNode, tabItems, received, failed, awaiting, showLoading, cached,
          shownItems
VARIABLES actPlace, menuOf, formOf, formBusy, spinners, running, detailOf, dock
VARIABLE lsteps

rowVars   == <<listed, nsShown, sorting, listQuery, saved, memo, drawn, cursor>>
pickVars  == <<pickTab, nodeOf, ticks, anchor, present, hiddenNames, dialog,
               pendingOp, bulks, bulkCount>>
tableVars == <<tabNode, tabItems, received, failed, awaiting, showLoading,
               cached, shownItems>>
actVars   == <<actPlace, menuOf, formOf, formBusy, spinners, running, detailOf,
               dock>>
listVars  == <<rowVars, pickVars, tableVars, actVars, lsteps>>

ListStep == /\ lsteps < MaxListSteps
            /\ lsteps' = lsteps + 1

-----------------------------------------------------------------------------
(* Rows: what the search and the sort leave of the list. *)

MatchesSearch(row, q) == q \subseteq row.words

\* -1 or 1, times the comparison of two sort keys; a tie keeps the list order.
Before(a, i, b, j, by, order) ==
  LET va == a.vals[by]  vb == b.vals[by]
  IN \/ va # vb /\ ((va < vb) = (order = "asc"))
     \/ va = vb /\ i < j

SortItems(items, by, order) ==
  LET place(i) == Cardinality({j \in DOMAIN items :
                     j # i /\ Before(items[j], j, items[i], i, by, order)}) + 1
  IN [k \in DOMAIN items |-> items[CHOOSE i \in DOMAIN items : place(i) = k]]

GetNextSortOrder(column, by, order) ==
  IF by = column /\ order = "asc" THEN "desc" ELSE "asc"

\* An earlier result a query can be narrowed from: the same sort, and a query
\* the new one contains.
Narrower(e, s, q) == e.sort = s /\ e.query \subseteq q

NamespaceFiltered(items, ns) ==
  IF ns = "all" THEN items
  ELSE LET Of(row) == row.ns = ns IN SelectSeq(items, Of)

\* getFilteredItems: a remembered result, else a narrowed one, else filtered
\* and sorted afresh; the result is remembered and the oldest forgotten.
GetFilteredItems(items, cache, s, q) ==
  LET Hits(row) == MatchesSearch(row, q)
      known   == {i \in DOMAIN cache : cache[i].sort = s /\ cache[i].query = q}
      wider   == {i \in DOMAIN cache : q # {} /\ Narrower(cache[i], s, q)}
      longest == CHOOSE i \in wider : \A j \in wider :
                   Cardinality(cache[j].query) =< Cardinality(cache[i].query)
      rows    == IF wider # {} THEN SelectSeq(cache[longest].rows, Hits)
                 ELSE SortItems(SelectSeq(items, Hits), s.by, s.order)
      kept    == IF Len(cache) >= CacheMax THEN Tail(cache) ELSE cache
  IN IF known # {} THEN [rows |-> cache[CHOOSE i \in known : TRUE].rows, cache |-> cache]
     ELSE [rows |-> rows,
           cache |-> Append(kept, [sort |-> s, query |-> q, rows |-> rows])]

\* A render: the memo belongs to the list object.  Without a namespace filter
\* that is the tab's own list, which is the same object until it changes; a
\* filtered list is a new object each time the filter is set.
RowsRendered(items, ns, s, q, m) ==
  LET slot == IF ns = "all" THEN "own" ELSE "filtered"
      got  == GetFilteredItems(NamespaceFiltered(items, ns), m[slot], s, q)
  IN /\ drawn' = got.rows
     /\ memo' = [m EXCEPT ![slot] = got.cache]

NoMemo == [own |-> <<>>, filtered |-> <<>>]

\* The watch replaces the list by a new object.
ListReplaced(items) ==
  /\ ListStep
  /\ items # listed
  /\ listed' = items
  /\ RowsRendered(items, nsShown, sorting, listQuery, NoMemo)
  /\ UNCHANGED <<nsShown, sorting, listQuery, saved, cursor>>

TypeListQuery(q) ==
  /\ ListStep
  /\ q # listQuery
  /\ listQuery' = q
  /\ RowsRendered(listed, nsShown, sorting, q, memo)
  /\ UNCHANGED <<listed, nsShown, sorting, saved, cursor>>

\* 500 ms after the last keystroke the filter is written to the tab's state.
FilterSaved ==
  /\ saved # listQuery
  /\ saved' = listQuery
  /\ UNCHANGED <<listed, nsShown, sorting, listQuery, memo, drawn, cursor, lsteps>>

\* The list unmounts on a cluster switch and starts from the saved filter.
TableRemounted ==
  /\ ListStep
  /\ listQuery' = saved
  /\ RowsRendered(listed, nsShown, sorting, saved, NoMemo)
  /\ UNCHANGED <<listed, nsShown, sorting, saved, cursor>>

\* A navigation that must show its row clears the filter.
RevealClears(id) ==
  /\ ListStep
  /\ listQuery' = {}
  /\ cursor' = id
  /\ RowsRendered(listed, nsShown, sorting, {}, memo)
  /\ UNCHANGED <<listed, nsShown, sorting, saved>>

HandleSort(column) ==
  LET s == [by |-> column,
            order |-> GetNextSortOrder(column, sorting.by, sorting.order)]
  IN /\ ListStep
     /\ sorting' = s
     /\ RowsRendered(listed, nsShown, s, listQuery, memo)
     /\ UNCHANGED <<listed, nsShown, listQuery, saved, cursor>>

HandleNamespaceChange(ns) ==
  LET m == [memo EXCEPT !.filtered = <<>>]
  IN /\ ListStep
     /\ nsShown' = ns
     /\ RowsRendered(listed, ns, sorting, listQuery, m)
     /\ UNCHANGED <<listed, sorting, listQuery, saved, cursor>>

\* j, k, down, up: from the row of the cursor, found by its key; a cursor that
\* is not on a row shown counts as the place before the first.
NavigateList(dir) ==
  LET at   == {i \in DOMAIN drawn : drawn[i].id = cursor}
      from == IF at = {} THEN 0 ELSE CHOOSE i \in at : TRUE
      to   == IF dir = "up" THEN IF from - 1 < 1 THEN 1 ELSE from - 1
              ELSE IF from + 1 > Len(drawn) THEN Len(drawn) ELSE from + 1
  IN /\ ListStep
     /\ drawn # <<>>
     /\ cursor' = drawn[to].id
     /\ UNCHANGED <<listed, nsShown, sorting, listQuery, saved, memo, drawn>>

\* Lists the watch can hold: any of the rows, in either order.
Orders == {s \in UNION {[1..n -> ListRows] : n \in 0..Cardinality(ListRows)} :
             \A i, j \in DOMAIN s : i # j => s[i] # s[j]}

RowsNext ==
  \/ \E items \in Orders : ListReplaced(items)
  \/ \E q \in ListQueries : TypeListQuery(q)
  \/ FilterSaved
  \/ TableRemounted
  \/ \E row \in ListRows : RevealClears(row.id)
  \/ \E c \in SortColumns : HandleSort(c)
  \/ \E ns \in {"all"} \cup {row.ns : row \in ListRows} : HandleNamespaceChange(ns)
  \/ \E dir \in {"up", "down"} : NavigateList(dir)

-----------------------------------------------------------------------------
(* Picks: ticked rows and what bulk operations take. *)

KeysOf(node) == {<<node, i>> : i \in DOMAIN PickNames}
\* The rows the filter leaves, in the order shown.
ShownKeys(node) == {k \in present : k[1] = node /\ k[2] \notin hiddenNames}
ShownNow == ShownKeys(nodeOf[pickTab])

NoKey == <<"", 0>>

TickSpan(from, to) ==
  LET lo == IF from < to THEN from ELSE to
      hi == IF from < to THEN to ELSE from
  IN {k \in ShownNow : k[2] \in lo..hi}

\* A click on a row's box; with shift, every row shown from the last one
\* ticked, unless that one is no longer shown.
HandleCheckboxChange(key, shift) ==
  LET mine == ticks[pickTab]
      new  == IF shift /\ anchor # NoKey
              THEN mine \cup IF anchor \in ShownNow
                             THEN TickSpan(anchor[2], key[2]) ELSE {key}
              ELSE IF key \in mine THEN mine \ {key} ELSE mine \cup {key}
  IN /\ ListStep
     /\ key \in ShownNow
     /\ ticks' = [ticks EXCEPT ![pickTab] = new]
     /\ anchor' = key
     /\ UNCHANGED <<pickTab, nodeOf, present, hiddenNames, dialog, pendingOp,
                    bulks, bulkCount>>

\* The box of the header compares numbers, not rows.
HandleSelectAll ==
  /\ ListStep
  /\ ticks' = [ticks EXCEPT ![pickTab] =
                 IF Cardinality(@) = Cardinality(ShownNow) THEN {} ELSE ShownNow]
  /\ UNCHANGED <<pickTab, nodeOf, anchor, present, hiddenNames, dialog,
                 pendingOp, bulks, bulkCount>>

HandleClearSelection ==
  /\ ListStep
  /\ ticks' = [ticks EXCEPT ![pickTab] = {}]
  /\ anchor' = NoKey
  /\ UNCHANGED <<pickTab, nodeOf, present, hiddenNames, dialog, pendingOp,
                 bulks, bulkCount>>

\* The effect on the active tab and its resource: another resource than the
\* one before starts with nothing ticked.
PicksAfter(tab, nodes) ==
  /\ pickTab' = tab
  /\ nodeOf' = nodes
  /\ anchor' = NoKey
  /\ ticks' = IF nodes[tab] # nodeOf[pickTab] THEN [ticks EXCEPT ![tab] = {}]
              ELSE ticks

ShowTab(tab) ==
  /\ ListStep
  /\ tab # pickTab
  /\ PicksAfter(tab, nodeOf)
  /\ UNCHANGED <<present, hiddenNames, dialog, pendingOp, bulks, bulkCount>>

\* The preview tab is reused for another resource type.
ReuseTab(node) ==
  /\ ListStep
  /\ node # nodeOf[pickTab]
  /\ PicksAfter(pickTab, [nodeOf EXCEPT ![pickTab] = node])
  /\ UNCHANGED <<present, hiddenNames, dialog, pendingOp, bulks, bulkCount>>

RowsChange(keys) ==
  /\ ListStep
  /\ present' = keys
  /\ UNCHANGED <<pickTab, nodeOf, ticks, anchor, hiddenNames, dialog,
                 pendingOp, bulks, bulkCount>>

FilterHides(names) ==
  /\ ListStep
  /\ names # hiddenNames
  /\ hiddenNames' = names
  /\ UNCHANGED <<pickTab, nodeOf, ticks, anchor, present, dialog, pendingOp,
                 bulks, bulkCount>>

Asked(kind) ==
  /\ ListStep
  /\ ticks[pickTab] # {}
  /\ dialog' = kind
  /\ UNCHANGED <<pickTab, nodeOf, ticks, anchor, present, hiddenNames,
                 pendingOp, bulks, bulkCount>>

\* Delete in the row's menu makes that row the selection and asks.
MenuDelete(key) ==
  /\ ListStep
  /\ key \in ShownNow
  /\ ticks' = [ticks EXCEPT ![pickTab] = {key}]
  /\ dialog' = "delete"
  /\ UNCHANGED <<pickTab, nodeOf, anchor, present, hiddenNames, pendingOp,
                 bulks, bulkCount>>

DialogCancelled ==
  /\ ListStep
  /\ dialog # ""
  /\ dialog' = ""
  /\ UNCHANGED <<pickTab, nodeOf, ticks, anchor, present, hiddenNames,
                 pendingOp, bulks, bulkCount>>

\* The ticked rows the list still holds, the ones the filter hides included.
PickedItems == {k \in present : k[1] = nodeOf[pickTab] /\ k \in ticks[pickTab]}

StartBulk(kind) ==
  /\ bulkCount < MaxBulks
  /\ bulkCount' = bulkCount + 1
  /\ bulks' = bulks \cup {[kind |-> kind, no |-> bulkCount, items |-> PickedItems,
                           node |-> nodeOf[pickTab], asked |-> ticks[pickTab]]}

\* confirmDelete, confirmRemoveFinalizers: one at a time.
Confirmed ==
  /\ dialog # ""
  /\ pendingOp = ""
  /\ StartBulk(dialog)
  /\ pendingOp' = dialog
  /\ ticks' = [ticks EXCEPT ![pickTab] = {}]
  /\ dialog' = ""
  /\ UNCHANGED <<pickTab, nodeOf, anchor, present, hiddenNames, lsteps>>

\* Restart and force refresh run at once and are not counted as pending.
RunAtOnce(kind) ==
  /\ ListStep
  /\ ticks[pickTab] # {}
  /\ StartBulk(kind)
  /\ UNCHANGED <<pickTab, nodeOf, ticks, anchor, present, hiddenNames, dialog,
                 pendingOp>>

\* The answer: a confirmed operation frees the way for the next; the others
\* clear the ticks of the tab on screen by now (a failed restart keeps them).
BulkEnds(b, ok) ==
  /\ bulks' = bulks \ {b}
  /\ IF b.kind \in {"delete", "removeFinalizers"}
     THEN pendingOp' = "" /\ ticks' = ticks
     ELSE /\ pendingOp' = pendingOp
          /\ ticks' = IF ok \/ b.kind = "forceRefresh"
                      THEN [ticks EXCEPT ![pickTab] = {}] ELSE ticks
  /\ UNCHANGED <<pickTab, nodeOf, anchor, present, hiddenNames, dialog,
                 bulkCount, lsteps>>

PicksNext ==
  \/ \E k \in ShownNow, shift \in BOOLEAN : HandleCheckboxChange(k, shift)
  \/ HandleSelectAll
  \/ HandleClearSelection
  \/ \E t \in PickTabs : ShowTab(t)
  \/ \E n \in PickNodes : ReuseTab(n)
  \/ \E n \in PickNodes, i \in DOMAIN PickNames :
       RowsChange(IF <<n, i>> \in present THEN present \ {<<n, i>>}
                  ELSE present \cup {<<n, i>>})
  \/ \E names \in {{}, {1}} : FilterHides(names)
  \/ \E kind \in {"delete", "removeFinalizers"} : Asked(kind)
  \/ \E k \in ShownNow : MenuDelete(k)
  \/ DialogCancelled
  \/ Confirmed
  \/ \E kind \in {"restart", "forceRefresh"} : RunAtOnce(kind)
  \/ \E b \in bulks, ok \in BOOLEAN : BulkEnds(b, ok)

-----------------------------------------------------------------------------
(* Table: what is drawn while the next list is on its way.  A list is the   *)
(* node it is of and a revision; revision 0 is an empty list.               *)

Waiting(aw, rcv, err, showL) == (aw \/ (~rcv /\ ~err)) /\ ~showL

KeepsOldAny(node, aw, rcv, err, showL, shown, cnode) ==
  Waiting(aw, rcv, err, showL) /\ shown.rev > 0

\* displayItems: while waiting, the rows drawn last, if they are this node's.
KeepsOld(node, aw, rcv, err, showL, shown, cnode) ==
  Waiting(aw, rcv, err, showL) /\ shown.rev > 0 /\ cnode = node

\* Two renders: with the props as they arrive, then after the effect that
\* notices another node and the one that notices an answer.
RowsDrawn(node, items, rcv, err) ==
  LET keep1  == KeepsOld(node, awaiting, rcv, err, showLoading, shownItems, cached)
      shown1 == IF keep1 THEN shownItems ELSE items
      node1  == IF keep1 THEN cached ELSE node
      aw     == IF rcv \/ err THEN FALSE ELSE (node # tabNode) \/ awaiting
      showL  == showLoading /\ node = tabNode /\ aw
      keep2  == KeepsOld(node, aw, rcv, err, showL, shown1, node1)
  IN /\ tabNode' = node
     /\ tabItems' = items
     /\ received' = rcv
     /\ failed' = err
     /\ awaiting' = aw
     /\ showLoading' = showL
     /\ shownItems' = IF keep2 THEN shown1 ELSE items
     /\ cached' = IF keep2 THEN node1 ELSE node

NodePicked(node) ==
  /\ ListStep
  /\ node # tabNode
  /\ RowsDrawn(node, [node |-> node, rev |-> 0], FALSE, FALSE)

\* A list the store still holds is shown at once.
KeptNodePicked(node, rev) ==
  /\ ListStep
  /\ node # tabNode
  /\ RowsDrawn(node, [node |-> node, rev |-> rev], TRUE, FALSE)

RowsArrive(rev) ==
  /\ ListStep
  /\ RowsDrawn(tabNode, [node |-> tabNode, rev |-> rev], received, failed)

ListComplete ==
  /\ ~received
  /\ RowsDrawn(tabNode, tabItems, TRUE, FALSE)
  /\ UNCHANGED lsteps

ListFails ==
  /\ ~received /\ ~failed
  /\ RowsDrawn(tabNode, tabItems, received, TRUE)
  /\ UNCHANGED lsteps

\* Retry empties the list and asks again.
RetryList ==
  /\ ListStep
  /\ RowsDrawn(tabNode, [node |-> tabNode, rev |-> 0], FALSE, FALSE)

\* 500 ms without data.
LoadingShown ==
  /\ awaiting /\ ~showLoading
  /\ showLoading' = TRUE
  /\ shownItems' = tabItems
  /\ cached' = tabNode
  /\ UNCHANGED <<tabNode, tabItems, received, failed, awaiting, lsteps>>

TableNext ==
  \/ \E n \in PickNodes : NodePicked(n)
  \/ \E n \in PickNodes, r \in 0..1 : KeptNodePicked(n, r)
  \/ \E r \in 0..2 : RowsArrive(r)
  \/ ListComplete
  \/ ListFails
  \/ RetryList
  \/ LoadingShown

\* What the body of the table says when it draws no row.
EmptyText ==
  CASE showLoading -> "Loading resources"
    [] ~showLoading /\ (awaiting \/ (~received /\ ~failed)) -> ""
    [] ~showLoading /\ ~awaiting /\ failed -> "error and Retry"
    [] OTHER -> "No resources found"

TableBody == IF shownItems.rev > 0 THEN "rows" ELSE EmptyText

-----------------------------------------------------------------------------

-----------------------------------------------------------------------------
(* Acts: a row's menu. Delete goes through the ticks: MenuDelete above. *)

NoRow == [at |-> [cluster |-> "", kind |-> "", xr |-> FALSE], name |-> ""]

\* resourceActionConfigs; kinds it does not name have Edit and Delete.
ResourceActionConfigs ==
  [deployment |-> {"logs", "restart", "scale", "edit"},
   statefulset |-> {"logs", "restart", "scale", "edit"},
   daemonset |-> {"logs", "restart", "edit"},
   replicaset |-> {"logs", "scale", "edit"},
   pod |-> {"logs", "shell", "edit"},
   node |-> {"drain", "cordon", "uncordon", "taint", "edit"},
   job |-> {"logs", "edit"},
   cronjob |-> {"trigger", "edit"}]

GetAvailableActions(place) ==
  (IF place.kind \in DOMAIN ResourceActionConfigs
   THEN ResourceActionConfigs[place.kind] ELSE {"edit"})
  \cup (IF place.xr THEN {"trace"} ELSE {})

WorkloadControllerKinds == {"deployment", "statefulset", "daemonset", "replicaset", "job"}

RowForms == {"scale", "taint", "drain"}
Spins == {"restart", "trigger"}

RowOps(act) == {o \in running : o.act = act}

\* An operation in flight: on the row name of the list on screen when it
\* started; answered: only the timer that stops the spinner is left.
RowOp(act, name) ==
  [act |-> act, at |-> actPlace, name |-> name, n |-> lsteps, answered |-> FALSE]

\* Shortcuts switch the cluster and go back and forward whatever is open.
GoPlace(place) ==
  /\ ListStep /\ place # actPlace /\ actPlace' = place
  /\ UNCHANGED <<menuOf, formOf, formBusy, spinners, running, detailOf, dock>>

HandleActionClick(name) ==
  /\ ListStep /\ menuOf = NoRow /\ \A f \in RowForms : formOf[f] = NoRow
  /\ menuOf' = [at |-> actPlace, name |-> name]
  /\ UNCHANGED <<actPlace, formOf, formBusy, spinners, running, detailOf, dock>>

CloseMenu ==
  /\ menuOf # NoRow /\ menuOf' = NoRow
  /\ UNCHANGED <<actPlace, formOf, formBusy, spinners, running, detailOf, dock, lsteps>>

\* A click on a row shows its details.
ShowDetails(name) ==
  /\ ListStep /\ menuOf = NoRow /\ \A f \in RowForms : formOf[f] = NoRow
  /\ detailOf' = [detailOf EXCEPT ![actPlace.cluster] = [at |-> actPlace, name |-> name]]
  /\ UNCHANGED <<actPlace, menuOf, formOf, formBusy, spinners, running, dock>>

\* openBottomTab.
Opened(type, row, cluster, fallback) ==
  [type |-> type, row |-> row, cluster |-> cluster, fallback |-> fallback]

\* The actions that send a request, with the cluster and the kind on screen.
StartsOp(act) ==
  /\ act \in Spins \cup {"cordon", "uncordon", "edit", "shell"}
  /\ running' = running \cup {RowOp(act, menuOf.name)}
  /\ spinners' = IF act \in Spins THEN spinners \cup {menuOf.name} ELSE spinners
  /\ UNCHANGED <<formOf, dock>>

OpensForm(act) ==
  /\ act \in RowForms /\ formOf' = [formOf EXCEPT ![act] = menuOf]
  /\ UNCHANGED <<spinners, running, dock>>

\* Logs and Trace open a tab at once, of the kind on screen.
OpensTab(act) ==
  /\ act \in {"logs", "trace"}
  /\ dock' = dock \cup
       {Opened(IF act = "logs" /\ actPlace.kind \in WorkloadControllerKinds
               THEN "deployment-logs" ELSE act,
               [at |-> actPlace, name |-> menuOf.name], actPlace.cluster, FALSE)}
  /\ UNCHANGED <<formOf, spinners, running>>

HandleActionSelect(act) ==
  /\ ListStep /\ menuOf # NoRow /\ menuOf' = NoRow
  /\ StartsOp(act) \/ OpensForm(act) \/ OpensTab(act)
  /\ UNCHANGED <<actPlace, formBusy, detailOf>>

\* confirmScale, confirmTaint, confirmDrain: the row of the dialog, the
\* cluster and the kind on screen.
ConfirmForm(form) ==
  /\ ListStep /\ formOf[form] # NoRow /\ ~formBusy[form]
  /\ formBusy' = [formBusy EXCEPT ![form] = TRUE]
  /\ running' = running \cup {RowOp(form, formOf[form].name)}
  /\ UNCHANGED <<actPlace, menuOf, formOf, spinners, detailOf, dock>>

\* Escape closes a dialog even while its request runs.
CancelForm(form) ==
  /\ formOf[form] # NoRow /\ formOf' = [formOf EXCEPT ![form] = NoRow]
  /\ UNCHANGED <<actPlace, menuOf, formBusy, spinners, running, detailOf, dock, lsteps>>

FormAnswered(o, ok) ==
  /\ o.act \in RowForms /\ running' = running \ {o}
  /\ formOf' = IF ok THEN [formOf EXCEPT ![o.act] = NoRow] ELSE formOf
  /\ formBusy' = [formBusy EXCEPT ![o.act] = FALSE]
  /\ UNCHANGED <<actPlace, menuOf, spinners, detailOf, dock, lsteps>>

\* Answered or failed, a timer stops the spinner (the finally clause).
SpinAnswered(o, ok) ==
  /\ o.act \in Spins /\ ~o.answered
  /\ running' = (running \ {o}) \cup {[o EXCEPT !.answered = TRUE]}
  /\ UNCHANGED <<actPlace, menuOf, formOf, formBusy, spinners, detailOf, dock, lsteps>>

SpinEnds(o) ==
  /\ o.act \in Spins /\ o.answered
  /\ running' = running \ {o} /\ spinners' = spinners \ {o.name}
  /\ UNCHANGED <<actPlace, menuOf, formOf, formBusy, detailOf, dock, lsteps>>

CordonAnswered(o) ==
  /\ o.act \in {"cordon", "uncordon"} /\ running' = running \ {o}
  /\ UNCHANGED <<actPlace, menuOf, formOf, formBusy, spinners, detailOf, dock, lsteps>>

\* Opened in the cluster the details were asked of.
EditTab(o, row, fallback) == {Opened(o.act, row, o.at.cluster, fallback)}

\* The details of Edit and Shell: loaded; gone, and then the details shown in
\* the current cluster stand in for them; or failed, and nothing opens.
DetailsAnswered(o, how) ==
  /\ o.act \in {"edit", "shell"} /\ running' = running \ {o}
  /\ LET row == [at |-> o.at, name |-> o.name]
         old == detailOf[actPlace.cluster]
     IN dock' = dock \cup CASE how = "loaded" -> EditTab(o, row, FALSE)
                            [] how = "gone" /\ old # NoRow -> EditTab(o, old, TRUE)
                            [] OTHER -> {}
  /\ UNCHANGED <<actPlace, menuOf, formOf, formBusy, spinners, detailOf, lsteps>>

ActsNext ==
  \/ \E p \in ActPlaces : GoPlace(p)
  \/ \E n \in ActNames : HandleActionClick(n) \/ ShowDetails(n)
  \/ CloseMenu
  \/ \E a \in GetAvailableActions(actPlace) : HandleActionSelect(a)
  \/ \E f \in RowForms : ConfirmForm(f) \/ CancelForm(f)
  \/ \E o \in running :
       \/ \E ok \in BOOLEAN : FormAnswered(o, ok) \/ SpinAnswered(o, ok)
       \/ SpinEnds(o) \/ CordonAnswered(o)
       \/ \E how \in {"loaded", "gone", "failed"} : DetailsAnswered(o, how)

ActsInit ==
  /\ actPlace = (CHOOSE p \in ActPlaces : TRUE) /\ menuOf = NoRow
  /\ formOf = [f \in RowForms |-> NoRow] /\ formBusy = [f \in RowForms |-> FALSE]
  /\ spinners = {} /\ running = {} /\ dock = {}
  /\ detailOf = [c \in {p.cluster : p \in ActPlaces} |-> NoRow]

ListInit ==
  /\ listed = <<>> /\ nsShown = "all"
  /\ sorting = [by |-> CHOOSE c \in SortColumns : TRUE, order |-> "asc"]
  /\ listQuery = {} /\ saved = {} /\ memo = NoMemo /\ drawn = <<>> /\ cursor = ""
  /\ pickTab = CHOOSE t \in PickTabs : TRUE
  /\ nodeOf \in [PickTabs -> PickNodes]
  /\ ticks = [t \in PickTabs |-> {}] /\ anchor = NoKey
  /\ present = UNION {KeysOf(n) : n \in PickNodes}
  /\ hiddenNames = {} /\ dialog = "" /\ pendingOp = "" /\ bulks = {} /\ bulkCount = 0
  /\ tabNode = CHOOSE n \in PickNodes : TRUE
  /\ tabItems = [node |-> tabNode, rev |-> 0]
  /\ received = FALSE /\ failed = FALSE /\ awaiting = TRUE /\ showLoading = FALSE
  /\ cached = tabNode /\ shownItems = tabItems
  /\ ActsInit
  /\ lsteps = 0

\* The rows drawn are the rows of the list that the namespace and the query
\* leave, each once, in the order of the sort, ties in the order of the list,
\* whatever was remembered of earlier queries and sorts
\* (useResourceListState.ts, getFilteredItems).
RowsAreTheList ==
  LET wanted == {i \in DOMAIN listed :
                   /\ nsShown = "all" \/ listed[i].ns = nsShown
                   /\ listQuery \subseteq listed[i].words}
      at(r)  == CHOOSE i \in DOMAIN listed : listed[i] = r
      asc    == sorting.order = "asc"
  IN /\ {listed[i] : i \in wanted} = {drawn[k] : k \in DOMAIN drawn}
     /\ Len(drawn) = Cardinality(wanted)
     /\ \A k \in 1..Len(drawn) - 1 :
          LET x == drawn[k].vals[sorting.by]  y == drawn[k+1].vals[sorting.by]
          IN IF x = y THEN at(drawn[k]) < at(drawn[k+1])
             ELSE (x < y) = asc

\* A delete or removal of finalizers runs alone, while it runs the way is
\* closed and afterwards open again, each operation takes only rows of its own
\* resource type that were ticked, and the ticks counted above the list are of
\* the resource type it shows (useResourceListActions.ts, ResourceList.tsx).
BulkTakesItsTicks ==
  /\ LET guarded == {b \in bulks : b.kind \in {"delete", "removeFinalizers"}}
     IN /\ Cardinality(guarded) =< 1
        /\ (pendingOp # "") = (guarded # {})
  /\ \A b \in bulks : b.items \subseteq b.asked /\ \A k \in b.items : k[1] = b.node
  /\ \A k \in ticks[pickTab] : k[1] = nodeOf[pickTab]

\* Rows of one resource type are never drawn under another, the rows drawn are
\* the current ones as soon as the table does not wait for data, and an empty
\* table says why (ResourceTable.tsx, displayItems).
TableShowsItsNode ==
  /\ shownItems.rev > 0 => shownItems.node = tabNode
  /\ ~Waiting(awaiting, received, failed, showLoading) => shownItems = tabItems
  /\ received \/ failed => TableBody # ""

\* What a row's menu starts ends: a row spins only while its request or the
\* timer after it is under way, a dialog is busy only while its request runs,
\* every request asked for an action its kind of row offers, unless a dialog
\* was confirmed over another list, and a tab opens in the cluster its row
\* was picked in although the answer came after a switch
\* (resourceActions.ts, handleActionSelect; useResourceListActions.ts).
RowActionsSettle ==
  /\ spinners \subseteq {o.name : o \in RowOps("restart") \cup RowOps("trigger")}
  /\ \A f \in RowForms : formBusy[f] => RowOps(f) # {}
  /\ \A o \in running : o.act \notin RowForms => o.act \in GetAvailableActions(o.at)
  /\ \A t \in dock : ~t.fallback => t.row.at.cluster = t.cluster

\* All four: what is shown is what is acted on.
ListActsOnItsRows ==
  RowsAreTheList /\ BulkTakesItsTicks /\ TableShowsItsNode /\ RowActionsSettle
=============================================================================

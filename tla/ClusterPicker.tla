--------------------------- MODULE ClusterPicker ---------------------------
(***************************************************************************)
(* The cluster picker (components/ClusterSelectorModal.tsx).               *)
(*                                                                         *)
(* GroupsNext: "Manage Groups" (ClusterSelector.tsx, ClusterItem.tsx).     *)
(* Groups, which group a cluster is in, and aliases are kept by the        *)
(* backend; every change is a request or two followed by a load of all of  *)
(* it.  A load is several reads answered together (Promise.all), each      *)
(* served by the backend at its own moment.                                *)
(* FindNext: "Quick Find" (QuickClusterSearch.tsx).                        *)
(*                                                                         *)
(* The kubeconfig shown, provider and region are left out.  A request that *)
(* fails was not served.                                                   *)
(***************************************************************************)
EXTENDS Integers, Sequences, SequencesExt, FiniteSets

CONSTANTS
  PickClusters,    \* clusters, in order of their names: a sequence
  GroupIds,        \* ids the backend gives to groups
  OpenClusters,    \* clusters with a tab
  Matching,        \* [query -> clusters it matches]; "" matches all
  MaxPickerSteps,  \* bound: changes of the groups
  MaxFindSteps     \* bound: keys of Quick Find

ASSUME PickerAssumption ==
  /\ GroupIds \subseteq Nat \ {0}
  /\ OpenClusters \subseteq Range(PickClusters)
  /\ Matching[""] = Range(PickClusters)
  /\ MaxPickerSteps \in Nat /\ MaxFindSteps \in Nat

VARIABLES
  db,          \* the backend's [order, place, alias]
  shown,       \* groups, clustersByGroup, assignments and aliases of the page
  spread,      \* expandedGroups
  pickLoads,   \* loads under way [n, read, got, drop: it ends a drag]
  pickOps,     \* changes under way [n, kind, c, g, to, stage]
  dragging,    \* draggedCluster, "none"
  pickLoading, \* isLoadingClusters
  unsound,     \* ghost: a change failed or was served during a load, loads or the
               \* aliases of one cluster overlapped
  pickSteps, pickMade,
  \* quick find
  found,       \* the clusters
  query, healthy, highlight, mouseOn,
  finding,     \* open
  findLoading  \* the first load is under way

groupVars  == <<db, shown, spread, pickLoads, pickOps, dragging, pickLoading, unsound>>
findVars   == <<found, query, healthy, highlight, mouseOn, finding, findLoading>>
pickerVars == <<groupVars, findVars, pickSteps, pickMade>>

AllPicks == Range(PickClusters)
PickStep == pickSteps < MaxPickerSteps /\ pickSteps' = pickSteps + 1

-----------------------------------------------------------------------------
(* Loads                                                                   *)

Reads == {"groups", "byGroup", "assignments", "aliases"}

Empty == [groups |-> <<>>, byGroup |-> [c \in AllPicks |-> 0],
          assignments |-> [c \in AllPicks |-> 0], aliases |-> [c \in AllPicks |-> ""]]

\* what the backend answers to a read
Answers(r) == CASE r = "groups" -> db.order
                [] r \in {"byGroup", "assignments"} -> db.place
                [] r = "aliases" -> db.alias

NewLoad(n, drop) == [n |-> n, read |-> {}, got |-> Empty, drop |-> drop]

GroupsInit ==
  /\ \E some \in {{}, {PickClusters[1]}}, g \in GroupIds :
       db = [order |-> SetToSeq(GroupIds), place |-> [c \in AllPicks |-> IF c \in some THEN g ELSE 0],
             alias |-> [c \in AllPicks |-> ""]]
  /\ shown = Empty /\ spread = {}
  /\ pickLoads = {NewLoad(0, FALSE)} /\ pickOps = {} /\ pickMade = 1
  /\ dragging = "none" 
  /\ pickLoading = TRUE /\ unsound = FALSE

\* loadData starts: it overlaps with any other
LoadBegins(drop) ==
  /\ pickLoads' = pickLoads \cup {NewLoad(pickMade, drop)}
  /\ pickMade' = pickMade + 1
  /\ pickLoading' = TRUE
  /\ unsound' = (unsound \/ pickLoads # {})

ReadServed(ld, r) ==
  /\ r \notin ld.read
  /\ pickLoads' = (pickLoads \ {ld}) \cup
                  {[ld EXCEPT !.read = @ \cup {r}, !.got[r] = Answers(r)]}
  /\ UNCHANGED <<db, shown, spread, pickOps, dragging, pickLoading, unsound,
                 pickSteps, pickMade>>

\* groups with a cluster are expanded, the others closed
Filled(got) == {got.groups[i] : i \in {j \in DOMAIN got.groups :
                 \E c \in AllPicks : got.byGroup[c] = got.groups[j]}}

LoadEnds(ld) ==
  /\ ld.read = Reads
  /\ pickLoads' = pickLoads \ {ld}
  /\ shown' = ld.got
  /\ spread' = Filled(ld.got)
  /\ pickLoading' = FALSE
  /\ dragging' = IF ld.drop THEN "none" ELSE dragging
  /\ UNCHANGED <<db, pickOps, unsound, pickSteps, pickMade>>

LoadFails(ld) ==
  /\ ld.read = {}
  /\ pickLoads' = pickLoads \ {ld}
  /\ pickLoading' = FALSE
  /\ unsound' = TRUE
  /\ dragging' = IF ld.drop THEN "none" ELSE dragging
  /\ UNCHANGED <<db, shown, spread, pickOps, pickSteps, pickMade>>

-----------------------------------------------------------------------------
(* Changes: each sends its first request                                   *)

Op(kind, c, g, to, stage) ==
  [n |-> pickMade, kind |-> kind, c |-> c, g |-> g, to |-> to, stage |-> stage]

Sends(op) ==
  /\ pickOps' = pickOps \cup {op}
  /\ pickMade' = pickMade + 1
  /\ unsound' = (unsound \/ \E o \in pickOps : op.kind = "alias" /\ o.kind = "alias" /\ o.c = op.c)
  /\ UNCHANGED <<db, shown, spread, pickLoads, pickLoading>>

ToggleGroup(g) ==
  /\ PickStep /\ g \in Range(shown.groups)
  /\ spread' = IF g \in spread THEN spread \ {g} ELSE spread \cup {g}
  /\ UNCHANGED <<db, shown, pickLoads, pickOps, dragging, pickLoading, unsound, pickMade>>

CreateGroup ==
  /\ PickStep
  /\ Sends(Op("create", "", 0, "", "send"))
  /\ UNCHANGED dragging

DeleteGroup(g) ==
  /\ PickStep /\ g \in Range(shown.groups)
  /\ Sends(Op("delete", "", g, "", "send"))
  /\ UNCHANGED dragging

\* the new order is computed from the groups shown
Swapped(g, by) ==
  LET i == CHOOSE j \in DOMAIN shown.groups : shown.groups[j] = g IN
  IF i + by \in DOMAIN shown.groups
  THEN [shown.groups EXCEPT ![i] = shown.groups[i + by], ![i + by] = g]
  ELSE <<>>

MoveGroup(g, by) ==
  /\ PickStep /\ g \in Range(shown.groups)
  /\ Swapped(g, by) # <<>>
  /\ Sends(Op("order", "", 0, Swapped(g, by), "send"))
  /\ UNCHANGED dragging

DragStart(c) ==
  /\ dragging = "none" /\ UNCHANGED pickSteps
  /\ dragging' = c
  /\ UNCHANGED <<db, shown, spread, pickLoads, pickOps, pickLoading, unsound, pickMade>>

\* dropped on a group: an assigned cluster is removed first
DropOn(g) ==
  /\ PickStep /\ dragging # "none" /\ g \in Range(shown.groups)
  /\ UNCHANGED dragging
  /\ Sends(Op("drop", dragging, g, "",
              IF shown.assignments[dragging] # 0 THEN "remove" ELSE "send"))

\* dropped on the clusters without a group, or taken out by its button
Unassign(c) ==
  /\ shown.assignments[c] # 0 /\ PickStep
  /\ Sends(Op("remove", c, 0, "", "send"))
  /\ UNCHANGED dragging

\* a drag that ends elsewhere
DragEnd ==
  /\ dragging # "none" /\ dragging' = "none"
  /\ UNCHANGED <<db, shown, spread, pickLoads, pickOps, pickLoading, unsound,
                 pickSteps, pickMade>>

\* the alias typed for a cluster is saved; the original name deletes it
SaveAlias(c, to) ==
  /\ PickStep
  /\ Sends(Op("alias", c, 0, to, "send"))
  /\ UNCHANGED dragging

\* what the backend makes of a request
Served(op) ==
  CASE op.stage = "remove" \/ op.kind = "remove" -> [db EXCEPT !.place[op.c] = 0]
    [] op.kind = "drop" -> IF op.g \in Range(db.order) THEN [db EXCEPT !.place[op.c] = op.g] ELSE db
    [] op.kind = "create" -> LET free == GroupIds \ Range(db.order) IN
         IF free = {} THEN db
         ELSE [db EXCEPT !.order = Append(@, CHOOSE g \in free : TRUE)]
    [] op.kind = "delete" ->
         [db EXCEPT !.order = SelectSeq(@, LAMBDA g : g # op.g),
                    !.place = [c \in AllPicks |-> IF @[c] = op.g THEN 0 ELSE @[c]]]
    [] op.kind = "order" ->
         IF Range(op.to) = Range(db.order) THEN [db EXCEPT !.order = op.to] ELSE db
    [] op.kind = "alias" -> [db EXCEPT !.alias[op.c] = op.to]

ServeOp(op) ==
  /\ op.stage \in {"remove", "send"}
  /\ db' = Served(op)
  /\ pickOps' = (pickOps \ {op}) \cup
                {[op EXCEPT !.stage = IF op.stage = "remove" THEN "removed" ELSE "served"]}
  /\ unsound' = (unsound \/ pickLoads # {})
  /\ UNCHANGED <<shown, spread, pickLoads, dragging, pickLoading, pickSteps, pickMade>>

\* the answer of the removal: the assignment is sent
SendAssign(op) ==
  /\ op.stage = "removed"
  /\ pickOps' = (pickOps \ {op}) \cup {[op EXCEPT !.stage = "send"]}
  /\ UNCHANGED <<db, shown, spread, pickLoads, dragging, pickLoading, unsound,
                 pickSteps, pickMade>>

\* the answer: an alias is set in place, the rest is loaded again
ReloadsAfterNothing(op) == FALSE
ReloadsAfter(op) == op.kind # "alias"

OpAnswered(op) ==
  /\ op.stage = "served"
  /\ pickOps' = pickOps \ {op}
  /\ IF ReloadsAfter(op)
     THEN LoadBegins(op.kind = "drop") /\ UNCHANGED shown
     ELSE /\ shown' = [shown EXCEPT !.aliases[op.c] = IF op.kind = "alias" THEN op.to ELSE @]
          /\ unsound' = (unsound \/ pickLoads # {})
          /\ UNCHANGED <<pickLoads, pickLoading, pickMade>>
  /\ UNCHANGED <<db, spread, dragging, pickSteps>>

\* a request failed: nothing is loaded
OpFails(op) ==
  /\ op.stage \in {"remove", "send"}
  /\ pickOps' = pickOps \ {op}
  /\ dragging' = IF op.kind = "drop" THEN "none" ELSE dragging
  /\ unsound' = TRUE
  /\ UNCHANGED <<db, shown, spread, pickLoads, pickLoading, pickSteps, pickMade>>

GroupsNext ==
  /\ \/ \E g \in GroupIds : \/ ToggleGroup(g) \/ DeleteGroup(g) \/ DropOn(g)
                            \/ MoveGroup(g, 1) \/ MoveGroup(g, -1)
     \/ CreateGroup \/ DragEnd
     \/ \E c \in AllPicks : DragStart(c) \/ Unassign(c)
     \/ \E c \in AllPicks, to \in {"", "other"} : SaveAlias(c, to)
     \/ \E op \in pickOps : ServeOp(op) \/ SendAssign(op) \/ OpAnswered(op) \/ OpFails(op)
     \/ \E ld \in pickLoads : \/ LoadEnds(ld) \/ LoadFails(ld)
                              \/ \E r \in Reads : ReadServed(ld, r)
  /\ UNCHANGED findVars

-----------------------------------------------------------------------------
(* Quick Find                                                              *)

FindStep == pickSteps < MaxFindSteps /\ pickSteps' = pickSteps + 1

FindInit ==
  /\ found = {} /\ query = "" /\ healthy = {} /\ highlight = 0
  /\ mouseOn = TRUE /\ finding = TRUE /\ findLoading = TRUE

\* filteredClusters: matching clusters, opened first, then online, then by name
RowsFound ==
  LET all == SelectSeq(PickClusters, LAMBDA c : c \in found \cap Matching[query])
      Part(open, ok) == SelectSeq(all, LAMBDA c : (c \in OpenClusters) = open /\ (c \in healthy) = ok)
  IN Part(TRUE, TRUE) \o Part(TRUE, FALSE) \o Part(FALSE, TRUE) \o Part(FALSE, FALSE)

\* the effect on the number of rows
Clamped(h, n) == IF n = 0 THEN IF h < 0 THEN h ELSE 0 ELSE IF h < n THEN h ELSE n - 1

NowFound(cs) ==
  /\ found' = cs
  /\ highlight' = Clamped(highlight, Cardinality(cs \cap Matching[query]))

FindLoads ==
  /\ finding /\ findLoading /\ findLoading' = FALSE
  /\ NowFound(AllPicks)
  /\ UNCHANGED <<query, healthy, mouseOn, finding, pickSteps>>

FindFails ==
  /\ finding /\ findLoading /\ findLoading' = FALSE
  /\ UNCHANGED <<found, query, healthy, highlight, mouseOn, finding, pickSteps>>

\* clusters:refreshed: another list, which may be shorter
ClustersRefreshed(cs) ==
  /\ finding /\ FindStep
  /\ NowFound(cs)
  /\ UNCHANGED <<query, healthy, mouseOn, finding, findLoading>>

\* a query puts the highlight on the first row
TypeQuery(q) ==
  /\ finding /\ FindStep /\ q # query
  /\ query' = q
  /\ highlight' = 0
  /\ UNCHANGED <<found, healthy, mouseOn, finding, findLoading>>

\* the status poll: rows change places under the highlight
StatusPoll(c) ==
  /\ finding /\ c \in found
  /\ healthy' = IF c \in healthy THEN healthy \ {c} ELSE healthy \cup {c}
  /\ UNCHANGED <<found, query, highlight, mouseOn, finding, findLoading, pickSteps>>

ArrowDown ==
  /\ finding /\ FindStep
  /\ highlight' = LET n == Len(RowsFound) IN IF highlight + 1 < n - 1 THEN highlight + 1 ELSE n - 1
  /\ mouseOn' = FALSE
  /\ UNCHANGED <<found, query, healthy, finding, findLoading>>

ArrowUp ==
  /\ finding /\ FindStep
  /\ highlight' = IF highlight > 0 THEN highlight - 1 ELSE 0
  /\ mouseOn' = FALSE
  /\ UNCHANGED <<found, query, healthy, finding, findLoading>>

\* after a key the mouse counts again once it has moved
MouseMoves ==
  /\ finding /\ ~mouseOn /\ mouseOn' = TRUE
  /\ UNCHANGED <<found, query, healthy, highlight, finding, findLoading, pickSteps>>

MouseEnters(i) ==
  /\ finding /\ FindStep /\ mouseOn /\ i < Len(RowsFound)
  /\ highlight' = i
  /\ UNCHANGED <<found, query, healthy, mouseOn, finding, findLoading>>

\* Enter, when a row is highlighted, or Escape: the modal closes
FindEnds ==
  /\ finding /\ FindStep /\ finding' = FALSE
  /\ UNCHANGED <<found, query, healthy, highlight, mouseOn, findLoading>>

FindNext ==
  /\ \/ FindLoads \/ FindFails \/ ArrowDown \/ ArrowUp \/ MouseMoves \/ FindEnds
     \/ \E q \in DOMAIN Matching : TypeQuery(q)
     \/ \E c \in AllPicks : StatusPoll(c)
     \/ \E cs \in SUBSET AllPicks : ClustersRefreshed(cs)
     \/ \E i \in 0..(Len(PickClusters) - 1) : MouseEnters(i)
  /\ UNCHANGED <<groupVars, pickMade>>

-----------------------------------------------------------------------------
(* Properties                                                              *)

\* Where the page draws a cluster: in the groups shown, or among those
\* without one (ClusterSelector's lists).
DrawnIn(c) == {g \in Range(shown.groups) : shown.byGroup[c] = g}
                \cup (IF shown.assignments[c] = 0 THEN {0} ELSE {})

\* With nothing under way, the groups, the clusters in them and the aliases
\* on the page are the backend's, and every cluster is drawn exactly once,
\* through drops that remove and then assign, reordering, deletion and
\* aliases (handleDrop, handleMoveGroup, handleDeleteGroup, loadData).
\* Excepted: a change or load failed, a change was served while a load was
\* reading, loads overlapped, or two aliases of one cluster were under way.
GroupsAreTheBackends ==
  (pickLoads = {} /\ pickOps = {} /\ ~unsound /\ ~pickLoading) =>
    /\ shown.groups = db.order /\ shown.byGroup = db.place
    /\ shown.assignments = db.place /\ shown.aliases = db.alias
    /\ \A c \in AllPicks : Cardinality(DrawnIn(c)) = 1

\* the rows drawn as selected
Marked == {i \in DOMAIN RowsFound : i - 1 = highlight}

\* Whenever Quick Find has rows, one is drawn as selected and Enter opens it,
\* after keys, queries, a refreshed list and status polls that reorder the
\* rows (selectedIndex and its clamp).  Excepted: ArrowDown on an empty list,
\* which leaves the index at -1.
HighlightIsARow == (RowsFound # <<>> /\ highlight # -1) => Cardinality(Marked) = 1

\* The cluster picker shows what the backend keeps and never highlights
\* past its rows.
PickerTellsTheTruth == GroupsAreTheBackends /\ HighlightIsARow
=============================================================================

------------------------------ MODULE Sidebar ------------------------------
(***************************************************************************)
(* The resource tree of a cluster and the counts beside its entries        *)
(* (frontend/src/store/resourceSlice.ts: loadTreeData, expandNode,         *)
(* toggleNodeExpansion; countRefetch.ts, keepKnownCounts.ts, and the       *)
(* pushed counts of components/TreeSidebar.tsx).                           *)
(*                                                                         *)
(* A category holds one resource.  Predefined categories are laid out at   *)
(* once and then counted; the others are listed first.  A count on screen  *)
(* is the number and the cluster it was read from.                         *)
(***************************************************************************)
EXTENDS Integers, FiniteSets

CONSTANTS
    SideClusters,
    Predefined,     \* categories of predefinedCategories
    Listed,         \* the others, whose resources are asked for first
    NoCount,
    MaxSideClicks,  \* bound on what the user does
    MaxCount        \* bound on the number of objects

ASSUME SideAssumption ==
    /\ SideClusters # {} /\ MaxCount \in Nat \ {0}
    /\ \A c \in SideClusters, n \in 0 .. MaxCount : [c |-> c, n |-> n] # NoCount

VARIABLES
    opened,     \* clusters with a tab
    front,      \* currentTab
    nodes,      \* cluster -> category -> its node in treeData
    expanded,   \* cluster -> expandedNodes
    loads,      \* runs of loadTreeData
    joined,     \* cluster -> is one of them in treeLoads?
    fetches,    \* requests for a category, and who asked
    retry,      \* countRefetch's pending: cluster -> category -> entry
    pushed,     \* pendingCountUpdates: category -> count
    pushTimer,  \* the 100 ms timer over them runs
    backend,    \* cluster -> number of objects, can it be read, is it served
    present,    \* the kind of category the trees of this run have
    lapsed,     \* (history) categories whose retry ended while collapsed
    sideClicks

sideVars == <<opened, front, nodes, expanded, loads, joined, fetches, retry,
              pushed, pushTimer, backend, present, lapsed, sideClicks>>
treeVars == <<nodes, expanded>>
worldVars == <<backend, present, sideClicks>>

Categories == Predefined \cup Listed

\* A resource may stop being served (its CRD is deleted).
\* A node: in the tree, expanded, with children, their count, disabled.
NoNode == [there |-> FALSE, exp |-> FALSE, kids |-> FALSE, count |-> NoCount, off |-> FALSE]
Count(c, n) == [c |-> c, n |-> n]
Fetch(c, k, what) == [c |-> c, k |-> k, what |-> what]

SideInit ==
    /\ front = CHOOSE c \in SideClusters : TRUE
    /\ opened = {front}
    /\ nodes = [c \in SideClusters |-> [k \in Categories |-> NoNode]]
    /\ present \in {Predefined, Listed}
    /\ \E e \in SUBSET present :     \* as restored, its tree being loaded
          /\ expanded = [c \in SideClusters |-> IF c = front THEN e ELSE {}]
          /\ loads = {[c |-> front, step |-> "cats", todo |-> e]}
    /\ joined = [c \in SideClusters |-> c = front]
    /\ fetches = {}
    /\ retry = [c \in SideClusters |-> [k \in Categories |-> "none"]]
    /\ pushed = [k \in Categories |-> NoCount] /\ pushTimer = FALSE
    /\ backend = [c \in SideClusters |-> [n |-> 1, up |-> TRUE, served |-> TRUE]]
    /\ lapsed = {}
    /\ sideClicks = 0

---------------------------------------------------------------------------
(* Laying out a category.                                                  *)

\* (mutation of KeepKnownCounts: the counts on screen go blank meanwhile)
KeepNoCounts(old, new, counted) == new
\* keepKnownCounts: old and new counts of one resource
KeepKnownCounts(old, new, counted) ==
    IF new # NoCount \/ counted THEN new ELSE old

\* updateTreeNode, under the expanded nodes es
Laid(node, k, es, new, counted) ==
    IF ~node.there THEN node
    ELSE [node EXCEPT !.kids = TRUE, !.exp = (k \in es),
                      !.count = KeepKnownCounts(node.count, new, counted)]

\* expandNode up to its first await, of a category: nodes and expandedNodes
\* after it, and the request that follows.
Placeholders(c, k) ==
    /\ IF c \in opened
       THEN LET es == expanded[c] \cup {k} IN
            /\ expanded' = [expanded EXCEPT ![c] = es]
            /\ nodes' = [nodes EXCEPT ![c][k] = Laid(@, k, es, NoCount, FALSE)]
       ELSE UNCHANGED treeVars
    /\ fetches' = fetches \cup {Fetch(c, k, "counts")}

\* A listed category is asked for first, for a click, a load or a retry.
ExpandNode(c, k, for) ==
    IF k \in Predefined THEN Placeholders(c, k)
    ELSE /\ fetches' = fetches \cup {Fetch(c, k, for)}
         /\ UNCHANGED treeVars

\* settleOrRefetchCounts
Settle(c, k, pending) ==
    retry' = [retry EXCEPT ![c][k] = IF pending THEN "timer" ELSE "none"]

---------------------------------------------------------------------------
(* What the user does.                                                     *)
SideClick ==
    /\ sideClicks < MaxSideClicks
    /\ sideClicks' = sideClicks + 1
    /\ UNCHANGED <<backend, present, pushed>>

\* toggleNodeExpansion, of the tree on screen
Toggled(k) ==
    /\ nodes' = [nodes EXCEPT ![front][k].exp = ~@]
    /\ expanded' = [expanded EXCEPT ![front] = IF k \in @ THEN @ \ {k} ELSE @ \cup {k}]

\* handleNodeClick of a category: expanding asks for one without children.
ClickNode(k) ==
    /\ SideClick
    /\ LET n == nodes[front][k] IN
       /\ n.there /\ ~n.off
       /\ IF ~n.exp /\ ~n.kids /\ k \in Predefined
          THEN Placeholders(front, k) /\ UNCHANGED lapsed
          ELSE /\ Toggled(k)
               /\ fetches' = IF ~n.exp /\ ~n.kids
                             THEN fetches \cup {Fetch(front, k, "click")} ELSE fetches
               /\ UNCHANGED lapsed
    /\ UNCHANGED <<opened, front, loads, joined, retry, pushTimer>>

\* loadTreeData without a tree: joins the load under way.
LoadTree(c) ==
    /\ loads' = IF joined[c] THEN loads ELSE loads \cup {[c |-> c, step |-> "cats", todo |-> expanded[c]]}
    /\ joined' = [joined EXCEPT ![c] = TRUE]

\* The sidebar's effects on a new currentTab: the tree is loaded, the counts
\* of the tab before are unsubscribed and their timer cleared.
ShowCluster(c) ==
    /\ SideClick
    /\ c \in opened
    /\ front' = c
    /\ LoadTree(c)
    /\ pushTimer' = IF c = front THEN pushTimer ELSE FALSE
    /\ UNCHANGED <<opened, nodes, expanded, fetches, retry, lapsed>>

\* forgetTreeLoad and loadTreeData, of retryCluster
RetryTree(c) ==
    /\ SideClick
    /\ c \in opened /\ Cardinality(loads) < 2
    /\ loads' = loads \cup {[c |-> c, step |-> "cats", todo |-> expanded[c]]}
    /\ joined' = [joined EXCEPT ![c] = TRUE]
    /\ UNCHANGED <<opened, front, nodes, expanded, fetches, retry, pushTimer, lapsed>>

\* closeTab and a later openTab of another cluster than the one on screen
CloseCluster(c) ==
    /\ SideClick
    /\ c \in opened \ {front}
    /\ opened' = opened \ {c}
    /\ nodes' = [nodes EXCEPT ![c] = [k \in Categories |-> NoNode]]
    /\ expanded' = [expanded EXCEPT ![c] = {}]
    /\ UNCHANGED <<front, loads, joined, fetches, retry, pushTimer, lapsed>>
OpenClusterTab(c) ==
    /\ SideClick
    /\ c \notin opened
    /\ opened' = opened \cup {c} /\ front' = c
    /\ LoadTree(c)
    /\ pushTimer' = FALSE
    /\ UNCHANGED <<nodes, expanded, fetches, retry, lapsed>>

---------------------------------------------------------------------------
(* loadTreeData.                                                           *)
EndLoad(l) ==
    /\ loads' = loads \ {l}
    /\ joined' = [joined EXCEPT ![l.c] = \E m \in loads \ {l} : m.c = l.c]

\* The categories arrive: the tree is laid out anew, the expanded categories
\* keeping their children, and the integrations are looked for.
Relaid(n, k, es) ==
    [NoNode EXCEPT !.there = (k \in present), !.exp = (k \in es), !.kids = (k \in es /\ n.kids),
                   !.count = IF k \in es /\ n.kids THEN n.count ELSE NoCount]

CategoriesArrive(l) ==
    /\ l.step = "cats"
    /\ IF l.c \in opened
       THEN /\ nodes' = [nodes EXCEPT ![l.c] =
                           [k \in Categories |-> Relaid(@[k], k, expanded[l.c])]]
            /\ fetches' = fetches \cup {Fetch(l.c, k, "detect") : k \in Listed \cap present}
       ELSE UNCHANGED <<nodes, fetches>>
    /\ loads' = (loads \ {l}) \cup {[l EXCEPT !.step = "expand"]}
    /\ UNCHANGED <<opened, front, expanded, joined, retry, pushed, pushTimer, lapsed, worldVars>>

CategoriesFail(l) ==
    /\ l.step = "cats" /\ ~backend[l.c].up
    /\ EndLoad(l)
    /\ UNCHANGED <<opened, front, nodes, expanded, fetches, retry, pushed, pushTimer,
                   lapsed, worldVars>>

\* setNodeDisabled: an integration that is not there, or cannot be read
Detected(f) ==
    /\ f.what = "detect"
    /\ nodes' = [nodes EXCEPT ![f.c][f.k].off =
                   nodes[f.c][f.k].there /\ ~(backend[f.c].up /\ backend[f.c].n > 0)]
    /\ fetches' = fetches \ {f}
    /\ UNCHANGED <<opened, front, expanded, loads, joined, retry, pushed, pushTimer,
                   lapsed, worldVars>>

\* One more of the categories that were expanded when the load began: those
\* without children are waited for, the others counted in the background.
ExpandNext(l, k) ==
    /\ l.step = "expand" /\ k \in l.todo
    /\ LET n == nodes[l.c][k]
           rest == [l EXCEPT !.todo = @ \ {k}]
       IN IF l.c \notin opened
          THEN EndLoad(l) /\ UNCHANGED <<nodes, expanded, fetches>>
          ELSE /\ UNCHANGED joined
               /\ IF ~n.there \/ n.off
                  THEN /\ loads' = (loads \ {l}) \cup {rest}
                       /\ UNCHANGED <<nodes, expanded, fetches>>
                  ELSE /\ ExpandNode(l.c, k, IF n.kids THEN "again" ELSE "load")
                       /\ loads' = (loads \ {l}) \cup
                             {IF k \in Listed /\ ~n.kids THEN [rest EXCEPT !.step = "wait"] ELSE rest}
    /\ UNCHANGED <<opened, front, retry, pushed, pushTimer, lapsed, worldVars>>

LoadDone(l) ==
    /\ l.step = "expand" /\ l.todo = {}
    /\ EndLoad(l)
    /\ UNCHANGED <<opened, front, nodes, expanded, fetches, retry, pushed, pushTimer,
                   lapsed, worldVars>>

---------------------------------------------------------------------------
(* expandNode after its awaits.                                            *)
Waiting(f) == {l \in loads : f.what = "load" /\ l.c = f.c /\ l.step = "wait"}

\* The resources of a listed category: laid out, the category expanded, and
\* then counted.
ResourcesArrive(f) ==
    /\ f.what \in {"click", "load", "again", "retry"} /\ backend[f.c].up
    /\ LET es == expanded[f.c] \cup {f.k} IN
       IF f.c \in opened
       THEN /\ expanded' = [expanded EXCEPT ![f.c] = es]
            /\ nodes' = [nodes EXCEPT ![f.c][f.k] = Laid(@, f.k, es, NoCount, FALSE)]
            /\ fetches' = (fetches \ {f}) \cup {Fetch(f.c, f.k, "counts")}
       ELSE fetches' = fetches \ {f} /\ UNCHANGED treeVars
    /\ loads' = (loads \ Waiting(f)) \cup {[l EXCEPT !.step = "expand"] : l \in Waiting(f)}
    /\ UNCHANGED <<opened, front, joined, retry, pushed, pushTimer, lapsed, worldVars>>

\* They cannot be read: only a retry asks again, and a load ends.
ResourcesFail(f) ==
    /\ f.what \in {"click", "load", "again", "retry"} /\ ~backend[f.c].up
    /\ fetches' = fetches \ {f}
    /\ IF f.what = "retry" THEN Settle(f.c, f.k, TRUE) ELSE UNCHANGED retry
    /\ loads' = loads \ Waiting(f)
    /\ joined' = [joined EXCEPT ![f.c] = \E m \in loads \ Waiting(f) : m.c = f.c]
    /\ UNCHANGED <<opened, front, nodes, expanded, pushed, pushTimer, lapsed, worldVars>>

\* The counts.  One the backend could not read is pending and keeps the
\* number on screen; one it will never have leaves none.
CountsArrive(f) ==
    /\ f.what = "counts"
    /\ LET b == backend[f.c]
           new == IF b.up /\ b.served THEN Count(f.c, b.n) ELSE NoCount
       IN /\ nodes' = IF f.c \notin opened THEN nodes
                      ELSE [nodes EXCEPT ![f.c][f.k] = Laid(@, f.k, expanded[f.c], new, b.up)]
          /\ IF f.c \in opened \/ f.k \in Predefined THEN Settle(f.c, f.k, ~b.up) ELSE UNCHANGED retry
    /\ fetches' = fetches \ {f}
    /\ UNCHANGED <<opened, front, expanded, loads, joined, pushed, pushTimer, lapsed, worldVars>>

\* The request itself fails.
CountsFail(f) ==
    /\ f.what = "counts" /\ ~backend[f.c].up
    /\ Settle(f.c, f.k, TRUE)
    /\ fetches' = fetches \ {f}
    /\ UNCHANGED <<opened, front, nodes, expanded, loads, joined, pushed, pushTimer,
                   lapsed, worldVars>>

\* fire: the timer, or credentials or the network came back (refetchNow,
\* which fires an entry whose run is still under way too).
FireRetry(c, k) ==
    /\ retry[c][k] # "none"
    /\ IF c \in opened /\ k \in expanded[c]
       THEN /\ retry' = [retry EXCEPT ![c][k] = "running"]
            /\ ExpandNode(c, k, "retry")
            /\ UNCHANGED lapsed
       ELSE /\ Settle(c, k, FALSE)
            /\ lapsed' = lapsed \cup {<<c, k>>}
            /\ UNCHANGED <<nodes, expanded, fetches>>
    /\ UNCHANGED <<opened, front, loads, joined, pushed, pushTimer, worldVars>>

---------------------------------------------------------------------------
(* Counts the backend pushes, for the cluster on screen, put together for  *)
(* 100 ms.  What a tab leaves behind waits for the next tab's.             *)
PushCount(k) ==
    /\ backend[front].up /\ backend[front].served
    /\ pushed' = [pushed EXCEPT ![k] = Count(front, backend[front].n)]
    /\ pushTimer' = TRUE
    /\ UNCHANGED <<opened, front, nodes, expanded, loads, joined, fetches, retry, lapsed, worldVars>>

WithPushed(n, k, es, count) ==
    IF ~n.there THEN n
    ELSE [n EXCEPT !.exp = n.exp \/ k \in es,
                   !.count = IF n.kids /\ count # NoCount THEN count ELSE n.count]

ApplyPushed ==
    /\ pushTimer
    /\ pushTimer' = FALSE
    /\ pushed' = [k \in Categories |-> NoCount]
    /\ nodes' = [nodes EXCEPT ![front] = [k \in Categories |->
                    WithPushed(@[k], k, expanded[front], pushed[k])]]
    /\ UNCHANGED <<opened, front, expanded, loads, joined, fetches, retry, lapsed, worldVars>>

---------------------------------------------------------------------------
(* The cluster.                                                            *)
ChangeBackend(c) ==
    /\ \E b \in [n : 0..MaxCount, up : BOOLEAN, served : BOOLEAN] :
          /\ b # backend[c] /\ (b.served => backend[c].served)
          /\ backend' = [backend EXCEPT ![c] = b]
    /\ sideClicks < MaxSideClicks
    /\ sideClicks' = sideClicks + 1
    /\ UNCHANGED <<opened, front, nodes, expanded, loads, joined, fetches, retry, pushed,
                   pushTimer, present, lapsed>>

SideNext ==
    \/ \E k \in present : ClickNode(k) \/ PushCount(k)
    \/ \E c \in SideClusters : \/ ShowCluster(c) \/ RetryTree(c) \/ CloseCluster(c)
                               \/ OpenClusterTab(c) \/ ChangeBackend(c)
    \/ \E l \in loads : \/ CategoriesArrive(l) \/ CategoriesFail(l) \/ LoadDone(l)
                        \/ \E k \in l.todo : ExpandNext(l, k)
    \/ \E f \in fetches : \/ Detected(f) \/ ResourcesArrive(f) \/ ResourcesFail(f)
                          \/ CountsArrive(f) \/ CountsFail(f)
    \/ \E c \in SideClusters, k \in Categories : FireRetry(c, k)
    \/ ApplyPushed

SideSpec == SideInit /\ [][SideNext]_sideVars

---------------------------------------------------------------------------
(* A number beside a resource goes blank only when the backend says it has *)
(* none: not while the category is laid out again or a count is pending    *)
(* (keepKnownCounts).                                                      *)
KnownCountsStay ==
    \A c \in SideClusters, k \in Categories :
       LET n == nodes[c][k]
           m == nodes'[c][k]
       IN n.kids /\ m.kids /\ n.count # NoCount /\ m.count = NoCount
             => backend[c].up /\ ~backend[c].served

(* A category that stayed expanded and has no number, though it may, is    *)
(* being asked for or will be, whatever failed (settleOrRefetchCounts,     *)
(* countRefetch.ts).                                                       *)
PendingIsRetried ==
    \A c \in SideClusters, k \in Categories :
        LET n == nodes[c][k] IN
        n.kids /\ k \in expanded[c] /\ n.count = NoCount /\ <<c, k>> \notin lapsed =>
            \/ \E f \in fetches : f.c = c /\ f.k = k /\ f.what # "detect"
            \/ retry[c][k] = "timer"
            \/ ~backend[c].served \/ c \notin opened

(* The node and expandedNodes agree on whether a category is expanded,     *)
(* however clicks, loads and answers interleave (toggleNodeExpansion flips *)
(* each on its own, updateTreeNode writes one from the other).             *)
ExpansionAgrees ==
    \A c \in opened, k \in Categories :
        nodes[c][k].there => (nodes[c][k].exp <=> k \in expanded[c])

(* All three: what the tree shows of a category is what is known of it.     *)
TreeIsTrue == [][KnownCountsStay /\ PendingIsRetried' /\ ExpansionAgrees']_sideVars
=============================================================================

------------------------------ MODULE Topology ------------------------------
(***************************************************************************)
(* The Topology tab (components/topology).                                 *)
(*                                                                         *)
(* GraphNext: the graph around one resource (useTopologyGraph.ts): loads,  *)
(* expansions and the 5 s refresh of everything expanded, merged into what *)
(* is known (graphModel.ts).  The cluster changes meanwhile.               *)
(* DrawNext: what is drawn of a namespace's graph under the filters: pod   *)
(* groups, folded ReplicaSets, application lanes, satellites under their   *)
(* host (graphModel.ts, appModel.ts, layout.ts).                           *)
(* PageNext: where the page looks, its history and its "Go to" field       *)
(* (TopologyPage.tsx, topoLocation.ts, ResourcePicker.tsx).                *)
(*                                                                         *)
(* Edges are undirected in GraphNext, where only adjacency matters.  The   *)
(* geometry of the canvas, health colours and the summary's text are left  *)
(* out.                                                                    *)
(***************************************************************************)
EXTENDS Integers, Sequences, SequencesExt, FiniteSets, FiniteSetsExt

CONSTANTS
  \* the graph around a resource
  Things,          \* resources
  Links,           \* pairs {a, b} that are related while both exist
  IdleThings,      \* ReplicaSets scaled to zero
  FocusThing,
  MaxWorldChanges, MaxTopoRequests, MaxTopoClicks,
  \* the drawing
  DrawSeq,         \* nodes [id, kind, owner, app] in order of their ids
  DrawLinks,       \* edges <<source, relation, target>>
  MaxSats,         \* SAT_MAX_ROWS
  \* the page
  Places,          \* locations; the first request goes to one of them
  GoTerms,         \* terms of the "Go to" field, "" is too short
  MaxPageMoves

ASSUME TopologyAssumption ==
  /\ FocusThing \in Things \ IdleThings
  /\ \A l \in Links : l \subseteq Things /\ Cardinality(l) = 2
  /\ MaxSats \in Nat \ {0, 1}

VARIABLES
  world, wver,   \* the resources that exist; how often that has changed
  known,         \* [nodes, edges] the page has learned
  opened,        \* expanded
  focusSet,      \* focusId is known
  withIdle,      \* includeIdle
  gen, reqs,     \* generation; requests [n, gen, kind, ids, got]
  loading, failed,  \* loading, error
  upToDate,      \* ghost: all that is expanded was read since the last change
  topoClicks, topoMade
VARIABLES
  \* the drawing
  there,         \* ids of the namespace's nodes
  hiddenFams, eachPod, ungrouped, showUnused
VARIABLES
  \* the page
  hist,          \* [past, present, future]
  goTerm, goRows,    \* the term typed; the term the rows found answer, "" for none
  goFlights,     \* searches [st, q], waiting 160 ms or sent
  searching, pageMoves

graphVars == <<world, wver, known, opened, focusSet, withIdle, gen, reqs, loading, failed,
               upToDate, topoMade>>
drawVars == <<there, hiddenFams, eachPod, ungrouped, showUnused>>
pageVars == <<hist, goTerm, goRows, goFlights, searching, pageMoves>>
topoVars == <<graphVars, drawVars, pageVars, topoClicks>>

-----------------------------------------------------------------------------
(* What is known                                                           *)

\* neighbors (topology/service.go): the resource, those one hop away and the
\* edges between them; a resource that is gone is answered on its own
NeighborsOf(id, idle) ==
  LET seen == {t \in world : {id, t} \in Links /\ (idle \/ t \notin IdleThings)} \cup {id} IN
  IF id \in world THEN [nodes |-> seen, edges |-> {l \in Links : l \subseteq seen}]
  ELSE [nodes |-> {id}, edges |-> {}]

MergeKeepingEdges(k, g, id) ==
  [nodes |-> k.nodes \cup g.nodes, edges |-> k.edges \cup g.edges]

\* mergeGraph, authoritative for one resource
MergeGraph(k, g, id) ==
  LET edges == {l \in k.edges : id \notin l \/ l \in g.edges} \cup g.edges
      touched == UNION edges
  IN [nodes |-> {t \in k.nodes \cup g.nodes : t \in g.nodes \/ t \in touched \/ t = id},
      edges |-> edges]

\* visibleFromFocus: what expanded resources lead to from the focus
Reach(edges, nodes, open) ==
  LET Step(seen, k) == seen \cup {t \in nodes : \E o \in seen \cap open : {o, t} \in edges} IN
  FoldLeft(Step, {FocusThing}, [k \in 1..Cardinality(Things) |-> k])

Visible == IF focusSet THEN Reach(known.edges, known.nodes, opened) ELSE {}

NothingKnown == [nodes |-> {}, edges |-> {}]
NoAnswer == [v |-> -1, nodes |-> {}, edges |-> {}]
Failure == [v |-> -2, nodes |-> {}, edges |-> {}]

Request(kind, ids) ==
  [n |-> topoMade, gen |-> gen, kind |-> kind, ids |-> ids, idle |-> withIdle,
   got |-> [i \in ids |-> NoAnswer]]

GraphInit ==
  /\ world = Things /\ wver = 0
  /\ known = NothingKnown /\ opened = {} /\ focusSet = FALSE /\ withIdle = FALSE
  /\ gen = 1 /\ topoMade = 1
  /\ reqs = {[n |-> 0, gen |-> 1, kind |-> "load", ids |-> {FocusThing}, idle |-> FALSE,
              got |-> [i \in {FocusThing} |-> NoAnswer]]}
  /\ loading = TRUE /\ failed = FALSE /\ upToDate = FALSE

TopoClick == topoClicks < MaxTopoClicks /\ topoClicks' = topoClicks + 1

\* the effect on [cluster, modeKey, includeIdle]: everything is read again
ToggleIdle ==
  /\ TopoClick /\ topoMade < MaxTopoRequests
  /\ withIdle' = ~withIdle /\ gen' = gen + 1
  /\ known' = NothingKnown /\ opened' = {}
  /\ loading' = TRUE /\ failed' = FALSE /\ upToDate' = FALSE
  /\ reqs' = {r \in reqs : r.kind # "load"} \cup
             {[Request("load", {FocusThing}) EXCEPT !.gen = gen + 1, !.idle = ~withIdle]}
  /\ topoMade' = topoMade + 1
  /\ UNCHANGED <<world, wver, focusSet>>

\* cards with a "+"
Expandable == (Visible \cap known.nodes) \ opened

\* what the view shows
Body == CASE known.nodes = {} /\ loading -> "loading"
          [] known.nodes = {} /\ ~loading /\ failed -> "error"
          [] OTHER -> IF Visible \cap known.nodes = {} THEN "empty" ELSE "graph"

\* the "+" of a card, or "Expand all": one request for each card to expand
Expand(ids) ==
  /\ TopoClick /\ topoMade < MaxTopoRequests
  /\ ids # {} /\ ids \subseteq Expandable
  /\ reqs' = reqs \cup {Request("expand", {i}) : i \in ids}
  /\ topoMade' = topoMade + 1
  /\ UNCHANGED <<world, wver, known, opened, focusSet, withIdle, gen, loading, failed, upToDate>>

Collapse(id) ==
  /\ TopoClick /\ id \in opened \cap Visible
  /\ opened' = opened \ {id}
  /\ UNCHANGED <<world, wver, known, focusSet, withIdle, gen, reqs, loading, failed,
                 upToDate, topoMade>>

\* the interval, or "Try again": everything expanded that is known
RefreshGraph ==
  /\ topoMade < MaxTopoRequests
  /\ ~\E r \in reqs : r.kind = "refresh" /\ \A i \in r.ids : r.got[i] = NoAnswer
  /\ reqs' = reqs \cup {Request("refresh", opened \cap known.nodes)}
  /\ topoMade' = topoMade + 1
  /\ UNCHANGED <<world, wver, known, opened, focusSet, withIdle, gen, loading, failed,
                 upToDate, topoClicks>>

WorldChanges(t) ==
  /\ wver < MaxWorldChanges /\ wver' = wver + 1
  /\ world' = IF t \in world THEN world \ {t} ELSE world \cup {t}
  /\ upToDate' = FALSE
  /\ UNCHANGED <<known, opened, focusSet, withIdle, gen, reqs, loading, failed,
                 topoClicks, topoMade>>

Replied(r, i, a) ==
  /\ r.got[i] = NoAnswer
  /\ reqs' = (reqs \ {r}) \cup {[r EXCEPT !.got[i] = a]}
  /\ UNCHANGED <<world, wver, known, opened, focusSet, withIdle, gen, loading, failed,
                 upToDate, topoClicks, topoMade>>

Replies(r, i) ==
  LET g == NeighborsOf(i, r.idle) IN
  Replied(r, i, [v |-> wver, nodes |-> g.nodes, edges |-> g.edges])
ReplyFails(r, i) == topoMade < MaxTopoRequests /\ Replied(r, i, Failure)

\* answers of an earlier generation are dropped
OfThisView(r) == r.gen = gen
AnsweredWell(r) == {i \in r.ids : r.got[i].v >= 0}

\* a request has all its answers
Lands(r) ==
  /\ \A i \in r.ids : r.got[i] # NoAnswer
  /\ reqs' = reqs \ {r}
  /\ UNCHANGED <<world, wver, withIdle, gen, topoClicks, topoMade>>

GivenUp(r) ==
  /\ Lands(r) /\ ~OfThisView(r)
  /\ UNCHANGED <<known, opened, focusSet, loading, failed, upToDate>>

LoadLands(r) ==
  /\ Lands(r) /\ OfThisView(r) /\ r.kind = "load"
  /\ loading' = FALSE
  /\ IF AnsweredWell(r) = {}
     THEN failed' = TRUE /\ UNCHANGED <<known, opened, focusSet, upToDate>>
     ELSE /\ known' = [nodes |-> r.got[FocusThing].nodes, edges |-> r.got[FocusThing].edges]
          /\ opened' = {FocusThing} /\ focusSet' = TRUE
          /\ upToDate' = (r.got[FocusThing].v = wver)
          /\ UNCHANGED failed

ExpandLands(r) ==
  /\ Lands(r) /\ OfThisView(r) /\ r.kind = "expand"
  /\ UNCHANGED <<focusSet, loading>>
  /\ IF AnsweredWell(r) = {}
     THEN failed' = TRUE /\ UNCHANGED <<known, opened, upToDate>>
     ELSE \E i \in r.ids :
          /\ known' = MergeGraph(known, r.got[i], i)
          /\ opened' = opened \cup {i}
          /\ upToDate' = (/\ upToDate /\ r.got[i].v = wver
                          /\ opened \cap (known'.nodes \ known.nodes) \subseteq {i})
          /\ UNCHANGED failed

\* a failed part is left out; the error is cleared
RefreshLands(r) ==
  /\ Lands(r) /\ OfThisView(r) /\ r.kind = "refresh"
  /\ known' = FoldLeft(LAMBDA k, i : MergeGraph(k, r.got[i], i), known, SetToSeq(AnsweredWell(r)))
  /\ failed' = FALSE
  /\ upToDate' = (/\ \A i \in AnsweredWell(r) : r.got[i].v = wver
                  /\ opened \cap known'.nodes \subseteq AnsweredWell(r))
  /\ UNCHANGED <<opened, focusSet, loading>>

GraphNext ==
  \/ ToggleIdle \/ RefreshGraph
  \/ \E i \in Things : Expand({i}) \/ Collapse(i) \/ WorldChanges(i)
  \/ Expand(Expandable)
  \/ \E r \in reqs : \/ GivenUp(r) \/ LoadLands(r) \/ ExpandLands(r) \/ RefreshLands(r)
                     \/ \E i \in r.ids : Replies(r, i) \/ ReplyFails(r, i)

-----------------------------------------------------------------------------
(* What is drawn                                                           *)

NodeIds == {n.id : n \in Range(DrawSeq)}
NodeOf(id) == CHOOSE n \in Range(DrawSeq) : n.id = id
KindOf(id) == NodeOf(id).kind

Satellites == {"ConfigMap", "HorizontalPodAutoscaler"}
Hosts == {"Deployment", "ReplicaSet", "Pod"}
SatOutgoing == {"scales", "protects", "applies-to"}
FamilyOf(kind) == IF kind \in {"Gateway", "HTTPRoute", "Service"} THEN "network"
                  ELSE IF kind = "Pod" THEN "pods"
                  ELSE IF kind = "ConfigMap" THEN "config"
                  ELSE IF kind = "HorizontalPodAutoscaler" THEN "policy" ELSE "workloads"
Families == {FamilyOf(n.kind) : n \in Range(DrawSeq)}

EdgesThere == {e \in DrawLinks : e[1] \in there /\ e[3] \in there}

\* unreferencedConfig
Unused == {i \in there : /\ KindOf(i) \in Satellites
                         /\ ~\E e \in EdgesThere : i \in {e[1], e[3]}}

\* buildView: the nodes that no filter hides
Shown == {i \in there : /\ FamilyOf(KindOf(i)) \notin hiddenFams
                        /\ showUnused \/ i \notin Unused}

\* pods of one owner, drawn as a group from two on
Siblings(shown, o) == {i \in shown : KindOf(i) = "Pod" /\ NodeOf(i).owner = o}
Grouped(shown) == {o \in shown \ ungrouped : ~eachPod /\ Cardinality(Siblings(shown, o)) >= 2}

\* foldReplicaSets: the only ReplicaSet of a Deployment is drawn as the Deployment
SetsOf(shown, d) == {i \in shown : KindOf(i) = "ReplicaSet" /\ NodeOf(i).owner = d}
Folded(shown) ==
  UNION {SetsOf(shown, d) : d \in {x \in shown : KindOf(x) = "Deployment" /\ Cardinality(SetsOf(shown, x)) = 1}}

\* drawnAs: the node that draws each resource; a group is <<owner, "group">>
DrawnAs ==
  LET shown == Shown
      groups == Grouped(shown)
      folded == Folded(shown)
  IN [i \in shown |-> IF KindOf(i) = "Pod" /\ NodeOf(i).owner \in groups THEN <<NodeOf(i).owner, "group">>
                      ELSE IF i \in folded THEN <<NodeOf(i).owner, "node">> ELSE <<i, "node">>]
DrawnKind(v) == IF v[2] = "group" THEN "Pod" ELSE KindOf(v[1])

\* edges between different drawn nodes
ViewEdges(as) == {<<as[e[1]], e[2], as[e[3]]>> :
  e \in {x \in EdgesThere : {x[1], x[3]} \subseteq DOMAIN as /\ as[x[1]] # as[x[3]]}}

\* the drawn nodes in order
DrawnSeq(as) ==
  LET ids == [k \in DOMAIN DrawSeq |-> DrawSeq[k].id]
      cards == SelectSeq(ids, LAMBDA i : <<i, "node">> \in Range(as))
      groups == SelectSeq(ids, LAMBDA i : <<i, "group">> \in Range(as))
  IN [k \in DOMAIN cards |-> <<cards[k], "node">>] \o [k \in DOMAIN groups |-> <<groups[k], "group">>]

\* ownerChain and topOwner: itself, then its owners that are there
OwnerChain(i) ==
  LET o == NodeOf(i).owner
      oo == IF o \in there THEN NodeOf(o).owner ELSE ""
  IN <<i>> \o (IF o \in there THEN <<o>> ELSE <<>>) \o (IF oo \in there THEN <<oo>> ELSE <<>>)

\* step 1: its own application, that of its top owner, or its top owner
OwnLane(v) ==
  LET n == NodeOf(v[1])
      top == NodeOf(Last(OwnerChain(n.id)))
  IN IF n.app # "" THEN n.app
     ELSE IF n.kind \notin Hosts THEN ""
     ELSE IF top.app # "" THEN top.app ELSE top.id
FirstLanes(drawn) ==
  [v \in drawn |-> IF DrawnKind(v) \in Satellites /\ NodeOf(v[1]).app = "" THEN "" ELSE OwnLane(v)]

\* the first lane among some nodes, in order
FirstNode(seq, lanes, vs) ==
  LET in == SelectSeq(seq, LAMBDA v : v \in vs /\ lanes[v] # "") IN
  IF in = <<>> THEN "" ELSE lanes[Head(in)]

\* step 2: an entry point follows what it leads to, three passes in order
DrawPasses == 3
FollowedLanes(seq, edges) ==
  LET Follow(lanes, v) ==
        IF lanes[v] # "" \/ DrawnKind(v) \in Satellites THEN lanes
        ELSE [lanes EXCEPT ![v] =
               FirstNode(seq, lanes, {e[3] : e \in {x \in edges : x[1] = v /\ x[2] # "runs-on"}})]
  IN FoldLeft(Follow, FirstLanes(Range(seq)), FlattenSeq([k \in 1..DrawPasses |-> seq]))

\* step 3: a satellite hangs under the workload using it, the top of its owners
HostRank(v) == CASE DrawnKind(v) = "Pod" -> 2 [] DrawnKind(v) = "ReplicaSet" -> 1 [] OTHER -> 0
TopDrawn(as, i) ==
  LET chain == SelectSeq(Reverse(OwnerChain(i)), LAMBDA o : o \in DOMAIN as /\ KindOf(o) \in Hosts) IN
  IF chain = <<>> THEN as[i] ELSE as[Head(chain)]
Users(i) == {e[1] : e \in {x \in EdgesThere : x[3] = i /\ x[2] \notin SatOutgoing}}
              \cup {e[3] : e \in {x \in EdgesThere : x[1] = i /\ x[2] \in SatOutgoing}}
NoHost == <<"", "none">>
HostOf(as, seq, v) ==
  LET users == {u \in Users(v[1]) \cap DOMAIN as : KindOf(u) \in Hosts}
      cand == {TopDrawn(as, IF as[u][2] = "group" THEN NodeOf(u).owner ELSE u) : u \in users}
      best == SelectSeq(seq, LAMBDA c : c \in cand /\ \A d \in cand : HostRank(c) <= HostRank(d))
  IN IF DrawnKind(v) \notin Satellites \/ cand = {} THEN NoHost ELSE Head(best)

\* a satellite rides with its host; what only something points at joins that
LaneMap(seq, edges, followed, host) ==
  LET rides == [v \in Range(seq) |->
                  IF host[v] # NoHost /\ followed[host[v]] # "" THEN followed[host[v]] ELSE followed[v]]
      Join(lanes, v) ==
        IF lanes[v] # "" THEN lanes
        ELSE [lanes EXCEPT ![v] = FirstNode(seq, lanes, {e[1] : e \in {x \in edges : x[3] = v}})]
  IN FoldLeft(Join, rides, seq)

\* pruneEdges: none into a satellite, and no "selects" beside an "exposes"
KeptEdges(edges, host) ==
  {e \in edges :
     /\ host[e[1]] = NoHost /\ host[e[3]] = NoHost
     /\ e[2] = "selects" =>
          ~\E x \in edges : /\ x[1] = e[1] /\ x[2] = "exposes"
                            /\ x[3][1] \in Range(OwnerChain(e[3][1]))}

\* buildAppView: a satellite in another lane than its host leaves it
AppView ==
  LET Stays(v, wants, lanes) == wants[v] # NoHost /\ lanes[wants[v]] = lanes[v]
      Hosted(as, seq, edges, followed, lanes, host) ==
        [as |-> as, seq |-> seq, edges |-> edges, followed |-> followed, lanes |-> lanes,
         host |-> host, kept |-> KeptEdges(edges, host)]
      Laned(as, seq, edges, followed, wants, lanes) ==
        Hosted(as, seq, edges, followed, lanes,
               [v \in Range(seq) |-> IF Stays(v, wants, lanes) THEN wants[v] ELSE NoHost])
      Followed(as, seq, edges, followed, wants) ==
        Laned(as, seq, edges, followed, wants, LaneMap(seq, edges, followed, wants))
      Drawn(as, seq, edges) ==
        Followed(as, seq, edges, FollowedLanes(seq, edges), [v \in Range(seq) |-> HostOf(as, seq, v)])
      View(as) == Drawn(as, DrawnSeq(as), ViewEdges(as))
  IN View(DrawnAs)

\* buildLayoutInput: a host shows MaxSats satellites, or one fewer and a
\* "+N more" chip
SatsOf(V, h) == SelectSeq(V.seq, LAMBDA v : V.host[v] = h)
SatsShown(V, h) == LET s == SatsOf(V, h) IN IF Len(s) > MaxSats THEN SubSeq(s, 1, MaxSats - 1) ELSE s
Overflow(V, h) == Len(SatsOf(V, h)) - Len(SatsShown(V, h))
Boxes(V) == {v \in Range(V.seq) : V.host[v] = NoHost}
Placed(V) == Boxes(V) \cup UNION {Range(SatsShown(V, h)) : h \in Boxes(V)}

\* the canvas draws every node of the view: one without a place at (0, 0)
OnCanvas(V) == Range(V.seq)

DrawInit ==
  /\ there \in SUBSET NodeIds
  /\ hiddenFams = {} /\ eachPod = FALSE /\ ungrouped = {} /\ showUnused = FALSE

ToggleFamily(f) ==
  /\ TopoClick
  /\ hiddenFams' = IF f \in hiddenFams THEN hiddenFams \ {f} ELSE hiddenFams \cup {f}
  /\ UNCHANGED <<there, eachPod, ungrouped, showUnused>>
ResetFilters ==
  /\ TopoClick /\ Shown = {} /\ there # {} /\ hiddenFams' = {}
  /\ UNCHANGED <<there, eachPod, ungrouped, showUnused>>
ToggleEachPod ==
  /\ TopoClick /\ eachPod' = ~eachPod
  /\ ungrouped' = IF eachPod THEN {} ELSE ungrouped
  /\ UNCHANGED <<there, hiddenFams, showUnused>>
Ungroup(o) ==
  /\ TopoClick /\ <<o, "group">> \in Range(DrawnAs) /\ ungrouped' = ungrouped \cup {o}
  /\ UNCHANGED <<there, hiddenFams, eachPod, showUnused>>
ToggleUnused ==
  /\ TopoClick /\ showUnused' = ~showUnused
  /\ UNCHANGED <<there, hiddenFams, eachPod, ungrouped>>

DrawNext == \/ ResetFilters \/ ToggleEachPod \/ ToggleUnused
            \/ \E f \in Families : ToggleFamily(f)
            \/ \E o \in NodeIds : Ungroup(o)

-----------------------------------------------------------------------------
(* Where the page looks                                                    *)

Goes(h, to) == IF to = h.present THEN h
               ELSE [past |-> Append(h.past, h.present), present |-> to, future |-> <<>>]
GoesBack(h) == IF h.past = <<>> THEN h
               ELSE [past |-> Front(h.past), present |-> Last(h.past), future |-> <<h.present>> \o h.future]
GoesForward(h) == IF h.future = <<>> THEN h
                  ELSE [past |-> Append(h.past, h.present), present |-> Head(h.future), future |-> Tail(h.future)]

PageMove == pageMoves < MaxPageMoves /\ pageMoves' = pageMoves + 1

PageInit == /\ \E l \in Places : hist = [past |-> <<>>, present |-> l, future |-> <<>>]
            /\ goTerm = "" /\ goRows = "" /\ goFlights = {} /\ searching = FALSE
            /\ pageMoves = 0

\* a crumb, the view switch, a card, a picked row, a request of the inspector
\* or the palette
Go(l) == PageMove /\ hist' = Goes(hist, l) /\ UNCHANGED <<goTerm, goRows, goFlights, searching>>
Back == PageMove /\ hist' = GoesBack(hist) /\ UNCHANGED <<goTerm, goRows, goFlights, searching>>
Forward == PageMove /\ hist' = GoesForward(hist) /\ UNCHANGED <<goTerm, goRows, goFlights, searching>>
\* "Resource": the newest resource looked at before
GoToResource ==
  /\ PageMove /\ UNCHANGED <<goTerm, goRows, goFlights, searching>>
  /\ LET before == SelectSeq(hist.past, LAMBDA l : l.view = "focus") IN
     /\ hist.present.view # "focus" /\ before # <<>>
     /\ hist' = Goes(hist, Last(before))

\* the effect on the term: what was under way is aborted
Aborted(flights) == {}
Typing(q) ==
  /\ PageMove /\ q # goTerm
  /\ goTerm' = q
  /\ goFlights' = Aborted(goFlights) \cup (IF q = "" THEN {} ELSE {[st |-> "wait", q |-> q]})
  /\ goRows' = IF q = "" THEN "" ELSE goRows
  /\ searching' = (q # "")
  /\ UNCHANGED hist
GoSends(f) ==
  /\ f.st = "wait"
  /\ goFlights' = (goFlights \ {f}) \cup {[f EXCEPT !.st = "sent"]}
  /\ UNCHANGED <<hist, goTerm, goRows, searching, pageMoves>>
GoAnswered(f, ok) ==
  /\ f.st = "sent" /\ goFlights' = goFlights \ {f}
  /\ searching' = FALSE
  /\ goRows' = IF ok THEN f.q ELSE ""
  /\ UNCHANGED <<hist, goTerm, pageMoves>>

PageNext == \/ Back \/ Forward \/ GoToResource
            \/ \E l \in Places : Go(l)
            \/ \E q \in GoTerms : Typing(q)
            \/ \E f \in goFlights : GoSends(f) \/ \E ok \in BOOLEAN : GoAnswered(f, ok)

-----------------------------------------------------------------------------
(* Properties                                                              *)

\* Once everything expanded has been read since the cluster last changed,
\* the graph shows exactly what the expanded resources lead to in the cluster,
\* through expansions, collapses, refreshes and "Old revisions" switched while
\* requests are under way (mergeGraph's authoritative edges, generation).
\* Excepted: the focus itself has gone from the cluster.
GraphIsCurrent ==
  (upToDate /\ focusSet /\ FocusThing \in known.nodes) =>
    LET alive == {t \in world : withIdle \/ t \notin IdleThings}
        links == {l \in Links : l \subseteq alive}
        Of(edges) == {l \in edges : l \subseteq Visible /\ l \cap opened # {}}
    IN /\ Visible = Reach(links, alive, opened) /\ Body = "graph"
       /\ Of(known.edges) = Of(links)

\* Under every filter the application view accounts for each resource once:
\* what draws a folded ReplicaSet or a pod is itself drawn, an entry point is
\* in the lane of what it leads to however long the chain from its Gateway,
\* a satellite is in its host's lane and placed under it or counted by its
\* "+N more", and a "selects" line is dropped only where "exposes" is drawn.
DrawingIsWhole == there # {} => \A V \in {AppView} :
  /\ \A i \in DOMAIN V.as : LET v == V.as[i] IN v[2] = "node" => V.as[v[1]] = v
  /\ \A e \in V.edges : (/\ e[2] # "runs-on" /\ DrawnKind(e[1]) \notin Satellites
                         /\ V.followed[e[3]] # "") => V.followed[e[1]] # ""
  /\ \A v \in Range(V.seq) : V.host[v] # NoHost =>
       /\ V.host[v] \in Boxes(V) /\ V.lanes[V.host[v]] = V.lanes[v]
  /\ Cardinality(Range(V.seq) \ Placed(V)) = FoldSet(LAMBDA h, n : n + Overflow(V, h), 0, Boxes(V))
  /\ \A e \in V.edges \ V.kept :
       \/ {e[1], e[3]} \cap Boxes(V) # {e[1], e[3]}
       \/ \E x \in V.kept : x[1] = e[1] /\ x[2] = "exposes"

\* Satellites past the limit are only counted by the chip, never drawn too
\* (layout.ts: "drawn as a '+N' chip").
\* No run claims it: the code does not keep it (README, Disagreements).
ChipStandsForTheRest == LET V == AppView IN OnCanvas(V) = Placed(V)

\* Back and Forward always lead somewhere else, and rows found in the "Go to"
\* field answer the term typed, but while it searches (topoLocation.navigate,
\* ResourcePicker's abort).
PageIsHonest ==
  /\ LET all == hist.past \o <<hist.present>> \o hist.future IN
     \A k \in 1..(Len(all) - 1) : all[k] # all[k + 1]
  /\ ~searching => goRows \in {"", goTerm}

\* The topology tab as a whole.
TopologyIsTrue == GraphIsCurrent /\ DrawingIsWhole /\ PageIsHonest
=============================================================================

----------------------------- MODULE DetailTabs -----------------------------
(***************************************************************************)
(* The detail tabs of the user interface                                   *)
(* (frontend/src/store/detailTabSlice.ts, applyLoadedDetails.ts, the       *)
(* detail loaders of resourceSlice.ts, restoreDetailTabs of                *)
(* restoreWorkspace.ts): which object each tab shows, and how the answers  *)
(* of requests that outlive the click that made them find their tab.       *)
(*                                                                         *)
(* An object is a name in a cluster; what tells an object from one deleted *)
(* and created again under its name is its uid.  The copy of an object a   *)
(* tab holds is the cluster it was read from, the object, its uid (0: not  *)
(* known) and the uid its events were asked for (0: none, or by name).     *)
(***************************************************************************)
EXTENDS Integers, FiniteSets, Sequences, SequencesExt

CONSTANTS
    DetClusters, Objects,
    NoItem,        \* no object, and no tab
    Doomed,        \* the objects, <<cluster, object>>, that may be deleted
    Saved,         \* the one whose tab the reopened workspace has
    MaxClicks,     \* bound on what the user does
    MaxRequests    \* bound on the requests in flight

VARIABLES
    dtabs,    \* cluster -> its detail tabs, in order
    panel,    \* cluster -> active tab, detailData, is a row selected?
    shown,    \* the cluster tab on screen
    world,    \* cluster -> object -> its uid, 0 when it does not exist
    reqs,     \* requests in flight
    clicks

detailVars == <<dtabs, panel, shown, world, reqs, clicks>>

Item(c, o, u, ev) == [c |-> c, o |-> o, u |-> u, ev |-> ev]
PreviewId == [pinned |-> FALSE, o |-> NoItem]
PinnedId(o) == [pinned |-> TRUE, o |-> o]
DetailTab(id, item) ==
    [id |-> id, item |-> item, pin |-> id.pinned, center |-> FALSE,
     full |-> TRUE, del |-> FALSE, rec |-> FALSE]

\* A request: what for, the object and uid asked about, the tab it was made
\* for, and once answered the uid found (0: not found).
Request(k, c, o, u) ==
    [k |-> k, c |-> c, o |-> o, u |-> u, id |-> PreviewId, done |-> FALSE, got |-> 0]
Ask(rs) == /\ Cardinality(reqs \cup rs) <= MaxRequests
           /\ reqs' = reqs \cup rs

\* A workspace reopened on a preview tab of the first cluster, of which only
\* the reference was saved.
Reopened(c, o) ==
    [DetailTab(PreviewId, Item(c, o, 0, 0)) EXCEPT !.full = FALSE]

DetailInit ==
    /\ LET c == Saved[1]
           o == Saved[2]
       IN /\ dtabs = [d \in DetClusters |-> IF d = c THEN <<Reopened(c, o)>> ELSE <<>>]
          /\ panel = [d \in DetClusters |->
                        IF d = c THEN [act |-> PreviewId, data |-> NoItem, sel |-> FALSE]
                        ELSE [act |-> NoItem, data |-> NoItem, sel |-> FALSE]]
          /\ shown = c
          /\ reqs = {Request("restore", c, o, 0)}
    /\ world = [c \in DetClusters |-> [o \in Objects |-> 1]]
    /\ clicks = 0

---------------------------------------------------------------------------
(* Tabs.                                                                   *)
IndexesOf(ts, P(_)) == {i \in DOMAIN ts : P(ts[i])}
First(ts, P(_)) == Min(IndexesOf(ts, P))
Has(ts, P(_)) == IndexesOf(ts, P) # {}
ItemOf(ts, id) == ts[First(ts, LAMBDA t : t.id = id)].item
Mapped(ts, P(_), f(_)) == [i \in DOMAIN ts |-> IF P(ts[i]) THEN f(ts[i]) ELSE ts[i]]
Pinned(ts) == SelectSeq(ts, LAMBDA t : t.pin)
Previews(ts) == SelectSeq(ts, LAMBDA t : ~t.pin)

\* openDetailTab: the tab of the object is shown again, a preview of it
\* becoming a pinned tab under an id of its own; otherwise a new tab takes
\* the place of the preview, or joins the pinned ones.
OpenDetailTab(c, item, pin) ==
    LET ts == dtabs[c]
        match(t) == t.item.o = item.o /\ ~t.center /\ (pin \/ ~t.pin)
        old == ts[First(ts, match)]
        id == IF pin /\ ~old.pin THEN PinnedId(item.o) ELSE old.id
        again(t) == [t EXCEPT !.id = id, !.item = item, !.pin = pin \/ t.pin, !.rec = FALSE,
                              !.full = TRUE]
        preview(t) == ~t.pin /\ ~t.center
        new == DetailTab(IF pin THEN PinnedId(item.o) ELSE PreviewId, item)
        rest == IF Has(ts, preview) THEN RemoveAt(ts, First(ts, preview)) ELSE ts
    IN IF Has(ts, match)
       THEN [ts |-> Mapped(ts, LAMBDA t : t.id = old.id, again), act |-> id]
       ELSE [ts |-> IF pin THEN Previews(ts) \o <<new>> \o Pinned(ts) ELSE <<new>> \o rest,
             act |-> new.id]

\* closeDetailTab: the tab that takes its place becomes active.
CloseDetailTab(c, id) ==
    LET ts == dtabs[c]
        rest == SelectSeq(ts, LAMBDA t : t.id # id)
        at == First(ts, LAMBDA t : t.id = id)
        next == rest[IF at <= Len(rest) THEN at ELSE Len(rest)]
        p == panel[c]
    IN /\ dtabs' = [dtabs EXCEPT ![c] = rest]
       /\ panel' = [panel EXCEPT ![c] =
             LET act == IF p.act # id THEN p.act
                        ELSE IF rest = <<>> THEN NoItem ELSE next.id
             IN [p EXCEPT !.act = act,
                          !.data = IF act = NoItem \/ ~Has(rest, LAMBDA t : t.id = act)
                                   THEN NoItem ELSE ItemOf(rest, act)]]

\* pinDetailTab
PinDetailTab(c, id) ==
    LET ts == dtabs[c]
        t == ts[First(ts, LAMBDA s : s.id = id)]
        new == [t EXCEPT !.id = PinnedId(t.item.o), !.pin = TRUE]
        rest == SelectSeq(ts, LAMBDA s : s.id # id)
    IN /\ dtabs' = [dtabs EXCEPT ![c] = Previews(rest) \o <<new>> \o Pinned(rest)]
       /\ panel' = [panel EXCEPT ![c].act = IF @ = id THEN new.id ELSE @]

---------------------------------------------------------------------------
(* Answers finding their tabs (applyLoadedDetails.ts).                     *)

\* freshTab: a tab keeps its events unless its object was created again.
FreshTab(t, item) ==
    LET recreated == t.item.u # 0 /\ item.u # 0 /\ t.item.u # item.u IN
    [t EXCEPT !.item = IF recreated THEN item ELSE [item EXCEPT !.ev = t.item.ev],
              !.full = TRUE, !.del = FALSE, !.rec = @ \/ recreated]

\* applyDetailsToTabs, of the cluster the answer is for
ApplyDetails(c, item, reveal) ==
    LET p == panel[c]
        mine(t) == t.item.o = item.o
        ts == Mapped(dtabs[c], mine, LAMBDA t : FreshTab(t, item))
        active == p.act # NoItem /\ Has(dtabs[c], LAMBDA t : t.id = p.act /\ mine(t))
    IN [ts |-> ts,
        data |-> IF active THEN ItemOf(ts, p.act)
                 ELSE IF reveal /\ p.act = NoItem THEN item ELSE p.data,
        changed |-> Has(dtabs[c], mine) \/ (reveal /\ p.act = NoItem)]

\* applyLoadedDetails: dropped when the details were left meanwhile.
\* (mutation of LeftMeanwhile: an answer is shown wherever the user is)
NeverLeft(c) == FALSE
LeftMeanwhile(c) == panel[c].act = NoItem /\ ~panel[c].sel

\* applyEventsToTabs
SameIncarnation(u, v) == u = 0 \/ v = 0 \/ u = v

GetsEvents(item, o, u) == item.o = o /\ SameIncarnation(item.u, u)

ApplyEvents(c, o, u, ev) ==
    LET p == panel[c]
        mine(t) == GetsEvents(t.item, o, u)
        ts == Mapped(dtabs[c], mine, LAMBDA t : [t EXCEPT !.item.ev = ev])
        active == p.act # NoItem /\ Has(ts, LAMBDA t : t.id = p.act /\ mine(t))
    IN /\ dtabs' = [dtabs EXCEPT ![c] = ts]
       /\ panel' = [panel EXCEPT ![c].data =
             IF active THEN ItemOf(ts, p.act)
             ELSE IF p.data # NoItem /\ GetsEvents(p.data, o, u)
                  THEN [p.data EXCEPT !.ev = ev] ELSE p.data]

Put(c, x) ==
    /\ dtabs' = [dtabs EXCEPT ![c] = x.ts]
    /\ panel' = [panel EXCEPT ![c].data = x.data]

\* markDetailsDeleted
MarkDeleted(c, o) ==
    /\ dtabs' = [dtabs EXCEPT ![c] =
                   Mapped(@, LAMBDA t : t.item.o = o, LAMBDA t : [t EXCEPT !.del = TRUE])]
    /\ UNCHANGED panel

---------------------------------------------------------------------------
(* What the user does, on the cluster tab on screen.                       *)
Click ==
    /\ clicks < MaxClicks
    /\ clicks' = clicks + 1
    /\ UNCHANGED world

\* handleItemOpen: a row of the list, whose load ends the one before.
OpenRow(o, pin) ==
    /\ Click
    /\ LET c == shown
           item == Item(c, o, world[c][o], 0)
           x == OpenDetailTab(c, item, pin)
           aborted == {r \in reqs : r.k \in {"load", "loadEvents"}}
       IN /\ world[c][o] # 0
          /\ dtabs' = [dtabs EXCEPT ![c] = x.ts]
          /\ panel' = [panel EXCEPT ![c] = [act |-> x.act, data |-> item, sel |-> TRUE]]
          /\ reqs' = (reqs \ aborted) \cup {Request("load", c, o, item.u)}
    /\ UNCHANGED shown

\* ResourceLink and the pages: a reference without a uid, and no abort.
OpenLink(c, o) ==
    /\ Click
    /\ LET item == Item(c, o, 0, 0)
           x == OpenDetailTab(c, item, FALSE)
       IN /\ dtabs' = [dtabs EXCEPT ![c] = x.ts]
          /\ panel' = [panel EXCEPT ![c].act = x.act, ![c].data = item]
          /\ Ask({Request("link", c, o, 0)})
    /\ shown' = c

CloseTabOf ==
    /\ Click
    /\ \E i \in DOMAIN dtabs[shown] : CloseDetailTab(shown, dtabs[shown][i].id)
    /\ UNCHANGED <<shown, reqs>>

SetActiveDetailTab ==
    /\ Click
    /\ \E i \in DOMAIN dtabs[shown] :
          LET id == dtabs[shown][i].id IN
          /\ id # panel[shown].act
          /\ panel' = [panel EXCEPT ![shown].act = id,
                                    ![shown].data = ItemOf(dtabs[shown], id)]
    /\ UNCHANGED <<dtabs, shown, reqs>>

PinTab ==
    /\ Click
    /\ \E i \in DOMAIN dtabs[shown] :
          /\ ~dtabs[shown][i].pin
          /\ PinDetailTab(shown, dtabs[shown][i].id)
    /\ UNCHANGED <<shown, reqs>>

\* moveDetailTab, to the centre and back
MoveDetailTab ==
    /\ Click
    /\ \E i \in DOMAIN dtabs[shown] :
          dtabs' = [dtabs EXCEPT ![shown] =
             Mapped(@, LAMBDA t : t.id = dtabs[shown][i].id,
                    LAMBDA t : [t EXCEPT !.center = ~@])]
    /\ UNCHANGED <<panel, shown, reqs>>

\* restoreNavigationState of a page or a list without a row
LeaveDetails ==
    /\ Click
    /\ panel' = [panel EXCEPT ![shown] = [act |-> NoItem, data |-> NoItem, sel |-> FALSE]]
    /\ UNCHANGED <<dtabs, shown, reqs>>

SwitchCluster(c) ==
    /\ c # shown
    /\ Click
    /\ shown' = c
    /\ UNCHANGED <<dtabs, panel, reqs>>

\* refreshDetails of DetailView, while the panel shows a tab
Refresh ==
    /\ panel[shown].act # NoItem
    /\ Has(dtabs[shown], LAMBDA t : t.id = panel[shown].act)
    /\ Ask({Request("refresh", shown, ItemOf(dtabs[shown], panel[shown].act).o, 0)})
    /\ UNCHANGED <<dtabs, panel, shown, world, clicks>>

---------------------------------------------------------------------------
(* The cluster.                                                            *)
DeleteObject(c, o) ==
    /\ <<c, o>> \in Doomed /\ world[c][o] = 1
    /\ world' = [world EXCEPT ![c][o] = 0]
    /\ UNCHANGED <<dtabs, panel, shown, reqs, clicks>>

RecreateObject(c, o) ==
    /\ world[c][o] = 0
    /\ world' = [world EXCEPT ![c][o] = 2]
    /\ UNCHANGED <<dtabs, panel, shown, reqs, clicks>>

\* The backend answers; the answer is on its way.
ServeDetails(r) ==
    /\ ~r.done
    /\ reqs' = (reqs \ {r}) \cup {[r EXCEPT !.done = TRUE, !.got = world[r.c][r.o]]}
    /\ UNCHANGED <<dtabs, panel, shown, world, clicks>>

\* The live list brings a new copy of the object (updateDetailData).
UpdateDetailData(c, o) ==
    /\ world[c][o] # 0
    /\ Put(c, ApplyDetails(c, Item(c, o, world[c][o], 0), FALSE))
    /\ UNCHANGED <<shown, world, reqs, clicks>>

---------------------------------------------------------------------------
(* Answers arriving.                                                       *)
Arrived(r, k) ==
    /\ r.done /\ r.k \in k
    /\ UNCHANGED <<shown, world, clicks>>
Drop(r) == reqs' = reqs \ {r}
Then(r, new) == reqs' = (reqs \ {r}) \cup {new}
EventsRequest(r, k) == [Request(k, r.c, r.o, r.got) EXCEPT !.done = TRUE]

\* loadDetails.  The events asked for alongside are those of the row's uid;
\* of an object created again since, those of its new uid are asked for.
LoadAnswered(r) ==
    /\ Arrived(r, {"load", "link"})
    /\ LET c == r.c
           x == ApplyDetails(c, Item(r.c, r.o, r.got, 0), TRUE)
           asked == IF r.u # 0 /\ r.u # r.got THEN r.got ELSE r.u
           k == IF r.k = "load" THEN "loadEvents" ELSE "events"
       IN \/ /\ r.got = 0
             /\ MarkDeleted(c, r.o) /\ Drop(r)
          \/ /\ r.got # 0 /\ (LeftMeanwhile(c) \/ ~x.changed)
             /\ Drop(r) /\ UNCHANGED <<dtabs, panel>>
          \/ /\ r.got # 0 /\ ~LeftMeanwhile(c) /\ x.changed
             /\ Put(c, x)
             /\ Then(r, [EventsRequest(r, k) EXCEPT !.got = asked])

RefreshAnswered(r) ==
    /\ Arrived(r, {"refresh"})
    /\ IF r.got = 0 THEN MarkDeleted(r.c, r.o) /\ Drop(r)
       ELSE /\ Put(r.c, ApplyDetails(r.c, Item(r.c, r.o, r.got, 0), FALSE))
            /\ Then(r, [EventsRequest(r, "events") EXCEPT !.got = r.got])

EventsAnswered(r) ==
    /\ Arrived(r, {"events", "loadEvents"})
    /\ ApplyEvents(r.c, r.o, r.u, r.got)
    /\ Drop(r)

\* restoreDetailTabs: the tab of that id, if it still shows the object and
\* has no copy of it.  A 404 marks the tab of that id.

StillWaits(t, r) == t.id = r.id /\ t.item.o = r.o /\ ~t.full

RestoreAnswered(r) ==
    /\ Arrived(r, {"restore"})
    /\ LET ts == dtabs[r.c]
           item == Item(r.c, r.o, r.got, 0)
           fill == Mapped(ts, LAMBDA t : t.id = r.id,
                          LAMBDA t : [t EXCEPT !.item = item, !.full = TRUE])
       IN IF r.got = 0
          THEN /\ dtabs' = [dtabs EXCEPT ![r.c] = Mapped(@, LAMBDA t : t.id = r.id,
                              LAMBDA t : [t EXCEPT !.del = TRUE])]
               /\ UNCHANGED panel
          ELSE IF Has(ts, LAMBDA t : t.id = r.id)
                  /\ StillWaits(ts[First(ts, LAMBDA t : t.id = r.id)], r)
          THEN /\ dtabs' = [dtabs EXCEPT ![r.c] = fill]
               /\ panel' = [panel EXCEPT ![r.c].data = IF panel[r.c].act = r.id THEN item ELSE @]
          ELSE UNCHANGED <<dtabs, panel>>
    /\ Drop(r)

---------------------------------------------------------------------------
DetailNext ==
    \/ \E o \in Objects, pin \in BOOLEAN : OpenRow(o, pin)
    \/ \E c \in DetClusters, o \in Objects :
          \/ OpenLink(c, o) \/ DeleteObject(c, o) \/ RecreateObject(c, o)
          \/ UpdateDetailData(c, o)
    \/ CloseTabOf \/ SetActiveDetailTab \/ PinTab \/ MoveDetailTab \/ LeaveDetails
    \/ \E c \in DetClusters : SwitchCluster(c)
    \/ Refresh
    \/ \E r \in reqs : \/ ServeDetails(r) \/ LoadAnswered(r) \/ RefreshAnswered(r)
                       \/ EventsAnswered(r) \/ RestoreAnswered(r)

DetailSpec == DetailInit /\ [][DetailNext]_detailVars

---------------------------------------------------------------------------
(* No answer, however late and in whatever order it arrives, opens or      *)
(* closes a tab or changes which object, of which cluster, one shows: that *)
(* is the user's alone (applyDetailsToTabs, restoreDetailTabs).            *)
AnswersKeepTabs ==
    clicks' = clicks =>
      \A c \in DetClusters :
         /\ Len(dtabs'[c]) = Len(dtabs[c])
         /\ \A i \in DOMAIN dtabs[c] :
               LET s == dtabs[c][i]
                   t == dtabs'[c][i]
               IN <<t.id, t.item.c, t.item.o>> = <<s.id, s.item.c, s.item.o>>

(* A tab that knows the uid of its object is never given the events of     *)
(* another incarnation, nor keeps those of the one before when it becomes  *)
(* the tab of the next (applyEventsToTabs, freshTab).                      *)
EventsMatchObject ==
    \A c \in DetClusters : Len(dtabs[c]) = Len(dtabs'[c]) =>
      \A i \in DOMAIN dtabs[c] :
         LET s == dtabs[c][i].item
             t == dtabs'[c][i].item
         IN s.o = t.o /\ s.u # 0 /\ <<s.u, s.ev>> # <<t.u, t.ev>>
               => t.ev = 0 \/ t.u \in {0, t.ev}

(* detailData is the copy the active tab holds, and nothing once the       *)
(* details were left: no late answer brings another object into the panel  *)
(* (detailData of the slices, applyLoadedDetails).                         *)
DataFollowsTab ==
    \A c \in DetClusters :
        LET p == panel[c] IN
        /\ p.act # NoItem /\ p.data # NoItem =>
              \E i \in DOMAIN dtabs[c] : dtabs[c][i].id = p.act /\ dtabs[c][i].item = p.data
        /\ p.act = NoItem /\ ~p.sel => p.data = NoItem

(* The three together: no interleaving of clicks, pushes and answers puts   *)
(* one object's state into another's tab.                                   *)
DetailsStayTrue ==
    [][AnswersKeepTabs /\ EventsMatchObject /\ DataFollowsTab']_detailVars
=============================================================================

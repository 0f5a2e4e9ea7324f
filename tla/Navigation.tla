----------------------------- MODULE Navigation -----------------------------
(***************************************************************************)
(* Back and forward (frontend/src/store/navigationSlice.ts, with the       *)
(* history the backend keeps, backend/internal/api/navigation_service.go): *)
(* visits and moves through the history are queued, the request of one is  *)
(* answered before the next begins, and a place is restored over several   *)
(* awaits, given up when the user goes elsewhere meanwhile.                *)
(*                                                                         *)
(* A place is a page, list or row of a cluster.                            *)
(***************************************************************************)
EXTENDS Integers, FiniteSets, Sequences

CONSTANTS
    NavClusters, NavPages,
    Overview,      \* the page a cluster opens on
    NoPlace,
    MaxMoves,      \* bound on what the user does
    MaxEntries     \* maxEntries of the history service

VARIABLES
    place,     \* cluster -> the page shown in its tab, NoPlace when not open
    on,        \* the cluster tab on screen
    queue,     \* pending: what is enqueued, in order
    op,        \* the one being run, NoPlace when none
    hist,      \* the history service: entries and index
    known,     \* currentEntry: where the client believes the history is
    revision,
    going,     \* restores under way
    asked,     \* (history) the last place recorded; NoPlace after a move
    wanted,    \* (history) the last place the user went to; NoPlace after a move
    moves

navVars == <<place, on, queue, op, hist, known, revision, going, asked, wanted, moves>>

Place(c, p) == [c |-> c, p |-> p]
Shown == Place(on, place[on])
OpenTabs == {c \in NavClusters : place[c] # NoPlace}

NavInit ==
    LET c == CHOOSE c \in NavClusters : TRUE
        here == Place(c, Overview)
    IN /\ place = [d \in NavClusters |-> IF d = c THEN Overview ELSE NoPlace]
       /\ on = c
       /\ queue = <<>> /\ op = NoPlace
       /\ hist = [at |-> 1, list |-> <<here>>]
       /\ known = here
       /\ revision = 0
       /\ going = {}
       /\ asked = here /\ wanted = here
       /\ moves = 0

Move ==
    /\ moves < MaxMoves
    /\ moves' = moves + 1

---------------------------------------------------------------------------
(* recordNavigation: one more visit, enqueued; whatever is being restored  *)
(* is given up.                                                            *)
Visit(e) == [do |-> "add", e |-> e, at |-> 0]

\* (mutation of Visits: a visit of where the history is believed to be now)
VisitsElsewhere(es) ==
    LET new == SelectSeq(es, LAMBDA e : e # known) IN [i \in DOMAIN new |-> Visit(new[i])]
Visits(es) == [i \in DOMAIN es |-> Visit(es[i])]

RecordNavigation(es) ==
    /\ queue' = queue \o Visits(es)
    /\ revision' = revision + Len(es)
    /\ asked' = es[Len(es)]

\* The user opens a page of the cluster on screen.
OpenPage(p) ==
    /\ Move /\ p # place[on]
    /\ place' = [place EXCEPT ![on] = p]
    /\ wanted' = Place(on, p)
    /\ RecordNavigation(<<Place(on, p)>>)
    /\ UNCHANGED <<on, op, hist, known, going>>

\* setCurrentTab: the place left and the place come to are both recorded.
SwitchTab(c) ==
    /\ Move /\ c \in OpenTabs \ {on}
    /\ on' = c
    /\ wanted' = Place(c, place[c])
    /\ RecordNavigation(<<Shown, Place(c, place[c])>>)
    /\ UNCHANGED <<place, op, hist, known, going>>

\* openTab of a cluster that is not open
OpenCluster(c) ==
    /\ Move /\ c \notin OpenTabs
    /\ on' = c
    /\ place' = [place EXCEPT ![c] = Overview]
    /\ wanted' = Place(c, Overview)
    /\ RecordNavigation(<<Shown, Place(c, Overview)>>)
    /\ UNCHANGED <<op, hist, known, going>>

\* closeTab of the tab on screen: nothing is recorded.
CloseShownTab(c) ==
    /\ Move /\ c \in OpenTabs \ {on}
    /\ place' = [place EXCEPT ![on] = NoPlace]
    /\ on' = c
    /\ wanted' = Place(c, place[c])
    /\ UNCHANGED <<queue, op, hist, known, revision, going, asked>>

\* navigate: enqueued, with the revision read when it is run.
Navigate(dir) ==
    /\ Move
    /\ queue' = Append(queue, [do |-> dir, e |-> NoPlace, at |-> 0])
    /\ asked' = NoPlace /\ wanted' = NoPlace
    /\ UNCHANGED <<place, on, op, hist, known, revision, going>>

---------------------------------------------------------------------------
(* The queue and the service.                                              *)

RunNext ==
    /\ queue # <<>> /\ op = NoPlace /\ \A r \in going : ~r.nav
    /\ queue' = Tail(queue)
    /\ op' = IF Head(queue).do = "add" /\ Head(queue).e = known THEN NoPlace
             ELSE [Head(queue) EXCEPT !.at = revision]
    /\ UNCHANGED <<place, on, hist, known, revision, going, asked, wanted, moves>>

\* AddEntry, of the service: what lay ahead is cut off, the oldest dropped.
AddEntry(e) ==
    LET kept == Append(SubSeq(hist.list, 1, hist.at), e)
        list == IF Len(kept) > MaxEntries THEN Tail(kept) ELSE kept
    IN [list |-> list, at |-> Len(list)]

Added ==
    /\ op # NoPlace /\ op.do = "add"
    /\ hist' = AddEntry(op.e)
    /\ known' = op.e
    /\ op' = NoPlace
    /\ UNCHANGED <<place, on, queue, revision, going, asked, wanted, moves>>

\* NavigateBack, NavigateForward
Neighbour == hist.at + (IF op.do = "back" THEN -1 ELSE 1)

\* restoreNavigationState begins: the cluster's tab is opened, and then the
\* rest waits for its tree, or is shown, and the place with it.
Restoring(e, nav, step) ==
    [e |-> e, nav |-> nav, at |-> revision + 1, step |-> step]
Restore(e, nav) ==
    /\ revision' = revision + 1
    /\ on' = e.c
    /\ IF place[e.c] = NoPlace
       THEN /\ place' = [place EXCEPT ![e.c] = Overview]
            /\ going' = going \cup {Restoring(e, nav, "opening")}
       ELSE /\ place' = [place EXCEPT ![e.c] = e.p]
            /\ going' = going \cup {Restoring(e, nav, "shown")}

Undisturbed == revision = op.at

\* navigate, answered
Navigated ==
    /\ op # NoPlace /\ op.do \in {"back", "forward"}
    /\ op' = NoPlace
    /\ IF Neighbour \notin DOMAIN hist.list
       THEN UNCHANGED <<place, on, hist, known, revision, going>>
       ELSE LET e == hist.list[Neighbour] IN
               /\ hist' = [hist EXCEPT !.at = Neighbour]
               /\ known' = e
               /\ IF Undisturbed THEN Restore(e, TRUE)
                  ELSE UNCHANGED <<place, on, revision, going>>
    /\ UNCHANGED <<queue, asked, wanted, moves>>

\* The request fails.
NavigateFails ==
    /\ op # NoPlace
    /\ op' = NoPlace
    /\ asked' = IF queue = <<>> THEN NoPlace ELSE asked
    /\ UNCHANGED <<place, on, queue, hist, known, revision, going, wanted, moves>>

\* useNavigationLink: restored directly, then recorded.
FollowLink(e) ==
    /\ Move /\ e.c = on /\ e.p # place[on]
    /\ wanted' = e
    /\ Restore(e, FALSE)
    /\ UNCHANGED <<queue, op, hist, known, asked>>

---------------------------------------------------------------------------
(* restoreNavigationState after each of its awaits.                        *)
GivenUp(r) == revision # r.at
Recorded(r) ==
    IF r.nav THEN UNCHANGED <<queue, revision, asked>>
    ELSE RecordNavigation(<<[r.e EXCEPT !.c = on]>>)

\* The tree of the cluster opened for it is there.
RestoreOpened(r) ==
    /\ r.step = "opening"
    /\ IF GivenUp(r) \/ place[r.e.c] = NoPlace
       THEN going' = going \ {r} /\ UNCHANGED <<place, on>>
       ELSE /\ place' = [place EXCEPT ![r.e.c] = r.e.p]
            /\ on' = r.e.c
            /\ going' = (going \ {r}) \cup {[r EXCEPT !.step = "shown"]}
    /\ UNCHANGED <<queue, op, hist, known, revision, asked, wanted, moves>>

StillThere(r) == on = r.e.c /\ ~GivenUp(r)

\* The list is there: its row is selected, its details opened.
RestoreEnds(r) ==
    /\ r.step = "shown"
    /\ going' = going \ {r}
    /\ place' = IF StillThere(r) /\ place[on] # NoPlace
                THEN [place EXCEPT ![on] = r.e.p] ELSE place
    /\ Recorded(r)
    /\ UNCHANGED <<on, op, hist, known, wanted, moves>>

---------------------------------------------------------------------------
NavNext ==
    \/ \E p \in NavPages : OpenPage(p) \/ FollowLink(Place(on, p))
    \/ \E c \in NavClusters : SwitchTab(c) \/ OpenCluster(c) \/ CloseShownTab(c)
    \/ Navigate("back") \/ Navigate("forward")
    \/ RunNext \/ Added \/ Navigated \/ NavigateFails
    \/ \E r \in going : RestoreOpened(r) \/ RestoreEnds(r)

NavSpec == NavInit /\ [][NavNext]_navVars

---------------------------------------------------------------------------
Idle == queue = <<>> /\ op = NoPlace /\ going = {}

(* The client knows where the history stands, and once nothing is queued   *)
(* or under way that is the place recorded last, in the order of the calls *)
(* and not in that of the answers (enqueue, recordNavigation, navigate).   *)
HistoryFollowsCalls ==
    /\ known = hist.list[hist.at]
    /\ Idle => asked \in {known, NoPlace}

(* A step of the navigation that is not the user's changes what is on      *)
(* screen only for the last thing that was recorded or restored: what the  *)
(* user went to while an answer was awaited stays (isCurrent, revision).   *)
LateAnswersStayAway ==
    moves' = moves /\ Shown' # Shown =>
      \/ op # NoPlace /\ revision = op.at
      \/ \E r \in going : r.at = revision /\ r.e = Shown'

(* "Preserve click order even when HTTP requests finish out of order"      *)
(* (navigationSlice.ts:21): once all is done, the screen shows the place   *)
(* the user went to last, if that is the last thing the user did.          *)
(* No run claims it: the code does not keep it (README, Disagreements).     *)
LastClickShown == Idle => wanted \in {Shown, NoPlace}

(* Both: the history is the order of the calls, the screen the user's.      *)
NavigationIsInOrder == [][HistoryFollowsCalls' /\ LateAnswersStayAway]_navVars
=============================================================================

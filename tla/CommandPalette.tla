--------------------------- MODULE CommandPalette ---------------------------
(***************************************************************************)
(* The command palette (frontend/src/components/CommandPalette.tsx):       *)
(* what is typed and the debounced search it starts, the cluster list it   *)
(* may show instead, the rows and the highlight, and what a picked row or  *)
(* its quick action does to the cluster tabs over several awaits.          *)
(*                                                                         *)
(* A query is the form it is read as and its term; a row is the object it  *)
(* names and the section it is painted in.  Names, scores and commands     *)
(* that only open a page are left out.                                     *)
(***************************************************************************)
EXTENDS Integers, FiniteSets, Sequences, SequencesExt

CONSTANTS
    PalClusters, PalKinds,
    Terms,          \* what may be typed after the form; "" is too short to search
    SearchAnswers,        \* what a search may find: sequences of rows
    MaxKeys,        \* bound on what the user does
    MaxSearches     \* bound on the searches

VARIABLES
    pal,        \* the palette's state
    debounce,   \* searchTimeoutRef: the search to be performed, NoSearch when none
    latest,     \* createLatestRequest: the current search's number, 0 when none
    searches,   \* searches not yet answered
    listings,   \* getClusters calls of primeClusterSwitch not yet answered
    rows,       \* results, and what filled them
    app,        \* the cluster tab on screen and each tab's selected node
    picks,      \* picked rows still being opened
    acted,      \* (history) what quick actions acted on, and for which row
    started, keys

palVars == <<pal, debounce, latest, searches, listings, rows, app, picks, acted, started, keys>>

Forms == {"text", "maybe", "question", "topology", "switch", "reach", "command"}
Query(form, term) == [form |-> form, term |-> term]
Blank == Query("text", "")
NoSearch == [q |-> Blank, in |-> {"(none)"}]
NoRows == [of |-> "none", n |-> 0, list |-> <<>>]

\* handleInputChange's list of a command form
Offered(of) == [of |-> of, n |-> 0, list |-> <<[id |-> of, sec |-> 2, cl |-> "", kind |-> of]>>]

Closed0 == [open |-> FALSE, q |-> Blank, recent |-> TRUE, sel |-> 0, cat |-> 0,
            in |-> {}, clusterMode |-> FALSE, topology |-> FALSE]

PalInit ==
    /\ pal = Closed0
    /\ debounce = NoSearch /\ latest = 0 /\ searches = {} /\ listings = 0
    /\ rows = NoRows
    /\ \E c \in PalClusters : app = [tab |-> c, rev |-> 0,
                                     node |-> [d \in PalClusters |-> "(none)"]]
    /\ picks = {} /\ acted = {} /\ started = 0 /\ keys = 0

Key == keys < MaxKeys /\ keys' = keys + 1

Loading == latest # 0

---------------------------------------------------------------------------
(* The rows as painted, and the highlight.                                 *)
AskPos(p, r) ==
    CASE p.clusterMode \/ p.q.form \in {"switch", "topology", "command"} -> "no"
      [] p.q.form = "reach" -> "last"
      [] p.q.form = "question" /\ p.q.term # "" -> "first"
      [] p.q.form = "maybe" /\ p.q.term # "" -> "after"
      [] OTHER -> "no"

Section(p, r, s) == SelectSeq(r.list, LAMBDA x : x.sec = s /\ (s = 0 \/ p.cat \in {0, s}))
Sections(p, r) == {s \in 0 .. 2 : Section(p, r, s) # <<>>}
AskRow == [id |-> "ask", sec |-> 3, cl |-> "", kind |-> "ask"]

\* navItems: recent rows, else the kinds, then each section.
NavItems(p, r) ==
    LET first == IF Sections(p, r) = {} THEN <<>>
                 ELSE Section(p, r, CHOOSE s \in Sections(p, r) : \A t \in Sections(p, r) : s <= t)
        ordered == Section(p, r, 0) \o Section(p, r, 1) \o Section(p, r, 2)
    IN CASE p.recent /\ AskPos(p, r) = "no" -> <<>>
         [] AskPos(p, r) = "first" -> <<AskRow>> \o ordered
         [] AskPos(p, r) = "last" -> Append(ordered, AskRow)
         [] AskPos(p, r) = "after" ->
                first \o <<AskRow>> \o SubSeq(ordered, Len(first) + 1, Len(ordered))
         [] OTHER -> ordered

\* The highlight kept on a row when the list got shorter.
Kept(p, r) ==
    LET n == Len(NavItems(p, r)) IN
    [p EXCEPT !.sel = IF n = 0 THEN 0 ELSE IF @ >= n THEN n - 1 ELSE @]

Show(p, r) == pal' = Kept(p, r) /\ rows' = r

PaletteDown ==
    /\ Key /\ pal.open /\ pal.sel + 1 < Len(NavItems(pal, rows))
    /\ pal' = [pal EXCEPT !.sel = @ + 1]
    /\ UNCHANGED <<debounce, latest, searches, listings, rows, app, picks, acted, started>>

ChooseCategory(s) ==
    /\ Key /\ pal.open /\ rows.list # <<>> /\ s # pal.cat
    /\ Show([pal EXCEPT !.cat = s, !.sel = 0], rows)
    /\ UNCHANGED <<debounce, latest, searches, listings, app, picks, acted, started>>

---------------------------------------------------------------------------
(* Opening and closing.                                                    *)
OpenPalette ==
    /\ Key /\ ~pal.open
    /\ pal' = [pal EXCEPT !.open = TRUE, !.in = {app.tab}]
    /\ UNCHANGED <<debounce, latest, searches, listings, rows, app, picks, acted, started>>

\* onClose and the effect that resets the palette; clusterMode and the chosen
\* clusters stay as they are.
Closes(p) ==
    /\ pal' = [Closed0 EXCEPT !.in = p.in, !.clusterMode = p.clusterMode]
    /\ debounce' = NoSearch
    /\ latest' = 0
    /\ rows' = NoRows

Escape ==
    /\ Key /\ pal.open
    /\ Closes(pal)
    /\ UNCHANGED <<searches, listings, app, picks, acted, started>>

---------------------------------------------------------------------------
(* Typing and searching.                                                   *)

\* performSearch: an empty query clears; any other becomes the latest search.
Perform(p, q, in) ==
    IF q = Blank
    THEN /\ latest' = 0
         /\ Show([p EXCEPT !.recent = TRUE], NoRows)
         /\ UNCHANGED <<searches, started>>
    ELSE /\ started < MaxSearches
         /\ started' = started + 1
         /\ latest' = started'
         /\ searches' = searches \cup {[n |-> started', q |-> q, in |-> in]}
         /\ Show([p EXCEPT !.recent = FALSE], rows)

\* handleInputChange
Type(form, term) ==
    LET q == Query(form, term)
        p == [pal EXCEPT !.q = q,
                         !.clusterMode = IF form = "reach" THEN @ ELSE form = "switch",
                         !.topology = IF form = "switch" THEN @ ELSE form = "topology"]
        waits == form \in {"text", "maybe", "question", "topology"} /\ term # ""
    IN /\ Key /\ pal.open /\ q # pal.q
       /\ debounce' = IF waits THEN [q |-> q, in |-> pal.in] ELSE NoSearch
       /\ IF waits THEN /\ Show(p, rows)
                        /\ UNCHANGED latest
          ELSE /\ latest' = 0
               /\ IF form \in {"switch", "reach", "command"}
                  THEN Show([p EXCEPT !.recent = FALSE, !.sel = 0], Offered(form))
                  ELSE Show([p EXCEPT !.recent = form # "topology"], NoRows)
       /\ UNCHANGED <<searches, listings, app, picks, acted, started>>

\* The debounce of 100 ms is over.
Debounced ==
    /\ debounce # NoSearch
    /\ debounce' = NoSearch
    /\ Perform(pal, debounce.q, debounce.in)
    /\ UNCHANGED <<listings, app, picks, acted, keys>>

\* (mutation of Answered: whichever search it is)
AnsweredAny(s, found, ok) ==
    /\ latest' = IF latest = s.n THEN 0 ELSE latest
    /\ IF ok THEN Show([pal EXCEPT !.sel = 0], [of |-> "search", n |-> s.n, list |-> found])
       ELSE Show(pal, NoRows)

Answered(s, found, ok) ==
    IF latest # s.n THEN UNCHANGED <<latest, pal, rows>>
    ELSE /\ latest' = 0
         /\ IF ok THEN Show([pal EXCEPT !.sel = 0],
                            [of |-> "search", n |-> s.n, list |-> found])
            ELSE Show(pal, NoRows)

SearchAnswered(s, found, ok) ==
    /\ s \in searches
    /\ searches' = searches \ {s}
    /\ Answered(s, found, ok)
    /\ UNCHANGED <<debounce, listings, app, picks, acted, started, keys>>

\* handleClusterToggle, handleAllClusters: searched again at once.  A debounce
\* that is running is left, with the clusters it was armed with.
ToggleCluster(in) ==
    /\ Key /\ pal.open /\ in # pal.in /\ rows.list # <<>>
    /\ IF pal.q = Blank
       THEN /\ pal' = [pal EXCEPT !.in = in]
            /\ UNCHANGED <<latest, searches, rows, started>>
       ELSE Perform([pal EXCEPT !.in = in], pal.q, in)
    /\ UNCHANGED <<debounce, listings, app, picks, acted>>

\* primeClusterSwitch, from the "switch cluster" command or its shortcut: the
\* known clusters first, then the ones listed, whatever is shown by then.
PrimeClusterSwitch ==
    /\ Key /\ pal.open /\ listings = 0
    /\ latest' = 0
    /\ Show([pal EXCEPT !.clusterMode = TRUE, !.q = Query("switch", ""), !.recent = FALSE,
                        !.sel = 0], Offered("switch"))
    /\ listings' = listings + 1
    /\ UNCHANGED <<debounce, searches, app, picks, acted, started>>

ClustersListed(ok) ==
    /\ listings > 0
    /\ listings' = listings - 1
    /\ IF ok THEN Show([pal EXCEPT !.sel = 0], Offered("switch"))
       ELSE UNCHANGED <<pal, rows>>
    /\ UNCHANGED <<debounce, latest, searches, app, picks, acted, started, keys>>

---------------------------------------------------------------------------
(* Picking a row.                                                          *)
Current == [cl |-> app.tab, kind |-> app.node[app.tab]]

\* activateNavItem: a cluster is switched to, a command primes the palette or
\* opens a page, the question goes to the assistant.
Activate(x) ==
    /\ Key /\ pal.open /\ x.kind \in {"ask", "switch", "reach", "command"}
    /\ Closes(pal)
    /\ IF x.kind = "switch"
       THEN \E c \in PalClusters : app' = [app EXCEPT !.tab = c, !.rev = @ + 1]
       ELSE UNCHANGED app
    /\ UNCHANGED <<searches, listings, picks, acted, started>>

ShowTopology ==
    /\ Key /\ pal.open /\ rows.of = "command"
    /\ Show([pal EXCEPT !.q = Query("topology", ""), !.topology = TRUE], NoRows)
    /\ UNCHANGED <<debounce, latest, searches, listings, app, picks, acted, started>>

\* handleResultSelect and handleKindSelect: the palette closes and the
\* object's cluster comes on screen; its tree is loaded after that.  After
\* "show topology for" the topology opens instead, and nothing is selected.
PickRow(x, act) ==
    /\ Key /\ pal.open /\ x.kind \in PalKinds /\ (act = "none" \/ x.sec # 0)
    /\ Closes(pal)
    /\ app' = IF x.cl = app.tab THEN app
              ELSE [app EXCEPT !.tab = x.cl, !.rev = @ + 1]
    /\ picks' = picks \cup {[row |-> x, act |-> act, on |-> "", rev |-> 0,
                             at |-> IF pal.topology THEN "over" ELSE "tree"]}
    /\ UNCHANGED <<searches, listings, acted, started>>

\* The tree is loaded, the namespace filter and the category opened: the row
\* is restored in the tab now on screen.
TreeOpened(k) ==
    /\ k \in picks /\ k.at = "tree"
    /\ app' = [app EXCEPT !.rev = @ + 1]
    /\ picks' = (picks \ {k}) \cup
                {[k EXCEPT !.at = "list", !.on = app.tab, !.rev = app.rev + 1]}
    /\ UNCHANGED <<pal, debounce, latest, searches, listings, rows, acted, started, keys>>

StillCurrent(k) == app.tab = k.on /\ app.rev = k.rev

\* restoreNavigationState, as far as the pick needs it: its node is selected
\* unless the user went elsewhere, and its list loaded.
Restored(k) ==
    /\ k \in picks /\ k.at = "list"
    /\ app' = IF StillCurrent(k) THEN [app EXCEPT !.node[k.on] = k.row.kind] ELSE app
    /\ picks' = (picks \ {k}) \cup {[k EXCEPT !.at = "over"]}
    /\ UNCHANGED <<pal, debounce, latest, searches, listings, rows, acted, started, keys>>

\* recordNavigation; then handleQuickAction acts on what is selected by now.
QuickAction(k) ==
    /\ k \in picks /\ k.at = "over"
    /\ picks' = picks \ {k}
    /\ app' = [app EXCEPT !.rev = @ + 1]
    /\ acted' = IF k.act = "none" \/ Current.kind = "(none)" THEN acted
                ELSE acted \cup {[row |-> k.row, on |-> Current]}
    /\ UNCHANGED <<pal, debounce, latest, searches, listings, rows, started, keys>>

\* What the user does outside the palette meanwhile.
GoElsewhere(c, kind) ==
    /\ Key /\ ~pal.open /\ [cl |-> c, kind |-> kind] # Current
    /\ app' = [app EXCEPT !.tab = c, !.node[c] = kind, !.rev = @ + 1]
    /\ UNCHANGED <<pal, debounce, latest, searches, listings, rows, picks, acted, started>>

PalNext ==
    \/ OpenPalette \/ Escape \/ PaletteDown \/ Debounced \/ PrimeClusterSwitch \/ ShowTopology
    \/ \E s \in 0 .. 2 : ChooseCategory(s)
    \/ \E form \in Forms, term \in Terms : Type(form, term)
    \/ \E s \in searches, found \in SearchAnswers, ok \in BOOLEAN : SearchAnswered(s, found, ok)
    \/ \E in \in SUBSET PalClusters : ToggleCluster(in)
    \/ \E ok \in BOOLEAN : ClustersListed(ok)
    \/ /\ pal.sel + 1 \in DOMAIN NavItems(pal, rows)
       /\ LET x == NavItems(pal, rows)[pal.sel + 1] IN
          \/ Activate(x)
          \/ \E act \in {"none", "delete"} : PickRow(x, act)
    \/ \E k \in picks : TreeOpened(k) \/ Restored(k) \/ QuickAction(k)
    \/ \E c \in PalClusters, kind \in PalKinds : GoElsewhere(c, kind)

---------------------------------------------------------------------------
\* createLatestRequest: only the newest search fills the rows, whatever order
\* the searches are answered in and whatever is picked or closed meanwhile, and
\* Enter always has the highlighted row to act on.
NewestSearchShown ==
    [][ /\ rows' # rows /\ rows'.of = "search" => rows'.n = started
        /\ NavItems(pal', rows') # <<>> => pal'.sel + 1 \in DOMAIN NavItems(pal', rows') ]_palVars

\* handleQuickAction, "Navigate to resource first to reuse existing action
\* handlers": a quick action acts on the row it was picked from.
\* No run claims it: the code does not keep it (README, Disagreements).
QuickActionHitsItsRow ==
    \A a \in acted : a.on = [cl |-> a.row.cl, kind |-> a.row.kind]
=============================================================================

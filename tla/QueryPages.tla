----------------------------- MODULE QueryPages -----------------------------
(***************************************************************************)
(* The pages that ask the backend one question at a time and draw its      *)
(* answer: access (components/access), certificates (certs), comparison    *)
(* (compare), image inspector (images), upgrade readiness (upgrade) and    *)
(* the network pages (network).  Each guards its loads against late *)
(* answers in its own way: a sequence number, an `alive' flag of the       *)
(* effect, an abort signal.                                                *)
(*                                                                         *)
(* A question is a number, 0 when there is nothing to ask.  A behaviour is *)
(* about one page: pages are separate tabs and share no state.  Filters,   *)
(* sorting and what an answer holds are left out.                          *)
(***************************************************************************)
EXTENDS Integers, FiniteSets

CONSTANTS
  Questions,     \* what may be asked: queries, objects, images, versions
  MaxPageSteps   \* bound: clicks and keystrokes

ASSUME PagesAssumption ==
  /\ Questions \subseteq Nat \ {0} /\ Questions # {}
  /\ MaxPageSteps \in Nat

VARIABLES
  page,      \* the page of this behaviour
  typed,     \* what the inputs say
  asked,     \* what the loads depend on (a debounced query, the target)
  mode,      \* view or mode of the page
  loaders,   \* [loader -> [shown, of, busy, failed, seq]]
  flights,   \* requests under way [l, q, n]
  posting,   \* a refresh of the access graph is under way
  pageSteps

pageVars == <<page, typed, asked, mode, loaders, flights, posting, pageSteps>>

LoadersOf == [access |-> {"who", "can", "mine"}, section |-> {"matrix"},
              certs |-> {"certs"}, compare |-> {"cmp"},
              image |-> {"info", "dir", "file"}, upgrade |-> {"upg"},
              path |-> {"path", "probe"}, network |-> {"coverage", "traffic"}]

Idle == [shown |-> 0, of |-> 0, busy |-> FALSE, failed |-> FALSE, seq |-> 0]

-----------------------------------------------------------------------------
(* Loads.  Each operator maps the loaders and the flights to what they     *)
(* become; `of' is the load an answer on show came from.                   *)

World == [ld |-> loaders, fl |-> flights]
SetLoader(w) == loaders' = w.ld /\ flights' = w.fl

\* a load starts; what was shown stays unless the page clears it
Begun(w, l, q, keep) ==
  LET n == w.ld[l].seq + 1 IN
  [ld |-> [w.ld EXCEPT ![l] = [shown |-> IF keep THEN @.shown ELSE 0, of |-> @.of,
                               busy |-> TRUE, failed |-> FALSE, seq |-> n]],
   fl |-> w.fl \cup {[l |-> l, q |-> q, n |-> n]}]

\* nothing to ask any more: the state is cleared, the load under way goes on
Cleared(w, l) ==
  [w EXCEPT !.ld[l] = [@ EXCEPT !.shown = 0, !.busy = FALSE, !.failed = FALSE]]

\* the effect is cleaned up: its load no longer counts
Dropped(w, l) == [w EXCEPT !.ld[l] = [Idle EXCEPT !.seq = w.ld[l].seq + 1]]

CurrentAlways(f) == TRUE
IsCurrent(f) == loaders[f.l].seq = f.n

PageAnswered(f) == [World EXCEPT !.ld[f.l] = [@ EXCEPT !.shown = f.q, !.of = f.n, !.busy = FALSE,
                                                   !.failed = FALSE],
                             !.fl = @ \ {f}]
\* a failure keeps what is shown except for access, comparison and a file
Wiped(f) == f.l \in {"who", "can", "mine", "cmp", "file"}
PageFailed(f) == [World EXCEPT !.ld[f.l] = [@ EXCEPT !.busy = FALSE, !.failed = TRUE,
                                  !.shown = IF Wiped(f) THEN 0 ELSE loaders[f.l].shown],
                           !.fl = @ \ {f}]
Ignored(f) == [World EXCEPT !.fl = @ \ {f}]

Step == pageSteps < MaxPageSteps /\ pageSteps' = pageSteps + 1
On(p) == page = p /\ UNCHANGED page

-----------------------------------------------------------------------------
(* Access page: useLoad per mode.  "who" and "can" ask the debounced       *)
(* query, "mine" a namespace (as do the subject and the risks).            *)

AskAll(w, who, can, mine) ==
  LET Next1(v, l, on) == IF on THEN Begun(v, l, asked', TRUE) ELSE v IN
  Next1(Next1(Next1(w, "who", who), "can", can), "mine", mine)

\* the effects of useLoad after `mode' or `asked' changed
AccessEffects ==
  LET off == IF mode' = "who-can" /\ asked' # 0 THEN World
             ELSE Cleared(Cleared(World, "who"), "can")
      quiet == IF mode' = "mine" THEN off ELSE Cleared(off, "mine") IN
  SetLoader(AskAll(quiet, mode' = "who-can" /\ asked' # 0, mode' = "who-can" /\ asked' # 0,
             mode' = "mine"))

AccessType(q) ==
  /\ On("access") /\ Step /\ mode = "who-can"
  /\ typed' = q
  /\ UNCHANGED <<asked, mode, loaders, flights, posting>>

AccessDebounce ==
  /\ On("access") /\ mode = "who-can" /\ typed # asked
  /\ asked' = typed
  /\ UNCHANGED <<typed, mode, posting, pageSteps>>
  /\ AccessEffects

\* a mode is chosen, or an intent of the palette chooses it with its question
AccessMode(m, q) ==
  /\ On("access") /\ Step /\ m # mode
  /\ mode' = m
  /\ asked' = IF m = "mine" THEN q ELSE typed
  /\ UNCHANGED <<typed, posting>>
  /\ AccessEffects

AccessRefresh ==
  /\ On("access") /\ Step /\ ~posting
  /\ posting' = TRUE
  /\ UNCHANGED <<typed, asked, mode, loaders, flights>>

\* the invalidation is over, failed or not: every load but canMe runs again
AccessRefreshed ==
  /\ On("access") /\ posting
  /\ posting' = FALSE
  /\ UNCHANGED <<typed, asked, mode, pageSteps>>
  /\ SetLoader(AskAll(World, mode = "who-can" /\ asked # 0, FALSE, mode = "mine"))

AccessRetry(l) ==
  /\ On("access") /\ Step /\ l \in {"who", "mine"} /\ loaders[l].failed
  /\ UNCHANGED <<typed, asked, mode, posting>>
  /\ SetLoader(Begun(World, l, asked, TRUE))

\* error, a spinner while there is nothing else, the data otherwise
AccessDraws(l) ==
  {d \in {"error", "loading", "data"} :
     CASE d = "error" -> loaders[l].failed
       [] d = "loading" -> loaders[l].busy /\ loaders[l].shown = 0
       [] d = "data" -> loaders[l].shown # 0 /\ ~loaders[l].failed}

-----------------------------------------------------------------------------
(* The permissions section of the inspector: an object, open or closed     *)

SectionLoads(w) == IF mode' = "open" THEN Begun(w, "matrix", asked', FALSE) ELSE w

SectionShow(q) ==
  /\ On("section") /\ Step /\ q # asked
  /\ asked' = q
  /\ UNCHANGED <<typed, mode, posting>>
  /\ SetLoader(SectionLoads(Dropped(World, "matrix")))

\* closed, the load under way is dropped; open, it runs unless answered
SectionToggle ==
  /\ On("section") /\ Step
  /\ mode' = IF mode = "open" THEN "closed" ELSE "open"
  /\ UNCHANGED <<typed, asked, posting>>
  /\ LET ld == loaders["matrix"] IN
     SetLoader(IF ld.shown # 0 \/ ld.failed THEN World
         ELSE SectionLoads(Dropped(World, "matrix")))

-----------------------------------------------------------------------------
(* Certificates: loads again on refresh and retry; an error stays until an *)
(* answer, the last report stays with it                                   *)

CertsLoad ==
  /\ On("certs") /\ Step
  /\ ~loaders["certs"].busy \/ loaders["certs"].failed
  /\ asked' \in Questions   \* the backend's certificates may have changed
  /\ UNCHANGED <<typed, mode, posting>>
  /\ LET w == Begun(World, "certs", asked', TRUE) IN
     SetLoader([w EXCEPT !.ld["certs"].failed = loaders["certs"].failed])

CertsDraws ==
  {d \in {"error", "loading", "data"} :
     CASE d = "error" -> loaders["certs"].failed
       [] d = "loading" -> loaders["certs"].shown = 0 /\ loaders["certs"].busy
       [] d = "data" -> loaders["certs"].shown # 0}

-----------------------------------------------------------------------------
(* Comparison: a pair of references and options; 0 while a side is missing *)

CompareEffect ==
  IF asked' = 0
  THEN LET w == Dropped(World, "cmp") IN SetLoader([w EXCEPT !.ld["cmp"].busy = loaders["cmp"].busy])
  ELSE SetLoader(Begun(World, "cmp", asked', TRUE))

\* a side is picked, retargeted or taken away, the sides are swapped, an
\* option toggled
CompareAsk(q) ==
  /\ On("compare") /\ Step /\ q # asked
  /\ asked' = q
  /\ UNCHANGED <<typed, mode, posting>>
  /\ CompareEffect

CompareReload ==
  /\ On("compare") /\ Step /\ asked # 0
  /\ ~loaders["cmp"].busy \/ loaders["cmp"].failed
  /\ UNCHANGED <<typed, asked, mode, posting>>
  /\ CompareEffect

CompareDraws ==
  {d \in {"error", "loading", "data"} :
     CASE d = "error" -> loaders["cmp"].failed
       [] d = "loading" -> loaders["cmp"].busy /\ loaders["cmp"].shown = 0
       [] d = "data" -> loaders["cmp"].shown # 0}

-----------------------------------------------------------------------------
(* Image inspector: info of an image and platform, and the files view,     *)
(* which lives only while the info is there and "files" is chosen          *)

FilesUnmounted(w) == Dropped(Dropped(w, "dir"), "file")
FilesMounted(w) == Begun(FilesUnmounted(w), "dir", asked, FALSE)

\* another platform or image, or a reload: the info is cleared first
ImageAsk(q) ==
  /\ On("image") /\ Step
  /\ asked' = q /\ typed' = 0
  /\ UNCHANGED <<mode, posting>>
  /\ SetLoader(Begun(FilesUnmounted(World), "info", q, FALSE))

ImageView(v) ==
  /\ On("image") /\ Step /\ v # mode
  /\ mode' = v /\ typed' = 0
  /\ UNCHANGED <<asked, posting>>
  /\ SetLoader(IF loaders["info"].shown = 0 THEN World
         ELSE IF v = "files" THEN FilesMounted(World) ELSE FilesUnmounted(World))

FilesDrawn == page = "image" /\ mode = "files" /\ loaders["info"].shown # 0

\* openFile: the file selected is `typed'; the file before stays meanwhile
OpenFile(q) ==
  /\ On("image") /\ Step /\ FilesDrawn /\ loaders["dir"].shown # 0
  /\ typed' = q
  /\ UNCHANGED <<asked, mode, posting>>
  /\ SetLoader(Begun(World, "file", q, TRUE))

\* the root listing failed: try again
FilesRetry ==
  /\ On("image") /\ Step /\ FilesDrawn /\ loaders["dir"].failed
  /\ UNCHANGED <<typed, asked, mode, posting>>
  /\ SetLoader(Begun(World, "dir", asked, FALSE))

\* the info's error or spinner, or the view chosen
ImageDraws ==
  IF loaders["info"].failed THEN {"error"}
  ELSE IF loaders["info"].shown = 0 THEN {"loading"} ELSE {"data"}

\* the file's pane: a spinner, an error, or the file
FileDraws ==
  {d \in {"error", "loading", "data"} :
     CASE d = "loading" -> loaders["file"].busy
       [] d = "error" -> ~loaders["file"].busy /\ loaders["file"].failed
       [] d = "data" -> /\ ~loaders["file"].busy /\ ~loaders["file"].failed
                        /\ loaders["file"].shown # 0}

-----------------------------------------------------------------------------
(* Upgrade readiness: a target version, none at first; the first report    *)
(* names it, and that starts a second load                                 *)

UpgradeTarget(q) ==
  /\ On("upgrade") /\ Step /\ q # asked /\ loaders["upg"].shown # 0
  /\ asked' = q
  /\ UNCHANGED <<typed, mode, posting>>
  /\ SetLoader(Begun(World, "upg", q, TRUE))

UpgradeRecheck ==
  /\ On("upgrade") /\ Step
  /\ ~loaders["upg"].busy \/ (loaders["upg"].failed /\ loaders["upg"].shown = 0)
  /\ UNCHANGED <<typed, asked, mode, posting>>
  /\ SetLoader(Begun(World, "upg", asked, TRUE))

UpgradeDraws ==
  {d \in {"error", "loading", "data"} :
     CASE d = "error" -> loaders["upg"].failed
       [] d = "loading" -> loaders["upg"].shown = 0 /\ ~loaders["upg"].failed
       [] d = "data" -> loaders["upg"].shown # 0}

-----------------------------------------------------------------------------
(* Path checker: a source and destination are picked, a check is run       *)

\* another source, destination, or the two swapped: the result goes, a check
\* under way does not
PathPick(q) ==
  /\ On("path") /\ Step /\ q # typed
  /\ typed' = q
  /\ UNCHANGED <<asked, mode, posting>>
  /\ SetLoader([World EXCEPT !.ld["path"].shown = 0])

PathRuns(q) ==
  LET w == Begun(World, "path", q, TRUE) IN
  SetLoader([w EXCEPT !.ld["probe"] = [@ EXCEPT !.shown = 0, !.failed = FALSE]])

PathRun ==
  /\ On("path") /\ Step /\ typed # 0 /\ ~loaders["path"].busy
  /\ asked' = typed
  /\ UNCHANGED <<typed, mode, posting>>
  /\ PathRuns(typed)

\* an intent of the palette picks both ends and runs, busy or not
PathIntent(q) ==
  /\ On("path") /\ Step
  /\ typed' = q /\ asked' = q
  /\ UNCHANGED <<mode, posting>>
  /\ LET w == Begun([World EXCEPT !.ld["path"].shown = 0], "path", q, TRUE) IN
     SetLoader([w EXCEPT !.ld["probe"] = [@ EXCEPT !.shown = 0, !.failed = FALSE]])

\* the live probe, offered with a result, not while one runs
PathProbe ==
  /\ On("path") /\ Step /\ loaders["path"].shown # 0 /\ ~loaders["probe"].busy
  /\ UNCHANGED <<typed, asked, mode, posting>>
  /\ SetLoader(Begun(World, "probe", typed, TRUE))

PathDraws ==
  {d \in {"error", "data", "empty", "loading"} :
     CASE d = "error" -> loaders["path"].failed
       [] d = "data" -> loaders["path"].shown # 0
       [] d = "loading" -> loaders["path"].busy
       [] d = "empty" -> /\ loaders["path"].shown = 0 /\ ~loaders["path"].busy
                         /\ ~loaders["path"].failed}

-----------------------------------------------------------------------------
(* Network page: policy coverage and traffic of a namespace, each loaded   *)
(* when its view is entered                                                *)

NetworkLoads(w) == IF mode' = "path" THEN w ELSE Begun(w, mode', asked', TRUE)

\* the load of the view left no longer counts; what it showed stays
NetworkLeft == IF mode = "path" THEN World
               ELSE [World EXCEPT !.ld[mode].seq = @ + 1]

NetworkView(v) ==
  /\ On("network") /\ Step /\ v # mode
  /\ mode' = v
  /\ UNCHANGED <<typed, asked, posting>>
  /\ SetLoader(NetworkLoads(NetworkLeft))

\* another namespace, or the refresh button
NetworkAsk(q) ==
  /\ On("network") /\ Step
  /\ asked' = q
  /\ UNCHANGED <<typed, mode, posting>>
  /\ SetLoader(NetworkLoads(World))

\* a report, grayed out while it loads; an error hides it
NetworkDraws(l) ==
  IF loaders[l].failed THEN {"error"}
  ELSE IF loaders[l].shown = 0 THEN {"loading"} ELSE {"data"}

-----------------------------------------------------------------------------
(* Answers and failures                                                    *)

\* what an answer sets off: the files view is mounted with its info, the
\* first upgrade report names the target
AfterAnswer(f, w) ==
  CASE f.l = "info" /\ mode = "files" -> Begun(w, "dir", asked, FALSE)
    [] f.l = "upg" /\ asked = 0 -> Begun(w, "upg", asked', TRUE)
    [] OTHER -> w

Answer(f) ==
  /\ UNCHANGED <<page, typed, mode, posting, pageSteps>>
  /\ IF f.l = "upg" /\ asked = 0 /\ IsCurrent(f) THEN asked' \in Questions ELSE UNCHANGED asked
  /\ LET a == IF f.l = "upg" /\ asked = 0 THEN [f EXCEPT !.q = asked'] ELSE f IN
     SetLoader(IF IsCurrent(f)
         THEN LET w == PageAnswered(f) IN
              AfterAnswer(f, [w EXCEPT !.ld[f.l].shown = a.q])
         ELSE Ignored(f))

Fails(f) ==
  /\ UNCHANGED <<page, typed, asked, mode, posting, pageSteps>>
  /\ SetLoader(IF IsCurrent(f) THEN PageFailed(f) ELSE Ignored(f))

-----------------------------------------------------------------------------

\* a page mounts with its first load under way
PagesInit ==
  /\ page \in DOMAIN LoadersOf
  /\ typed = 0 /\ posting = FALSE /\ pageSteps = 0
  /\ mode = CASE page = "access" -> "who-can"
              [] page = "section" -> "closed"
              [] page = "image" -> "overview"
              [] page = "network" -> "path"
              [] OTHER -> "-"
  /\ asked \in IF page \in {"access", "upgrade", "path", "compare"} THEN {0} ELSE Questions
  /\ LET w == [ld |-> [l \in LoadersOf[page] |-> Idle], fl |-> {}]
         s == CASE page = "certs" -> Begun(w, "certs", asked, TRUE)
                [] page = "image" -> Begun(w, "info", asked, FALSE)
                [] page = "upgrade" -> Begun(w, "upg", 0, TRUE)
                [] OTHER -> w IN
     loaders = s.ld /\ flights = s.fl

PagesNext ==
  \/ \E q \in Questions \cup {0} : AccessType(q) \/ CompareAsk(q)
  \/ \E q \in Questions :
       \/ SectionShow(q) \/ ImageAsk(q) \/ OpenFile(q) \/ UpgradeTarget(q)
       \/ PathPick(q) \/ PathIntent(q) \/ NetworkAsk(q)
       \/ \E m \in {"who-can", "mine"} : AccessMode(m, q)
  \/ AccessDebounce \/ AccessRefresh \/ AccessRefreshed
  \/ \E l \in {"who", "mine"} : AccessRetry(l)
  \/ SectionToggle \/ CertsLoad \/ CompareReload
  \/ \E v \in {"overview", "files"} : ImageView(v)
  \/ \E v \in {"path", "coverage", "traffic"} : NetworkView(v)
  \/ FilesRetry \/ UpgradeRecheck \/ PathRun \/ PathProbe
  \/ \E f \in flights : Answer(f) \/ Fails(f)

PagesSpec == PagesInit /\ [][PagesNext]_pageVars

-----------------------------------------------------------------------------
(* Properties                                                              *)

\* The loaders whose part of the page is on screen, with the question it
\* stands under.
Asking ==
  CASE page = "access" -> IF mode = "mine" THEN {<<"mine", asked>>}
                          ELSE {<<l, asked>> : l \in {"who", "can"}}
    [] page = "section" -> IF mode = "open" THEN {<<"matrix", asked>>} ELSE {}
    [] page = "certs" -> {<<"certs", asked>>}
    [] page = "compare" -> {<<"cmp", asked>>}
    [] page = "image" -> {<<"info", asked>>}
                           \cup (IF FilesDrawn THEN {<<"dir", asked>>} ELSE {})
                           \cup (IF FilesDrawn THEN {<<"file", typed>>} ELSE {})
    [] page = "upgrade" -> {<<"upg", asked>>}
    [] page = "path" -> {<<"path", asked>>}
    [] page = "network" -> IF mode = "path" THEN {} ELSE {<<mode, asked>>}

Draws(l) ==
  CASE l \in {"who", "can", "mine", "matrix", "dir"} -> AccessDraws(l)
    [] l = "certs" -> CertsDraws [] l = "cmp" -> CompareDraws
    [] l = "info" -> ImageDraws  [] l = "file" -> FileDraws
    [] l \in {"coverage", "traffic"} -> NetworkDraws(l)
    [] l = "upg" -> UpgradeDraws [] OTHER -> PathDraws

\* What a page draws as an answer, once it says it is not loading, answers
\* the question it stands under, whatever order answers came in and however
\* often the question, the mode or the object changed meanwhile; and a page
\* that says it is loading has a load under way that will be heard (useLoad,
\* useCertificates, the effects of ComparePage, ImageInspectorPage and
\* AccessPermissionsSection, UpgradeReadinessPage.load, PathChecker.run).
PagesAnswerTheirQuestion ==
  \A a \in Asking : LET l == a[1] ld == loaders[a[1]] IN
    a[2] # 0 =>
      /\ ("data" \in Draws(l) /\ ~ld.busy /\ ~ld.failed /\ l # "path") => ld.shown = a[2]
      /\ (l = "path" /\ ld.shown # 0 /\ ~ld.busy /\ ~ld.failed) => ld.of = ld.seq
      /\ ld.busy => \E f \in flights : f.l = l /\ f.n = ld.seq
      /\ Draws(l) # {} \/ (l = "can")

\* The verdict drawn under a source and a destination is about them.
\* No run claims it: the code does not keep it (README, Disagreements).
VerdictIsOfThePair ==
  (page = "path" /\ loaders["path"].shown # 0) => loaders["path"].shown = typed
=============================================================================

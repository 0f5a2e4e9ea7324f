----------------------------- MODULE Preferences -----------------------------
(***************************************************************************)
(* What an installation remembers about its user, across launches: the     *)
(* one-time tour of a feature, the theme, and the one-time clean-up of a   *)
(* former version's files.                                                 *)
(*                                                                         *)
(*   Tour*    FeatureTour.tsx, tour.ts                                     *)
(*   Theme*   ThemeProvider.tsx, ThemeSettings.tsx, themeAdapter.ts; the   *)
(*            backend's theme store is external                            *)
(*   Clean*   legacyHostedIdentityMigration.js                             *)
(*                                                                         *)
(* Each part is a machine of its own.  localStorage and the settings file  *)
(* survive a relaunch, the state of the page does not.                     *)
(***************************************************************************)
EXTENDS Naturals, Sequences, FiniteSets, SequencesExt

CONSTANTS
    TourScreens,    \* the sets of tour targets that can be on screen together
    Themes,         \* themes of the marketplace
    Gives,          \* theme -> the colours of ColourKeys its file defines
    ThemeType,      \* theme -> "dark" or "light"
    HasTokens,      \* the themes with token colours
    UserDataDir,    \* name of the directory the application keeps its data in
    CleanKeys,      \* path -> the keys of the legacy file there, at first
    MaxTourSteps,   \* bound on moves in the tour and changes of the screen
    MaxPrefSteps    \* bound on what users and faults do in the other parts

ASSUME PreferencesAssumption ==
    /\ HasTokens \subseteq Themes
    /\ MaxTourSteps \in Nat /\ MaxPrefSteps \in Nat

VARIABLE prefSteps

-----------------------------------------------------------------------------
(***************************************************************************)
(* The tour.  `step' is the step shown (None: no tour), `waiting' the      *)
(* continuation of a Next that opened the dashboard, which gives up when   *)
(* `run' has moved on.                                                     *)
(***************************************************************************)
VARIABLES
    screen,     \* what the tour can point at that is on screen
    busyNow,    \* a dialog, a palette or a cluster error covers the page
    step, opening, paused, visited, run,
    waiting,    \* [run, from] of a Next waiting for the dashboard, or NoWait
    seen,       \* localStorage: tours shown
    shownThisSession,
    dismissed   \* the user has finished, skipped or dismissed the tour

tourVars == <<screen, busyNow, step, opening, paused, visited, run, waiting,
              seen, shownThisSession, dismissed>>

None == 99
NoWait == [run |-> 0, from |-> None]
OPEN_STEP == 1
Settled == {"setup", "error", "progress", "results"}

Stage(when, unless, state) == [when |-> when, unless |-> unless, state |-> state]

\* The steps after the welcome (0): when they apply, and whether they stand
\* for a state of the dashboard that the tour follows.
STEPS ==
    [k \in 0 .. 9 |->
       CASE k = 2 -> Stage({"setup"}, {}, TRUE)
         [] k = 3 -> Stage({"error"}, {"results"}, TRUE)
         [] k = 4 -> Stage({"progress"}, {"results"}, TRUE)
         [] k = 5 -> Stage({"dash"}, Settled, TRUE)
         [] k \in {6, 8} -> Stage({"results"}, {}, FALSE)
         [] k = 7 -> Stage({"filters"}, {}, FALSE)
         [] k = 9 -> Stage({"rows"}, {}, FALSE)
         [] OTHER -> Stage({}, {}, FALSE)]

\* The element a step puts its spotlight on.
Target(k) ==
    CASE k = 0 -> {}
      [] k = OPEN_STEP -> {"nav"}
      [] k = 8 -> {"profile"}
      [] OTHER -> STEPS[k].when

Applies(k, s) == STEPS[k].when \subseteq s /\ STEPS[k].unless \cap s = {}

NextApplicable(i, s) ==
    LET ks == {k \in DOMAIN STEPS : k > i /\ Applies(k, s)}
    IN  IF ks = {} THEN None ELSE CHOOSE k \in ks : \A j \in ks : k <= j

TourInit ==
    /\ screen \in {s \in TourScreens : "dash" \notin s}
    /\ busyNow \in BOOLEAN
    /\ step = None /\ opening = FALSE /\ paused = FALSE
    /\ visited = <<>> /\ run = 0 /\ waiting = NoWait
    /\ seen = FALSE /\ shownThisSession = FALSE /\ dismissed = FALSE

TourQuota == prefSteps < MaxTourSteps /\ prefSteps' = prefSteps + 1

\* The page changes under the tour: lists load, dialogs open and close.  The
\* dashboard is opened by a click and goes when its tab is closed.
ScreenChanges ==
    /\ TourQuota
    /\ \/ /\ screen' \in TourScreens \ {screen}
          /\ "dash" \in screen' => "dash" \in screen
          /\ UNCHANGED busyNow
       \/ busyNow' = ~busyNow /\ UNCHANGED screen
    /\ UNCHANGED <<step, opening, paused, visited, run, waiting, seen,
                   shownThisSession, dismissed>>

\* The interval that waits for a calm moment.
TourStarts ==
    /\ ~shownThisSession /\ ~seen /\ step = None
    /\ "nav" \in screen /\ ~busyNow
    /\ shownThisSession' = TRUE /\ step' = 0
    /\ UNCHANGED <<screen, busyNow, opening, paused, visited, run, waiting,
                   seen, dismissed, prefSteps>>

ClosedLeavingTheWait ==
    /\ run' = run
    /\ \/ seen' = TRUE
       \/ seen' = seen
    /\ step' = None /\ opening' = FALSE /\ dismissed' = TRUE

\* close(): the storage may refuse to remember it.
Closed ==
    /\ run' = run + 1
    /\ \/ seen' = TRUE
       \/ seen' = seen
    /\ step' = None /\ opening' = FALSE /\ dismissed' = TRUE

Usable == step # None /\ ~paused

TourClose ==
    /\ Usable
    /\ Closed
    /\ UNCHANGED <<screen, busyNow, paused, visited, waiting,
                   shownThisSession, prefSteps>>

\* next(): the step that opens the dashboard waits for it to settle, the
\* others go on at once; a step with none after it ends the tour.
GoOn(from, s) ==
    LET k == NextApplicable(from, s)
    IN  IF k = None
        THEN Closed /\ UNCHANGED visited
        ELSE /\ step' = k /\ visited' = Append(visited, from)
             /\ UNCHANGED <<run, seen, opening, dismissed>>

TourNext(clicked) ==
    /\ Usable /\ ~opening /\ waiting = NoWait /\ TourQuota
    /\ clicked => step = OPEN_STEP /\ "nav" \in screen
    /\ IF step = OPEN_STEP
       THEN /\ run' = run + 1 /\ waiting' = [run |-> run + 1, from |-> step]
            /\ opening' = TRUE
            \* The sidebar item opens the dashboard, which starts loading.
            /\ screen' = IF "nav" \in screen /\ screen \cup {"dash"} \in TourScreens
                         THEN screen \cup {"dash"} ELSE screen
            /\ UNCHANGED <<step, visited, seen, dismissed>>
       ELSE GoOn(step, screen) /\ UNCHANGED <<waiting, screen>>
    /\ UNCHANGED <<busyNow, paused, shownThisSession>>

\* The wait is over: the dashboard has settled, or 20 s have gone by.  A tour
\* that was closed meanwhile is left alone.
WaitEnds ==
    /\ waiting # NoWait /\ waiting' = NoWait
    /\ IF waiting.run # run
       THEN UNCHANGED <<step, visited, run, seen, opening, dismissed>>
       ELSE LET k == NextApplicable(waiting.from, screen)
            IN  IF k = None
                THEN Closed /\ UNCHANGED visited
                ELSE /\ step' = k /\ visited' = Append(visited, waiting.from)
                     /\ opening' = FALSE
                     /\ UNCHANGED <<run, seen, dismissed>>
    /\ UNCHANGED <<screen, busyNow, paused, shownThisSession, prefSteps>>

TourBack ==
    /\ Usable /\ ~opening /\ Len(visited) > 1 /\ TourQuota
    /\ step' = Last(visited) /\ visited' = Front(visited)
    /\ UNCHANGED <<screen, busyNow, opening, paused, run, waiting, seen,
                   shownThisSession, dismissed>>

\* check(), every 300 ms: pause under a dialog, and follow the dashboard from
\* one state to the next.
TourCheck ==
    /\ step # None
    /\ paused' = busyNow
    /\ LET k == NextApplicable(OPEN_STEP, screen)
       IN  step' = IF STEPS[step].state /\ ~Applies(step, screen) /\ k # None
                   THEN k ELSE step
    /\ <<paused', step'>> # <<paused, step>>
    /\ UNCHANGED <<screen, busyNow, opening, visited, run, waiting, seen,
                   shownThisSession, dismissed, prefSteps>>

\* The user clicks what the spotlight shows: that is the end of the tour,
\* except on the step that would have clicked it.
TargetClicked ==
    /\ Usable /\ step # OPEN_STEP /\ Target(step) # {} /\ Target(step) \subseteq screen
    /\ Closed
    /\ UNCHANGED <<screen, busyNow, paused, visited, waiting,
                   shownThisSession, prefSteps>>

\* A new launch: the page starts afresh.
TourRelaunch ==
    /\ TourQuota
    /\ step' = None /\ opening' = FALSE /\ paused' = FALSE /\ visited' = <<>>
    /\ run' = 0 /\ waiting' = NoWait /\ shownThisSession' = FALSE
    /\ dismissed' = seen
    /\ UNCHANGED <<screen, busyNow, seen>>

TourNextStep ==
    \/ ScreenChanges \/ TourStarts \/ TourClose
    \/ \E c \in BOOLEAN : TourNext(c)
    \/ WaitEnds \/ TourBack \/ TourCheck \/ TargetClicked \/ TourRelaunch

TourSpec == TourInit /\ [][TourNextStep]_tourVars

\* A tour that was finished, skipped or dismissed is over: a wait that began
\* before never brings it back, in this launch or, once remembered, in a
\* later one.  While it says it is opening the dashboard, the wait that will
\* end this is still its own.  However the dashboard changed meanwhile, Back
\* leads home to the step that opened it.
TourIsHonest ==
    /\ dismissed => step = None
    /\ opening => waiting.run = run
    /\ step \in DOMAIN STEPS => IsPrefix(IF step > OPEN_STEP THEN <<0, OPEN_STEP>> ELSE <<>>, visited)

-----------------------------------------------------------------------------
(***************************************************************************)
(* The theme.  `mode' is ThemeProvider's state, `style' says whose colours *)
(* the document's own style holds, `attr' is its data-theme attribute.     *)
(***************************************************************************)
VARIABLES
    mode, current, listed, installing,
    system,     \* what the operating system prefers
    style, attr,
    cachedMode, \* localStorage
    storedTheme, files, \* the backend's settings and theme files
    treqs       \* requests on their way

themeVars == <<mode, current, listed, installing, system, style, attr,
               cachedMode, storedTheme, files, treqs>>

BuiltIn == {"dark", "light"}
ColourKeys == {"bg-primary", "success", "accent", "win"}
ASSUME GivesAssumption == \A t \in Themes : Gives[t] \subseteq ColourKeys
Unstyled == [k \in ColourKeys |-> "none"]
TReq(op, id, then) == [op |-> op, id |-> id, then |-> then, state |-> "sent", seen |-> {}, mode |-> "none"]

\* convertVSCodeTheme(): the colours the file gives, those derived from its
\* tokens when it gives few, the ones with a default, and the system tokens
\* that deriveSystemTokens computes from them.
FewColours == 2
DerivedColours == {"bg-primary", "accent"}
Converted(t) ==
    Gives[t]
    \cup (IF Cardinality(Gives[t]) < FewColours /\ t \in HasTokens THEN DerivedColours ELSE {})
    \cup {"accent"} \cup {"win"}

\* applyTheme(): the colours are set on the document, one by one.
Applied(st, t) == [k \in ColourKeys |-> IF k \in Converted(t) THEN t ELSE st[k]]

\* The effect on the theme, the custom theme and the system's preference.
Effects(m, c, sys, st) ==
    IF m = "custom" /\ c # "none"
    THEN style' = Applied(st, c) /\ attr' = ThemeType[c]
    ELSE style' = st /\ attr' = IF m = "auto" THEN sys ELSE m

\* setTheme() and toggleTheme(): shown and cached at once, stored by a request.
SetMode(m, c, st, reqs) ==
    /\ mode' = m /\ cachedMode' = m
    /\ Effects(m, c, system, st)
    /\ treqs' = reqs \cup (IF m = "custom" THEN {}
                           ELSE {TReq("apply", IF m = "auto" THEN system ELSE m, "none")})

ThemeInit ==
    /\ mode = "dark" /\ current = "none" /\ listed = {} /\ installing = FALSE
    /\ system = "light" /\ style = Unstyled /\ attr = "dark" /\ cachedMode = "dark"
    /\ files = {} /\ storedTheme = [mode |-> "dark", id |-> "none"]
    /\ treqs = {TReq("boot", "none", "none")}

Quota == prefSteps < MaxPrefSteps /\ prefSteps' = prefSteps + 1

\* The theme picker's buttons of the built-in themes.
PickBuiltIn(m) ==
    /\ Quota
    /\ SetMode(m, current, Unstyled, treqs)
    /\ UNCHANGED <<current, listed, installing, system, storedTheme, files>>

\* The button of the tab bar.
ToggleTheme ==
    /\ Quota
    /\ SetMode(CASE mode = "dark" -> "light" [] mode = "light" -> "auto" [] OTHER -> "dark",
               current, style, treqs)
    /\ UNCHANGED <<current, listed, installing, system, storedTheme, files>>

SystemChanges ==
    /\ Quota
    /\ system' = (IF system = "dark" THEN "light" ELSE "dark")
    /\ Effects(mode, current, system', style)
    /\ UNCHANGED <<mode, current, listed, installing, cachedMode, storedTheme, files, treqs>>

\* A custom theme's button: stored first, shown when the backend agrees.
PickCustom(t) ==
    /\ Quota /\ t \in listed
    /\ treqs' = treqs \cup {TReq("apply", t, "show")}
    /\ UNCHANGED <<mode, current, listed, installing, system, style, attr,
                   cachedMode, storedTheme, files>>

\* loadTheme(): a theme of the marketplace that is not installed yet.
Install(t) ==
    /\ Quota /\ t \notin listed /\ ~installing
    /\ installing' = TRUE
    /\ treqs' = treqs \cup {TReq("download", t, "none")}
    /\ UNCHANGED <<mode, current, listed, system, style, attr, cachedMode,
                   storedTheme, files>>

\* removeCustomTheme(), confirmed: it knows the current theme of that render.
RemoveTheme(t) ==
    /\ Quota /\ t \in listed
    /\ treqs' = treqs \cup {TReq("delete", t, IF current = t THEN "wasCurrent" ELSE "none")}
    /\ UNCHANGED <<mode, current, listed, installing, system, style, attr,
                   cachedMode, storedTheme, files>>

\* The backend serves a request; it can fail for reasons of its own.
ServeTheme(r) ==
    LET known == r.id \in BuiltIn \cup files
    IN  /\ r \in treqs /\ r.state = "sent"
        /\ \E ok \in BOOLEAN, list \in {files, {}} :
              /\ ok => (r.op \in {"apply", "delete"} => known)
              /\ storedTheme' = IF ok /\ r.op = "apply"
                                THEN IF r.id \in BuiltIn THEN [mode |-> r.id, id |-> "none"]
                                     ELSE [mode |-> "custom", id |-> r.id]
                                ELSE storedTheme
              /\ files' = IF ~ok THEN files
                          ELSE CASE r.op = "download" -> files \cup {r.id}
                                 [] r.op = "delete" -> files \ {r.id}
                                 [] OTHER -> files
              /\ treqs' = (treqs \ {r}) \cup
                     {[r EXCEPT !.state = IF ok THEN "ok" ELSE "failed",
                                !.seen = IF r.op = "boot" THEN list ELSE {},
                                !.id = IF r.op = "boot" /\ ok THEN storedTheme.id ELSE @,
                                !.mode = IF r.op = "boot" /\ ok THEN storedTheme.mode ELSE "none"]}
        /\ UNCHANGED <<mode, current, listed, installing, system, style, attr,
                       cachedMode, prefSteps>>

\* initializeThemes() has its answers: what is stored wins over the page.
BootLands(r) ==
    LET m == IF r.state = "ok" THEN r.mode ELSE cachedMode
        c == IF m = "custom" /\ r.state = "ok" /\ r.id # "none"
             THEN IF r.id \in r.seen THEN r.id ELSE "none"
             ELSE current
    IN  /\ r \in treqs /\ r.op = "boot" /\ r.state # "sent"
        /\ treqs' = treqs \ {r}
        /\ listed' = IF r.seen # {} THEN r.seen ELSE listed
        /\ mode' = m /\ cachedMode' = m /\ current' = c
        /\ Effects(m, c, system, style)
        /\ UNCHANGED <<installing, system, storedTheme, files, prefSteps>>

ApplyLands(r) ==
    /\ r \in treqs /\ r.op = "apply" /\ r.state # "sent"
    /\ IF r.state = "ok" /\ r.then # "none"
       THEN current' = r.id /\ SetMode("custom", r.id, style, treqs \ {r})
       ELSE treqs' = treqs \ {r} /\ UNCHANGED <<current, mode, cachedMode, style, attr>>
    /\ installing' = IF r.then = "installed" THEN FALSE ELSE installing
    /\ UNCHANGED <<listed, system, storedTheme, files, prefSteps>>

DownloadLands(r) ==
    /\ r \in treqs /\ r.op = "download" /\ r.state # "sent"
    /\ IF r.state = "ok"
       THEN /\ listed' = listed \cup {r.id}
            /\ treqs' = (treqs \ {r}) \cup {TReq("apply", r.id, "installed")}
            /\ UNCHANGED installing
       ELSE installing' = FALSE /\ treqs' = treqs \ {r} /\ UNCHANGED listed
    /\ UNCHANGED <<mode, current, system, style, attr, cachedMode, storedTheme,
                   files, prefSteps>>

DeleteLands(r) ==
    /\ r \in treqs /\ r.op = "delete" /\ r.state # "sent"
    /\ IF r.state = "ok"
       THEN /\ listed' = listed \ {r.id}
            /\ IF r.then = "wasCurrent"
               THEN current' = "none" /\ SetMode("dark", "none", style, treqs \ {r})
               ELSE treqs' = treqs \ {r} /\ UNCHANGED <<current, mode, cachedMode, style, attr>>
       ELSE treqs' = treqs \ {r} /\ UNCHANGED <<listed, current, mode, cachedMode, style, attr>>
    /\ UNCHANGED <<installing, system, storedTheme, files, prefSteps>>

ThemeRelaunch ==
    /\ Quota
    /\ mode' = cachedMode /\ current' = "none" /\ listed' = {} /\ installing' = FALSE
    /\ Effects(cachedMode, "none", system, Unstyled)
    /\ treqs' = {TReq("boot", "none", "none")}
    /\ UNCHANGED <<system, cachedMode, storedTheme, files>>

ThemeNext ==
    \/ \E m \in BuiltIn : PickBuiltIn(m)
    \/ ToggleTheme \/ SystemChanges \/ ThemeRelaunch
    \/ \E t \in Themes : PickCustom(t) \/ Install(t) \/ RemoveTheme(t)
    \/ \E r \in treqs : ServeTheme(r) \/ BootLands(r) \/ ApplyLands(r)
                        \/ DownloadLands(r) \/ DeleteLands(r)

ThemeSpec == ThemeInit /\ [][ThemeNext]_themeVars

\* The custom theme in use is the one on screen: every colour it has is its
\* own, whatever was shown before and in whatever order the answers came.
\* An installation that has begun ends: its button is not left disabled.
ThemeShowsItself ==
    /\ mode = "custom" /\ current # "none"
          => attr = ThemeType[current] /\ \A k \in Converted(current) : style[k] = current
    /\ installing => \E r \in treqs : r.op = "download" \/ r.then = "installed"

\* "Clear any custom theme styles when switching to built-in": a built-in
\* theme shows no colours of a custom one.
\* No run claims it: the code does not keep it (README, Disagreements).
BuiltInLooksBuiltIn == mode # "custom" => style = Unstyled

-----------------------------------------------------------------------------
(***************************************************************************)
(* The clean-up: at every launch until it has once gone through without an *)
(* error, the identity keys of a former version are taken out of its       *)
(* files.  A path is a directory and a file name; a launch can end at any  *)
(* point.                                                                  *)
(***************************************************************************)
VARIABLES
    oldFiles,       \* path -> the keys of the file; none: there is no file
    unreadable, \* files that cannot be read or parsed at present
    ran,        \* the settings store says the clean-up is done
    todo,       \* targets this launch has still to look at, in order
    errors,     \* this launch met an error
    rewriting   \* a temporary file is about to take the place of a target

cleanVars == <<oldFiles, unreadable, ran, todo, errors, rewriting>>

IdentityKeys == {"auth_tokens", "last_activity"}
NoPath == <<"", "">>
AppDir == "kanivet-frontend"
AuthDir == "kanivet-auth"

\* addTarget(): each place once.
AddTarget(targets, path) ==
    IF path \in ToSet(targets) THEN targets ELSE Append(targets, path)

\* resolveLegacyHostedIdentityTargets(): the places a former version wrote
\* to, each once, those of the current directory first.
Targets ==
    LET own  == <<<<UserDataDir, "kanivet-auth.json">>>>
        here == IF UserDataDir \in {AppDir, AuthDir}
                THEN AddTarget(own, <<UserDataDir, "config.json">>) ELSE own
    IN  AddTarget(AddTarget(AddTarget(here, <<AppDir, "config.json">>),
                            <<AppDir, "kanivet-auth.json">>),
                  <<AuthDir, "config.json">>)

Scrubbed(keys) == keys \ IdentityKeys

CleanInit ==
    /\ oldFiles = [p \in ToSet(Targets) |-> IF p \in DOMAIN CleanKeys THEN CleanKeys[p] ELSE {}]
    /\ unreadable \in SUBSET {p \in DOMAIN oldFiles : oldFiles[p] # {}}
    /\ ran = FALSE /\ todo = Targets /\ errors = FALSE /\ rewriting = NoPath

\* One target: skipped, deleted, or rewritten by way of a temporary file.
LooksAt ==
    LET p == Head(todo)
        next == Scrubbed(oldFiles[p])
    IN  /\ ~ran /\ todo # <<>> /\ rewriting = NoPath
        /\ CASE p \in unreadable ->
                  errors' = TRUE /\ todo' = Tail(todo) /\ UNCHANGED <<oldFiles, rewriting>>
             [] p \notin unreadable /\ next = oldFiles[p] ->
                  UNCHANGED <<oldFiles, errors, rewriting>> /\ todo' = Tail(todo)
             [] p \notin unreadable /\ next # oldFiles[p] /\ next = {} ->
                  /\ \/ oldFiles' = [oldFiles EXCEPT ![p] = {}] /\ UNCHANGED errors
                     \/ errors' = TRUE /\ UNCHANGED oldFiles
                  /\ todo' = Tail(todo) /\ UNCHANGED rewriting
             [] OTHER -> rewriting' = p /\ UNCHANGED <<oldFiles, errors, todo>>
        /\ UNCHANGED <<unreadable, ran, prefSteps>>

\* replaceJsonFileAtomically(): the temporary file is whole before it is
\* renamed; a failure removes it and counts as an error.
Rewritten ==
    \/ oldFiles' = [oldFiles EXCEPT ![rewriting] = Scrubbed(@)] /\ UNCHANGED errors
    \/ errors' = TRUE /\ UNCHANGED oldFiles
Rewrites ==
    /\ rewriting # NoPath /\ rewriting' = NoPath
    /\ Rewritten
    /\ todo' = Tail(todo)
    /\ UNCHANGED <<unreadable, ran, prefSteps>>

Cleaned == ~errors
CleanEnds ==
    /\ ~ran /\ todo = <<>> /\ Cleaned
    /\ ran' = TRUE
    /\ UNCHANGED <<oldFiles, unreadable, todo, errors, rewriting, prefSteps>>

\* The application quits or crashes, and is launched again.
CleanRelaunch ==
    /\ prefSteps < MaxPrefSteps /\ prefSteps' = prefSteps + 1
    /\ todo' = IF ran THEN <<>> ELSE Targets
    /\ errors' = FALSE /\ rewriting' = NoPath
    /\ UNCHANGED <<oldFiles, unreadable, ran>>

\* A file that could not be read can be again, and the other way round.
FileFaults(p) ==
    /\ prefSteps < MaxPrefSteps /\ prefSteps' = prefSteps + 1
    /\ oldFiles[p] # {} /\ rewriting # p
    /\ unreadable' = IF p \in unreadable THEN unreadable \ {p} ELSE unreadable \cup {p}
    /\ UNCHANGED <<oldFiles, ran, todo, errors, rewriting>>

CleanNext ==
    \/ LooksAt \/ Rewrites \/ CleanEnds \/ CleanRelaunch
    \/ \E p \in ToSet(Targets) : FileFaults(p)

CleanSpec == CleanInit /\ [][CleanNext]_cleanVars

\* Whatever fails and whenever a launch ends: once the clean-up calls itself
\* done no file holds an identity key, and no file ever loses another one.
CleanupIsSafe ==
    /\ ran => \A p \in DOMAIN oldFiles : oldFiles[p] \cap IdentityKeys = {}
    /\ \A p \in DOMAIN oldFiles \cap DOMAIN CleanKeys :
          Scrubbed(CleanKeys[p]) \subseteq oldFiles[p]

-----------------------------------------------------------------------------
prefVars == <<tourVars, themeVars, cleanVars, prefSteps>>

\* What the installation remembers is what its user decided.
PreferencesHold ==
    TourIsHonest /\ ThemeShowsItself /\ CleanupIsSafe
=============================================================================

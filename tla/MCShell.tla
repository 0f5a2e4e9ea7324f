--------------------------------- MODULE MCShell ---------------------------------
(***************************************************************************)
(* The desktop shell and what every screen stands on, for TLC:             *)
(* DesktopShell, HttpClient, Persistence, Navigation, Sidebar, DetailTabs, *)
(* Keyboard, Preferences.  The machines of these modules share no state,   *)
(* so a behaviour is one of one machine; "which" says whose, and what the  *)
(* others could start from is fixed.                                       *)
(***************************************************************************)
EXTENDS DesktopShell, HttpClient, Persistence, Navigation, Sidebar,
        DetailTabs, Keyboard, Preferences, TLC

CONSTANTS p1, p2, n1, n2, overview, pods, s1, s2, d1, d2, pod1, pod2
MCSaved == <<d1, pod1>>
MCDoomed == {<<d1, pod1>>}
MCTried == {<<"layout", <<"meta", "k">>>>, <<"layout", <<"s", "c">>>>, <<"list", <<"", "j">>>>}
MCNewKeys == {<<"cmd", "j">>, <<"", "x">>}
MCTreeRoots == <<"w", "n">>
MCTreeKids == ("w" :> <<"pods", "jobs">>) @@ ("n" :> <<"svc">>)
MCListOf == ("pods" :> <<"a", "b">>) @@ ("jobs" :> <<>>) @@ ("svc" :> <<"s">>)
MCTourScreens ==
    {{}, {"nav"}, {"nav", "dash"}, {"nav", "dash", "setup"},
     {"nav", "dash", "progress"}, {"nav", "dash", "error"},
     {"nav", "dash", "results", "filters", "profile", "rows"},
     {"nav", "dash", "results", "error", "profile"}}
MCGives == ("ta" :> {"bg-primary", "success"}) @@ ("tb" :> {"accent"})
MCThemeType == ("ta" :> "dark") @@ ("tb" :> "light")
MCCleanKeys ==
    (<<"kanivet-frontend", "config.json">> :> {"auth_tokens", "window"})
    @@ (<<"kanivet-auth", "config.json">> :> {"auth_tokens", "last_activity"})
    @@ (<<"kanivet", "kanivet-auth.json">> :> {"auth_tokens"})

VARIABLE which
mcVars == <<which, shellVars, updVars, httpVars, gateVars, persistVars,
            navVars, sideVars, detailVars, keyboardVars, prefVars>>

MCInit ==
  /\ which \in {"shell", "updater", "http", "gate", "workspace",
               "navigation", "sidebar", "details", "keys", "focus",
               "tour", "theme", "cleanup"}
  /\ ShellInit /\ UpdInit
  /\ HttpInit /\ GateInit
  /\ PersistInit
  /\ NavInit
  /\ SideInit
  /\ DetailInit
  /\ KeysInit /\ FocusInit /\ keySteps = 0
  /\ IF which = "tour" THEN TRUE ELSE screen = {} /\ busyNow = FALSE
  /\ IF which = "cleanup" THEN TRUE ELSE unreadable = {}
  /\ TourInit /\ ThemeInit /\ CleanInit /\ prefSteps = 0

DesktopShellSteps ==
  \/ which = "shell" /\ ShellNext /\ UNCHANGED updVars
  \/ which = "updater" /\ UpdNext /\ UNCHANGED shellVars

HttpClientSteps ==
  \/ which = "http" /\ HttpNext /\ UNCHANGED gateVars
  \/ which = "gate" /\ GateNext /\ UNCHANGED httpVars

PersistenceSteps ==
  which = "workspace" /\ PersistNext

NavigationSteps ==
  which = "navigation" /\ NavNext

SidebarSteps ==
  which = "sidebar" /\ SideNext

DetailTabsSteps ==
  which = "details" /\ DetailNext

KeyboardSteps ==
  \/ which = "keys" /\ KeysNext /\ UNCHANGED focusVars
  \/ which = "focus" /\ FocusNext /\ UNCHANGED keyVars

PreferencesSteps ==
  \/ which = "tour" /\ TourNextStep /\ UNCHANGED <<themeVars, cleanVars>>
  \/ which = "theme" /\ ThemeNext /\ UNCHANGED <<tourVars, cleanVars>>
  \/ which = "cleanup" /\ CleanNext /\ UNCHANGED <<tourVars, themeVars>>

MCNext ==
  /\ UNCHANGED which
  /\ \/ DesktopShellSteps /\ UNCHANGED <<httpVars, gateVars,
          persistVars, navVars, sideVars, detailVars, keyboardVars,
          prefVars>>
     \/ HttpClientSteps /\ UNCHANGED <<shellVars, updVars,
          persistVars, navVars, sideVars, detailVars, keyboardVars,
          prefVars>>
     \/ PersistenceSteps /\ UNCHANGED <<shellVars, updVars, httpVars,
          gateVars, navVars, sideVars, detailVars, keyboardVars,
          prefVars>>
     \/ NavigationSteps /\ UNCHANGED <<shellVars, updVars, httpVars,
          gateVars, persistVars, sideVars, detailVars, keyboardVars,
          prefVars>>
     \/ SidebarSteps /\ UNCHANGED <<shellVars, updVars, httpVars,
          gateVars, persistVars, navVars, detailVars, keyboardVars,
          prefVars>>
     \/ DetailTabsSteps /\ UNCHANGED <<shellVars, updVars, httpVars,
          gateVars, persistVars, navVars, sideVars, keyboardVars,
          prefVars>>
     \/ KeyboardSteps /\ UNCHANGED <<shellVars, updVars, httpVars,
          gateVars, persistVars, navVars, sideVars, detailVars,
          prefVars>>
     \/ PreferencesSteps /\ UNCHANGED <<shellVars, updVars, httpVars,
          gateVars, persistVars, navVars, sideVars, detailVars,
          keyboardVars>>

MCSpec == MCInit /\ [][MCNext]_mcVars
=============================================================================

---------------------------- MODULE DesktopShell ----------------------------
(***************************************************************************)
(* The desktop shell (frontend/public/electron.js, preload.js): it starts  *)
(* the backend and restarts it when it crashes, tells the page which port  *)
(* it got, keeps one window, and takes the backend down with it.           *)
(*                                                                         *)
(* Every start of the backend gets a port of its own.                      *)
(***************************************************************************)
EXTENDS Integers, Sequences

CONSTANTS
    MaxSpawns,      \* bound on the starts of the backend
    MaxRestarts,    \* MAX_BACKEND_RESTARTS
    MaxWindows      \* bound on the windows opened and reloads

VARIABLES
    shellApp,        \* "running", "quitting" (before-quit ran) or "gone"
    proc,       \* the backend: "none", "starting", "up" or "stable"
    spawns,     \* (bound) starts so far; also the port the next one gets
    restarts,   \* backendRestartCount
    timer,      \* a restart is due
    port,       \* backendPort, 0 the default
    knownHealth,      \* backendPortKnown has been resolved
    page,       \* the page of the window: "none", "loading" or "live"
    pagePort,   \* the port it sends its requests to
    asking,     \* its backend:getPort is not answered yet
    mail,       \* messages on their way to it
    windows     \* (bound) windows and reloads so far

shellVars == <<shellApp, proc, spawns, restarts, timer, port, knownHealth, page, pagePort, asking,
               mail, windows>>
backendVars == <<proc, spawns, restarts, timer, port, knownHealth>>
pageVars == <<page, pagePort, asking, mail, windows>>

ShellInit ==
    /\ shellApp = "running"
    /\ proc = "starting" /\ spawns = 1 /\ restarts = 0 /\ timer = FALSE
    /\ port = 0 /\ knownHealth = FALSE
    /\ page = "loading" /\ pagePort = 0 /\ asking = FALSE /\ mail = <<>> /\ windows = 1

---------------------------------------------------------------------------
(* What the page is told.                                                  *)

\* backend:getPort is answered once the first start has ended, somehow; a
\* push reaches only a page that listens.
Reply(p) == IF asking THEN <<p>> ELSE <<>>

\* (mutation of Push: only the first port is told)
PushFirst(p) == IF page = "live" /\ port = 0 THEN <<p>> ELSE <<>>
Push(p) == IF page = "live" THEN <<p>> ELSE <<>>

\* resolveStartup with a port, or without
StartupEnds(p) ==
    /\ knownHealth' = TRUE
    /\ asking' = FALSE
    /\ IF p = 0
       THEN /\ mail' = mail \o Reply(port)
            /\ UNCHANGED port
       ELSE /\ port' = p
            /\ mail' = mail \o Push(p) \o Reply(p)

---------------------------------------------------------------------------
(* The backend process.                                                    *)

\* startBackend, for a restart that is due: whether the app is quitting is
\* not looked at.
RestartFires ==
    /\ timer /\ shellApp # "gone" /\ spawns < MaxSpawns
    /\ timer' = FALSE
    /\ proc' = "starting"
    /\ spawns' = spawns + 1
    /\ UNCHANGED <<shellApp, restarts, port, knownHealth, pageVars>>

\* KANIVET_PORT is printed.
PortPrinted ==
    /\ proc = "starting" /\ shellApp # "gone"
    /\ proc' = "up"
    /\ StartupEnds(spawns)
    /\ UNCHANGED <<shellApp, spawns, restarts, timer, page, pagePort, windows>>

\* It has run for 30 seconds.
Stable ==
    /\ proc = "up" /\ shellApp = "running"
    /\ proc' = "stable"
    /\ restarts' = 0
    /\ UNCHANGED <<shellApp, spawns, timer, port, knownHealth, pageVars>>

\* It cannot be started at all: 'error', and no 'exit'.
SpawnFails ==
    /\ proc = "starting" /\ shellApp = "running"
    /\ proc' = "none"
    /\ StartupEnds(0)
    /\ UNCHANGED <<shellApp, spawns, restarts, timer, page, pagePort, windows>>

\* It exits of itself.
ExitsCleanly ==
    /\ proc # "none" /\ shellApp = "running"
    /\ proc' = "none"
    /\ restarts' = 0
    /\ IF proc = "starting" THEN StartupEnds(0) ELSE UNCHANGED <<port, knownHealth, asking, mail>>
    /\ UNCHANGED <<shellApp, spawns, timer, page, pagePort, windows>>

\* showBackendGiveUpDialog: whatever is chosen, the app ends.
GiveUp == shellApp' = "gone" /\ UNCHANGED <<restarts, timer>>

\* It crashes: restarted after a delay, or given up on after MaxRestarts in
\* a row, with a dialog and the end of the app.
Crashes ==
    /\ proc # "none" /\ shellApp = "running"
    /\ proc' = "none"
    /\ IF proc = "starting" THEN StartupEnds(0) ELSE UNCHANGED <<port, knownHealth, asking, mail>>
    /\ LET before == IF proc = "stable" THEN 0 ELSE restarts IN
       IF before >= MaxRestarts
       THEN GiveUp
       ELSE restarts' = before + 1 /\ timer' = TRUE /\ UNCHANGED shellApp
    /\ UNCHANGED <<spawns, page, pagePort, windows>>

---------------------------------------------------------------------------
(* Quitting: the backend is killed when the app is about to quit, and      *)
(* again when it does.                                                     *)
Killed == "none"

BeforeQuit ==
    /\ shellApp = "running"
    /\ shellApp' = "quitting"
    /\ proc' = Killed
    /\ UNCHANGED <<spawns, restarts, timer, port, knownHealth, pageVars>>

WillQuit ==
    /\ shellApp = "quitting"
    /\ shellApp' = "gone"
    /\ proc' = Killed
    /\ page' = "none" /\ mail' = <<>> /\ asking' = FALSE
    /\ UNCHANGED <<spawns, restarts, timer, port, knownHealth, pagePort, windows>>

---------------------------------------------------------------------------
(* The window and its page.                                                *)

\* createWindow: the URL carries the port known by then.
OpenWindow ==
    /\ shellApp = "running" /\ page = "none" /\ windows < MaxWindows
    /\ page' = "loading" /\ pagePort' = port
    /\ windows' = windows + 1
    /\ UNCHANGED <<shellApp, backendVars, asking, mail>>

\* Closed, on a system where the app stays: nothing it was sent arrives.
CloseWindow ==
    /\ shellApp = "running" /\ page # "none"
    /\ page' = "none" /\ mail' = <<>> /\ asking' = FALSE
    /\ UNCHANGED <<shellApp, backendVars, pagePort, windows>>

\* Loaded again from the same URL: the port of that URL.
Reload ==
    /\ shellApp = "running" /\ page = "live" /\ windows < MaxWindows
    /\ page' = "loading" /\ mail' = <<>> /\ asking' = FALSE
    /\ \E p \in 0..port : pagePort' = p
    /\ windows' = windows + 1
    /\ UNCHANGED <<shellApp, backendVars>>

\* Its script asks for the port and listens for changes of it.
PageStarts ==
    /\ page = "loading"
    /\ page' = "live"
    /\ IF knownHealth THEN mail' = <<port>> /\ asking' = FALSE
       ELSE asking' = TRUE /\ UNCHANGED mail
    /\ UNCHANGED <<shellApp, backendVars, pagePort, windows>>

PortArrives ==
    /\ mail # <<>>
    /\ pagePort' = IF Head(mail) = 0 THEN pagePort ELSE Head(mail)
    /\ mail' = Tail(mail)
    /\ UNCHANGED <<shellApp, backendVars, page, asking, windows>>

---------------------------------------------------------------------------
ShellNext ==
    \/ RestartFires \/ PortPrinted \/ Stable \/ SpawnFails \/ ExitsCleanly \/ Crashes
    \/ BeforeQuit \/ WillQuit
    \/ OpenWindow \/ CloseWindow \/ Reload \/ PageStarts \/ PortArrives

ShellSpec == ShellInit /\ [][ShellNext]_shellVars

---------------------------------------------------------------------------
(* A page that has been told all there is to tell sends its requests to    *)
(* the port of the backend that runs, whenever the window was opened or    *)
(* reloaded and however often the backend restarted ("a push sent before   *)
(* the page subscribed is lost", setBackendPort, backend:getPort).         *)
PageKnowsPort ==
    page = "live" /\ ~asking /\ mail = <<>> /\ proc \in {"up", "stable"} => pagePort = port

(* When the app is gone so is its backend: a restart that was due while it *)
(* quit leaves no process behind (before-quit, will-quit).                 *)
NoOrphanBackend == shellApp = "gone" => proc = "none"

-----------------------------------------------------------------------------
(***************************************************************************)
(* Updates of the app: the flags the main process keeps over checks and    *)
(* downloads (frontend/public/electron.js) and the banner of the page      *)
(* (frontend/src/components/UpdateBanner.tsx), which hears of them through *)
(* the answers of its calls and through events.                            *)
(*                                                                         *)
(* electron-updater runs one check at a time; a check that hangs outlives  *)
(* the 15 seconds it is given.                                             *)
(***************************************************************************)

CONSTANTS MaxChecks    \* bound on the checks and downloads started

VARIABLES
    flags,      \* checking, available, info, downloading, downloaded
    checkRun,   \* electron-updater is checking
    loadRun,    \* electron-updater is downloading
    askedUpdate,      \* the page's checkForUpdates is not answered yet
    pageLoad,   \* the page's downloadUpdate is not answered yet
    news,       \* answers and events on their way to the page
    banner,     \* updateState, "none" when not shown
    named,      \* the banner has the version (updateInfo)
    failures,   \* consecutiveErrorsRef, at most 2 told apart
    hideTimer,  \* upToDateTimerRef's timers that run, at most 1 told apart
    runs        \* (bound)

updVars == <<flags, checkRun, loadRun, askedUpdate, pageLoad, news, banner, named, failures,
             hideTimer, runs>>
mainVars == <<flags, checkRun, loadRun, runs>>
bannerVars == <<banner, named, failures, hideTimer>>

UpdInit ==
    /\ flags = [checking |-> FALSE, available |-> FALSE, info |-> FALSE,
                downloading |-> FALSE, downloaded |-> FALSE]
    /\ checkRun = FALSE /\ loadRun = FALSE /\ askedUpdate = FALSE /\ pageLoad = FALSE
    /\ news = <<>> /\ banner = "none" /\ named = FALSE /\ failures = 0 /\ hideTimer = FALSE
    /\ runs = 0

Busy == banner \in {"downloading", "ready"}
\* What is rendered: nothing without a version, except about the check itself.
BannerShown == banner # "none" /\ (named \/ banner \in {"checking", "current", "failed"})
News(n) == news' = Append(news, n)

---------------------------------------------------------------------------
(* Checks.                                                                 *)
Started == runs < MaxChecks /\ runs' = runs + 1

\* checkForUpdatesAutomatically
AutoCheck ==
    /\ ~flags.checking /\ ~flags.downloading /\ ~flags.downloaded
    /\ Started
    /\ flags' = [flags EXCEPT !.checking = TRUE]
    /\ checkRun' = TRUE
    /\ UNCHANGED <<loadRun, askedUpdate, pageLoad, news, bannerVars>>

\* handleCheckForUpdates and updater:checkForUpdates: answered at once when
\* a download or another check is under way, or the update is there.
ManualCheck ==
    /\ ~Busy /\ ~askedUpdate
    /\ Started
    /\ banner' = "checking"
    /\ IF flags.downloading \/ flags.downloaded \/ flags.checking
       THEN /\ News(IF flags.downloading THEN "isDownloading"
                    ELSE IF flags.downloaded THEN "isDownloaded" ELSE "isChecking")
            /\ UNCHANGED <<flags, checkRun, askedUpdate>>
       ELSE /\ flags' = [flags EXCEPT !.checking = TRUE, !.available = FALSE]
            /\ checkRun' = TRUE
            /\ askedUpdate' = TRUE
            /\ UNCHANGED news
    /\ UNCHANGED <<loadRun, pageLoad, named, failures, hideTimer>>

\* What the page's call is told once the check it waited for has ended.
PageTold(n) == IF askedUpdate THEN <<n>> ELSE <<>>

\* update-available, and the end of the check
CheckFinds ==
    /\ checkRun
    /\ checkRun' = FALSE
    /\ flags' = [flags EXCEPT !.available = TRUE, !.info = TRUE, !.checking = FALSE]
    /\ news' = news \o (IF flags.downloading \/ flags.downloaded THEN <<>> ELSE <<"available">>)
                    \o PageTold("isAvailable")
    /\ askedUpdate' = FALSE
    /\ UNCHANGED <<loadRun, pageLoad, bannerVars, runs>>

\* update-not-available
CheckFindsNothing ==
    /\ checkRun
    /\ checkRun' = FALSE
    /\ flags' = [flags EXCEPT !.available = FALSE, !.info = FALSE, !.checking = FALSE,
                              !.downloaded = FALSE]
    /\ news' = news \o PageTold("isCurrent")
    /\ askedUpdate' = FALSE
    /\ UNCHANGED <<loadRun, pageLoad, bannerVars, runs>>

\* 'error', and the check rejects
CheckErrs ==
    /\ checkRun
    /\ checkRun' = FALSE
    /\ flags' = [flags EXCEPT !.checking = FALSE, !.downloading = FALSE]
    /\ news' = (news \o <<"error">>) \o PageTold("checkFailed")
    /\ askedUpdate' = FALSE
    /\ UNCHANGED <<loadRun, pageLoad, bannerVars, runs>>

\* 15 seconds: nobody waits for the check any more, though it goes on.
CheckTimesOut ==
    /\ checkRun /\ flags.checking
    /\ flags' = [flags EXCEPT !.checking = FALSE]
    /\ news' = news \o PageTold("checkFailed")
    /\ askedUpdate' = FALSE
    /\ UNCHANGED <<checkRun, loadRun, pageLoad, bannerVars, runs>>

---------------------------------------------------------------------------
(* The download.                                                           *)

\* handleDownload and updater:downloadUpdate.
Download ==
    /\ BannerShown /\ banner = "available"
    /\ Started
    /\ failures' = 0
    /\ IF ~flags.info
       THEN /\ banner' = "available"
            /\ UNCHANGED <<flags, loadRun, pageLoad>>
       ELSE /\ banner' = "downloading"
            /\ IF flags.downloading \/ flags.downloaded
               THEN UNCHANGED <<flags, loadRun, pageLoad>>
               ELSE /\ flags' = [flags EXCEPT !.downloading = TRUE]
                    /\ loadRun' = TRUE
                    /\ pageLoad' = TRUE
    /\ UNCHANGED <<checkRun, askedUpdate, news, named, hideTimer>>

\* update-downloaded
DownloadEnds ==
    /\ loadRun
    /\ loadRun' = FALSE
    /\ flags' = [flags EXCEPT !.downloading = FALSE, !.downloaded = TRUE, !.info = TRUE]
    /\ pageLoad' = FALSE
    /\ News("downloaded")
    /\ UNCHANGED <<checkRun, askedUpdate, bannerVars, runs>>

\* 'error', and the page's call rejects
DownloadErrs ==
    /\ loadRun
    /\ loadRun' = FALSE
    /\ flags' = [flags EXCEPT !.checking = FALSE, !.downloading = FALSE]
    /\ news' = (news \o <<"error">>) \o IF pageLoad THEN <<"downloadFailed">> ELSE <<>>
    /\ pageLoad' = FALSE
    /\ UNCHANGED <<checkRun, askedUpdate, bannerVars, runs>>

---------------------------------------------------------------------------
(* The banner hears of it.                                                 *)
HearEvent(n) ==
    \/ /\ n = "available"
       /\ IF Busy THEN UNCHANGED bannerVars
          ELSE banner' = "available" /\ named' = TRUE /\ hideTimer' = FALSE /\ UNCHANGED failures
    \/ /\ n = "downloaded"
       /\ banner' = "ready" /\ named' = TRUE
       /\ UNCHANGED <<failures, hideTimer>>
    \/ /\ n = "error"      \* the second in a row, or a checksum that fails
       /\ failures' = IF failures < 2 THEN failures + 1 ELSE 2
       /\ \/ banner' = "stuck"
          \/ /\ failures' < 2
             /\ banner' = IF banner = "ready" THEN banner ELSE "available"
       /\ UNCHANGED <<named, hideTimer>>

HearAnswer(n) ==
    \/ /\ n = "downloadFailed"
       /\ banner' = "available"
       /\ UNCHANGED <<named, failures, hideTimer>>
    \/ /\ n \in {"checkFailed", "isCurrent"}
       /\ banner' = IF n = "isCurrent" THEN "current" ELSE "failed"
       /\ hideTimer' = TRUE
       /\ UNCHANGED <<named, failures>>
    \/ /\ n \in {"isChecking", "isAvailable", "isDownloading", "isDownloaded"}
       /\ banner' = CASE n = "isChecking" -> "checking"
                      [] n = "isAvailable" -> "available"
                      [] n = "isDownloading" -> "downloading"
                      [] n = "isDownloaded" -> "ready"
       /\ named' = (named \/ n # "isChecking")
       /\ UNCHANGED <<failures, hideTimer>>

Hear ==
    /\ news # <<>>
    /\ HearEvent(Head(news)) \/ HearAnswer(Head(news))
    /\ news' = Tail(news)
    /\ UNCHANGED <<mainVars, askedUpdate, pageLoad>>

\* A timer of an earlier "up to date" or "failed": whatever is shown now goes.
HideFires ==
    /\ hideTimer
    /\ hideTimer' = FALSE
    /\ banner' = "none"
    /\ UNCHANGED <<mainVars, askedUpdate, pageLoad, news, named, failures>>

Dismiss ==
    /\ BannerShown
    /\ banner' = "none"
    /\ UNCHANGED <<mainVars, askedUpdate, pageLoad, news, named, failures, hideTimer>>

---------------------------------------------------------------------------
UpdNext ==
    \/ AutoCheck \/ ManualCheck \/ CheckFinds \/ CheckFindsNothing \/ CheckErrs \/ CheckTimesOut
    \/ Download \/ DownloadEnds \/ DownloadErrs
    \/ Hear \/ HideFires \/ Dismiss

UpdSpec == UpdInit /\ [][UpdNext]_updVars

---------------------------------------------------------------------------
(* A banner that says the update is being downloaded does not say it for   *)
(* nothing: the download runs, news of how it ended is on the way, or the  *)
(* update is there, whatever checks and failures came between              *)
(* (UpdateBanner, updater:downloadUpdate).                                 *)
DownloadIsReal ==
    banner = "downloading" => loadRun \/ news # <<>> \/ flags.downloaded

\* All three: page, backend and updater agree on what is running.
ShellIsSound ==
  PageKnowsPort /\ NoOrphanBackend /\ DownloadIsReal
=============================================================================

------------------------- MODULE ResyncCoordinator ------------------------
(***************************************************************************)
(* Catching subscribers up that missed messages                            *)
(* (websocket/setup_watch.go, type resyncCoordinator, driven by the        *)
(* subscription manager's callbacks), for one topic.                       *)
(*                                                                         *)
(* A message dropped for a slow client asks for a pass that replays the    *)
(* topic's cache to every subscriber.  One goroutine at a time runs the    *)
(* topic's passes; what it decides under r.mu it reports to the watcher    *)
(* (SetDesynced) after the unlock.                                         *)
(***************************************************************************)
EXTENDS Integers

CONSTANTS
    MaxReruns,   \* maxReruns: passes in a row before the topic is desynced
    MaxDrops,    \* bound on the messages dropped in a behaviour
    MaxOpens,    \* bound on how often the topic is subscribed to anew
    LateClose    \* onTopicEmpty may run after the topic was taken up again

ASSUME ResyncBoundsAssumption ==
    /\ MaxReruns \in Nat /\ MaxDrops \in Nat /\ MaxOpens \in Nat
    /\ LateClose \in BOOLEAN

VARIABLES
    known,      \* the topic has a resyncState
    st,         \* its fields
    pass,       \* the goroutine: "none", "sleeping", "began", "read"
    reruns,     \* its count of passes in a row, capped at MaxReruns
    report,     \* SetDesynced calls it still has to make
    desynced,   \* what the watcher was last told
    missed,     \* a subscriber misses something no replay has sent since
    subscribed, \* the topic has subscribers
    closing,    \* onTopicEmpty calls under way
    drops, opens

resyncVars == <<known, st, pass, reruns, report, desynced, missed, subscribed,
          closing, drops, opens>>

ResyncState == [scheduled : BOOLEAN, running : BOOLEAN, rerun : BOOLEAN,
                gone : BOOLEAN, desynced : BOOLEAN]
FreshState == [scheduled |-> FALSE, running |-> FALSE, rerun |-> FALSE,
               gone |-> FALSE, desynced |-> FALSE]

ResyncTypeOK ==
    /\ known \in BOOLEAN
    /\ st \in ResyncState
    /\ pass \in {"none", "sleeping", "began", "read"}
    /\ reruns \in 0 .. MaxReruns
    /\ report \in {"none", "desynced", "cleared"}
    /\ desynced \in BOOLEAN
    /\ missed \in BOOLEAN
    /\ subscribed \in BOOLEAN
    /\ closing \in BOOLEAN
    /\ drops \in Nat
    /\ opens \in Nat

ResyncInit ==
    /\ known = FALSE
    /\ st = FreshState
    /\ pass = "none"
    /\ reruns = 0
    /\ report = "none"
    /\ desynced = FALSE
    /\ missed = FALSE
    /\ subscribed = FALSE
    /\ closing = FALSE
    /\ drops = 0
    /\ opens = 0

---------------------------------------------------------------------------
\* (mutation of Request: a running pass is taken to cover the request)
RequestWhileRunning ==
    LET s == [(IF known THEN st ELSE FreshState) EXCEPT !.gone = FALSE] IN
    /\ known' = TRUE
    /\ \/ /\ s.running \/ s.scheduled
          /\ st' = s
          /\ UNCHANGED <<pass, reruns>>
       \/ /\ ~s.running /\ ~s.scheduled
          /\ st' = [s EXCEPT !.scheduled = TRUE]
          /\ pass' = "sleeping"
          /\ reruns' = 0

(* request: a state is made if there is none; a running pass is to be run   *)
(* again, a scheduled one covers the request, and otherwise a goroutine is  *)
(* started.                                                                 *)
Request ==
    LET s == [(IF known THEN st ELSE FreshState) EXCEPT !.gone = FALSE] IN
    /\ known' = TRUE
    /\ \/ /\ s.running
          /\ st' = [s EXCEPT !.rerun = TRUE]
          /\ UNCHANGED <<pass, reruns>>
       \/ /\ ~s.running /\ s.scheduled
          /\ st' = s
          /\ UNCHANGED <<pass, reruns>>
       \/ /\ ~s.running /\ ~s.scheduled
          /\ st' = [s EXCEPT !.scheduled = TRUE]
          /\ pass' = "sleeping"
          /\ reruns' = 0

(* A send to a subscriber meets a full buffer: onBackpressureDrop.          *)
Drop ==
    /\ subscribed
    /\ drops < MaxDrops
    /\ drops' = drops + 1
    /\ missed' = TRUE
    /\ Request
    /\ UNCHANGED <<report, desynced, subscribed, closing, opens>>

(* run, from the end of its sleep to the call of Resync.  A report is out   *)
(* within the quarter of a second any goroutine sleeps first.               *)
PassBegins ==
    /\ pass = "sleeping"
    /\ report = "none"
    /\ pass' = "began"
    /\ st' = [st EXCEPT !.scheduled = FALSE, !.running = TRUE, !.rerun = FALSE]
    /\ UNCHANGED <<known, reruns, report, desynced, missed, subscribed,
                   closing, drops, opens>>

(* Resync reads the cache it sends.                                         *)
PassReads ==
    /\ pass = "began"
    /\ pass' = "read"
    /\ missed' = FALSE
    /\ UNCHANGED <<known, st, reruns, report, desynced, subscribed, closing,
                   drops, opens>>

(* Resync has returned, false if the topic's list was still in flight.      *)
Again(replayed) == (st.rerun \/ ~replayed) /\ ~st.gone

AfterPass(replayed) ==
    LET again == Again(replayed)
        lost == again /\ reruns >= MaxReruns
    IN /\ st' = [st EXCEPT !.running = FALSE, !.scheduled = again,
                           !.desynced = again /\ (@ \/ lost)]
       /\ report' = CASE lost /\ ~st.desynced -> "desynced"
                      [] ~again /\ st.desynced -> "cleared"
                      [] OTHER -> "none"
       /\ known' = (again \/ ~st.gone)
       /\ pass' = IF again THEN "sleeping" ELSE "none"
       /\ reruns' = IF reruns < MaxReruns THEN reruns + 1 ELSE reruns

PassEnds ==
    /\ \/ pass = "read" /\ AfterPass(TRUE)
       \/ pass = "began" /\ AfterPass(FALSE)
    /\ UNCHANGED <<desynced, missed, subscribed, closing, drops, opens>>

SetDesynced ==
    /\ report # "none"
    /\ desynced' = (report = "desynced")
    /\ report' = "none"
    /\ UNCHANGED <<known, st, pass, reruns, missed, subscribed, closing,
                   drops, opens>>

---------------------------------------------------------------------------
(* topicClosed.                                                             *)
Forget ==
    IF known /\ (st.scheduled \/ st.running)
    THEN st' = [st EXCEPT !.gone = TRUE] /\ UNCHANGED known
    ELSE known' = FALSE /\ UNCHANGED st

TopicClosed ==
    /\ closing
    /\ subscribed => LateClose
    /\ closing' = FALSE
    /\ Forget
    /\ UNCHANGED <<pass, reruns, report, desynced, missed, subscribed, drops,
                   opens>>

(* The last subscriber leaves; the callback runs after the unlock.          *)
LastLeaves ==
    /\ subscribed
    /\ ~closing
    /\ subscribed' = FALSE
    /\ missed' = FALSE
    /\ closing' = TRUE
    /\ UNCHANGED <<known, st, pass, reruns, report, desynced, drops, opens>>

FirstJoins ==
    /\ ~subscribed
    /\ closing => LateClose
    /\ opens < MaxOpens
    /\ opens' = opens + 1
    /\ subscribed' = TRUE
    /\ UNCHANGED <<known, st, pass, reruns, report, desynced, missed, closing,
                   drops>>

ResyncNext ==
    \/ Drop
    \/ PassBegins
    \/ PassReads
    \/ PassEnds
    \/ SetDesynced
    \/ TopicClosed
    \/ LastLeaves
    \/ FirstJoins

ResyncSpec == ResyncInit /\ [][ResyncNext]_resyncVars

(***************************************************************************)
(* The goroutine runs; the callback comes; and a topic's list does not     *)
(* stay in flight for ever, so passes that begin again and again do replay.*)
(***************************************************************************)
ResyncFairness ==
    /\ WF_resyncVars(PassBegins)
    /\ SF_resyncVars(PassReads)
    /\ WF_resyncVars(PassEnds)
    /\ WF_resyncVars(SetDesynced)
    /\ WF_resyncVars(TopicClosed)

ResyncFairSpec == ResyncSpec /\ ResyncFairness

---------------------------------------------------------------------------
(***************************************************************************)
(* A subscriber that misses something has a replay to come: a pass that    *)
(* has not read the cache yet, or one that will be run again (the comment  *)
(* on resyncCoordinator: "a quiet topic does not stay on a partial         *)
(* snapshot").                                                             *)
(***************************************************************************)
NoDropForgotten ==
    missed =>
        \/ pass = "sleeping"
        \/ pass = "began" /\ ~st.gone
        \/ pass = "read" /\ st.rerun /\ ~st.gone

(***************************************************************************)
(* The same at its weakest: while a subscriber misses something there is   *)
(* at least a pass, asleep or under way.                                   *)
(***************************************************************************)
NoSilentGap == missed => pass # "none"

(***************************************************************************)
(* A topic reported desynced is still being retried, and once reports are  *)
(* out the watcher's flag is the coordinator's.                            *)
(***************************************************************************)
DesyncedIsRetried ==
    /\ known /\ st.desynced => pass # "none"
    /\ report = "none" => desynced = (known /\ st.desynced)

(***************************************************************************)
(* The topic has one goroutine, and the flags in its state say where it    *)
(* is: request decides by them alone whether to start another.             *)
(***************************************************************************)
FlagsTellThePass ==
    /\ pass = "sleeping" <=> known /\ st.scheduled
    /\ pass \in {"began", "read"} <=> known /\ st.running

(***************************************************************************)
(* Subscribers that stay are caught up, and "desynced" does not stick.     *)
(***************************************************************************)
DropsAreMadeUp == missed ~> ~missed
DesyncClears == desynced ~> ~desynced

\* The three together: whoever missed something is caught up, and the flags
\* and the watcher say so.
ResyncIsSound == NoDropForgotten /\ DesyncedIsRetried /\ FlagsTellThePass
=============================================================================

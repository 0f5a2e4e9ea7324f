---------------------------- MODULE TopicHealth ---------------------------
(***************************************************************************)
(* How current a topic's rows are, and what its subscribers are told       *)
(* (k8s/watcher/topic_status.go, and the replay and the list of service.go *)
(* that close with a sync), for one topic.                                 *)
(*                                                                         *)
(* The watch loop and the resync coordinator (SetDesynced) decide what to  *)
(* send under healthMu and send it after the unlock; a replay copies the   *)
(* health before its pages and sends what it stands for behind them.  Only *)
(* a list and a replay exclude each other, by the topic's snapshot pass.   *)
(***************************************************************************)
VARIABLES
    health,   \* topicHealth: the fields that decide
    pending,  \* sender -> what it has decided to send and not sent yet
    replay,   \* what the replay under way closes with, or "none"
    shown,    \* what a subscriber has been told last
    due       \* the change of state nothing has told of yet

healthVars == <<health, pending, replay, shown, due>>

Senders == {"loop", "coordinator"}
States == {"ok", "failing"}
Healthy == [failingSince |-> FALSE, desyncedSince |-> FALSE,
            unconfirmed |-> FALSE]

\* "sync" is the sync_complete of a list, with the "ok" it may be followed by.
HealthTypeOK ==
    /\ health \in [failingSince : BOOLEAN, desyncedSince : BOOLEAN,
                   unconfirmed : BOOLEAN]
    /\ pending \in [Senders -> States \cup {"none", "sync"}]
    /\ replay \in States \cup {"none"}
    /\ shown \in States \cup {"none"}
    /\ due \in States \cup {"none"}

HealthInit ==
    /\ health = Healthy
    /\ pending = [s \in Senders |-> "none"]
    /\ replay = "none"
    /\ shown = "none"
    /\ due = "none"

Failing(h) == h.failingSince \/ h.desyncedSince
Status(h) == IF Failing(h) THEN "failing" ELSE "ok"
Says(msg) == IF msg = "sync" THEN "ok" ELSE msg

\* The health changes under healthMu; msg, if any, is sent after the unlock.
Decide(sender, h, msg) ==
    /\ pending[sender] = "none"
    /\ health' = h
    /\ pending' = [pending EXCEPT ![sender] = msg]
    /\ due' = IF Failing(h) # Failing(health) THEN Status(h) ELSE due
    /\ UNCHANGED <<replay, shown>>

StatusIf(h, send) == IF send THEN Status(h) ELSE "none"

---------------------------------------------------------------------------
(* noteTopicFailing: the first failure is told, a later one when the last   *)
(* message is topicStatusRefresh old.                                       *)
\* (mutation of NoteFailing: only the first failure is told)
NoteFailingOnce(refresh) ==
    LET h == [health EXCEPT !.failingSince = TRUE]
    IN Decide("loop", h, StatusIf(h, ~health.failingSince))

NoteFailing(refresh) ==
    LET h == [health EXCEPT !.failingSince = TRUE]
    IN Decide("loop", h, StatusIf(h, ~health.failingSince \/ refresh))

(* noteTopicSynced: a list completed.  It holds the topic's pass, and its   *)
(* sync_complete goes out in any case, ahead of the "ok" that may be due.   *)
NoteSynced ==
    /\ replay = "none"
    /\ Decide("loop",
              [health EXCEPT !.failingSince = FALSE, !.unconfirmed = FALSE],
              "sync")

(* noteTopicRecovered: the watch delivers again where it left off.          *)
\* (mutation of NoteRecovered: the next list is left to tell)
NoteRecoveredSilent ==
    /\ health.failingSince
    /\ Decide("loop", [health EXCEPT !.failingSince = FALSE], "none")

NoteRecovered ==
    LET h == [health EXCEPT !.failingSince = FALSE] IN
    /\ health.failingSince
    /\ Decide("loop", h, StatusIf(h, ~Failing(h)))

(* noteTopicPreloaded: the cache was filled from a persisted snapshot.      *)
NotePreloaded ==
    Decide("loop", [health EXCEPT !.unconfirmed = TRUE], "none")

(* SetDesynced: both ways only a change is told, and only one that shows.   *)
NoteDesynced(desynced) ==
    LET h == [health EXCEPT !.desyncedSince = desynced] IN
    /\ health.desyncedSince # desynced
    /\ Decide("coordinator", h,
              StatusIf(h, IF desynced THEN ~health.failingSince
                                      ELSE Failing(health) /\ ~Failing(h)))

SendTopicStatus(sender) ==
    /\ pending[sender] # "none"
    /\ shown' = Says(pending[sender])
    /\ due' = IF Says(pending[sender]) = due THEN "none" ELSE due
    /\ pending' = [pending EXCEPT ![sender] = "none"]
    /\ UNCHANGED <<health, replay>>

(* replayLocked, in the topic's pass, so not while a list is closing: the   *)
(* health is copied before the pages are sent.  Rows that are not confirmed *)
(* or whose watch fails close with a failed sync, a desynced topic's with a *)
(* sync_complete and the status behind it.                                  *)
ReplayReads ==
    /\ pending["loop"] # "sync"
    /\ replay = "none"
    /\ replay' = IF Failing(health) \/ health.unconfirmed
                 THEN "failing" ELSE "ok"
    /\ UNCHANGED <<health, pending, shown, due>>

ReplayEnds ==
    /\ replay # "none"
    /\ shown' = replay
    /\ replay' = "none"
    /\ due' = IF replay = due THEN "none" ELSE due
    /\ UNCHANGED <<health, pending>>

(* clearTopicHealth: the topic's watch was let go of, or a first subscriber *)
(* starts one anew.  Messages of the watch before it may still be under way.*)
ClearTopicHealth ==
    /\ health' = Healthy
    /\ shown' = "none"
    /\ due' = "none"
    /\ UNCHANGED <<pending, replay>>

HealthNext ==
    \/ \E refresh \in BOOLEAN : NoteFailing(refresh)
    \/ NoteSynced
    \/ NoteRecovered
    \/ NotePreloaded
    \/ \E d \in BOOLEAN : NoteDesynced(d)
    \/ \E s \in Senders : SendTopicStatus(s)
    \/ ReplayReads
    \/ ReplayEnds
    \/ ClearTopicHealth

HealthSpec == HealthInit /\ [][HealthNext]_healthVars

(***************************************************************************)
(* Messages decided on are sent, a replay ends (its pages are bounded), and *)
(* a watch that cannot reach its cluster keeps trying: as long as it fails,*)
(* the refresh of its status comes round again and again.                  *)
(***************************************************************************)
HealthFairness ==
    /\ \A s \in Senders : WF_healthVars(SendTopicStatus(s))
    /\ WF_healthVars(ReplayEnds)
    /\ SF_healthVars(health.failingSince /\ NoteFailing(TRUE))

HealthFairSpec == HealthSpec /\ HealthFairness

---------------------------------------------------------------------------
(***************************************************************************)
(* Whenever a topic turns failing or recovers, a message that says so is   *)
(* about to be sent or has been since: two causes that begin and end in    *)
(* any order, with replays between them, never leave a change untold.      *)
(***************************************************************************)
ChangeIsTold == due # "none" => \E s \in Senders : Says(pending[s]) = due

(***************************************************************************)
(* A topic that keeps failing is shown as failing, whatever overtook the   *)
(* first message (an "ok" of the coordinator decided on before it, a       *)
(* replay that copied the health before it): the refresh of                *)
(* noteTopicFailing makes up for it.                                       *)
(***************************************************************************)
FailingIsShown ==
    health.failingSince ~> (shown = "failing" \/ ~health.failingSince)
===========================================================================

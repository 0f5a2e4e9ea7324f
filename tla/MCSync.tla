------------------------------- MODULE MCSync -------------------------------
(***************************************************************************)
(* The path of a list to the screen, for TLC: the rows of one topic from   *)
(* the cluster to the client (TopicSync), the connection that carries all  *)
(* topics (WsClient), the runtimes that subscribe the lists on screen      *)
(* (ListRuntimes). A behaviour is one of theirs, which says whose.         *)
(***************************************************************************)
EXTENDS TopicSync, WsClient, ListRuntimes

CONSTANTS pod1, pod2, items, dashboard, logs, c1, c2, pods, nodes

VARIABLE which
mcVars == <<which, syncVars, wsVars, runtimeVars>>

MCInit ==
  /\ which \in {"sync", "ws", "lists"}
  /\ SyncInit /\ WsInit /\ RuntimesInit
  /\ which # "sync" => loop.first = NoRows /\ ses = NewSession(NoRows)

MCNext ==
  \/ which = "sync"  /\ SyncNext     /\ UNCHANGED <<which, wsVars, runtimeVars>>
  \/ which = "ws"    /\ WsNext       /\ UNCHANGED <<which, syncVars, runtimeVars>>
  \/ which = "lists" /\ RuntimesNext /\ UNCHANGED <<which, syncVars, wsVars>>

MCSpec == MCInit /\ [][MCNext]_mcVars
=============================================================================

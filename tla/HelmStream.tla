----------------------------- MODULE HelmStream -----------------------------
(***************************************************************************)
(* The Helm release stream of one cluster: the backend's HelmHandler       *)
(* (websocket/handlers/helm_handler.go) and the client's hook              *)
(* (hooks/useHelmReleasesStream.ts, helmSnapshot.ts, store/helmSlice.ts).  *)
(*                                                                         *)
(* The cluster's release secrets are external: a release is the revision   *)
(* deployed (0: not installed), revisions never repeat, and every change   *)
(* is an event of `log'.  Streams are numbered as they are made; `cur' is  *)
(* h.streams[cluster].  Our client talks over one connection: `up' holds   *)
(* its requests, `down' the frames sent to it, both in order.  Another     *)
(* client ("them") joins and leaves the same stream.  A frame dropped by a *)
(* full send queue, and a lost connection, are left to WsClient.           *)
(*                                                                         *)
(* A chunk bounded by size is one chunk here, or one per release in a      *)
(* first load; releases always carry full data; progress is left out.      *)
(***************************************************************************)
EXTENDS Integers, Sequences, FiniteSets

CONSTANTS
  Releases,      \* releases of the cluster
  MaxHelmEvents, \* bound: changes of the cluster's releases
  MaxHelmStreams,\* bound: streams ever made
  MaxHelmFaults, \* bound: failures, watches that end, relists
  MaxHelmClicks  \* bound: mounts, unmounts, refreshes, and the other client's

ASSUME HelmAssumption ==
  {MaxHelmEvents, MaxHelmStreams, MaxHelmFaults, MaxHelmClicks} \subseteq Nat

VARIABLES
  installedRev,  \* [release -> revision deployed, 0 when none]
  log,           \* events of the release secrets [r, kind, rev]
  streams,       \* every stream ever made
  cur,           \* index of the stream in h.streams, 0: none
  snapshots,     \* h.snapshots
  fetching,      \* fetches under way [s, r, n, kind, rev]; rev -1: not read yet
  hubSub,        \* our connection is subscribed to the topic
  joining,       \* stream our subscribe joined and has not sent the snapshot of, 0: none
  up, down,      \* requests to the backend, frames to the client
  hook,          \* [on, handler, timer]: mounted, handler registered, refresh timer
  coll,          \* snapshotRef: [id, keys, open]
  rels,          \* helmReleases [release -> revision, 0 when absent]
  helmLoading, helmStreaming, helmError,
  helmFaults, helmClicks,
  strayed        \* ghost: "relisted": a fetch started before a relist undid a newer
                 \* revision; "cancelled": one of a stream cancelled since was published

clusterVars == <<installedRev, log>>
serverVars  == <<streams, cur, snapshots, fetching, hubSub, joining>>
hookVars    == <<hook, coll, rels, helmLoading, helmStreaming, helmError>>
helmVars    == <<clusterVars, serverVars, up, down, hookVars, helmFaults, helmClicks, strayed>>

NoRelease == [r \in Releases |-> 0]
NewCollector == [id |-> 0, keys |-> {}, open |-> FALSE]

HelmInit ==
  /\ installedRev \in {f \in [Releases -> 0..1] : \E r \in Releases : f[r] = 1}
  /\ log = <<>> /\ streams = <<>> /\ cur = 0 /\ snapshots = 0 /\ fetching = {}
  /\ hubSub = FALSE /\ joining = 0 /\ up = <<>> /\ down = <<>>
  /\ hook = [on |-> FALSE, handler |-> FALSE, timer |-> FALSE]
  /\ coll = NewCollector /\ rels = NoRelease
  /\ helmLoading = TRUE /\ helmStreaming = FALSE /\ helmError = FALSE
  /\ helmFaults = 0 /\ helmClicks = 0 /\ strayed = {}

-----------------------------------------------------------------------------
(* The cluster                                                             *)

Logged(r, kind, rev) ==
  /\ Len(log) < MaxHelmEvents
  /\ log' = Append(log, [r |-> r, kind |-> kind, rev |-> rev])
  /\ UNCHANGED <<serverVars, up, down, hookVars, helmFaults, helmClicks, strayed>>

Upgrade(r) ==
  /\ installedRev' = [installedRev EXCEPT ![r] = Len(log) + 2]
  /\ Logged(r, "changed", Len(log) + 2)

Uninstall(r) ==
  /\ installedRev[r] > 0
  /\ installedRev' = [installedRev EXCEPT ![r] = 0]
  /\ Logged(r, "deleted", installedRev[r])

\* helm prunes an old revision of a release whose history is too long
Prune(r) ==
  /\ installedRev[r] > 1
  /\ UNCHANGED installedRev
  /\ Logged(r, "deleted", 1)

-----------------------------------------------------------------------------
(* Frames.  conn.Send and Broadcast append to the same queue.              *)

Chunk(id, given) == [t |-> "chunk", id |-> id, rels |-> given, err |-> FALSE]
Done(id, failed) == [t |-> "done", id |-> id, rels |-> NoRelease, err |-> failed]
Event(kind, r, rev) ==
  [t |-> kind, id |-> 0, rels |-> [NoRelease EXCEPT ![r] = rev], err |-> FALSE]

Held(given) == {r \in Releases : given[r] > 0}
ChunkOf(id, given) == IF Held(given) = {} THEN <<>> ELSE <<Chunk(id, given)>>

\* hub.Broadcast(st.topic, frames)
Broadcast(frames) == down' = IF hubSub THEN down \o frames ELSE down

-----------------------------------------------------------------------------
(* Subscriptions                                                           *)

NewStream(who) ==
  [phase |-> "rv", first |-> TRUE, relist |-> TRUE, releases |-> NoRelease,
   loaded |-> FALSE, snap |-> 0, fetches |-> NoRelease, subs |-> {who},
   alive |-> TRUE, pos |-> 0, todo |-> {}, got |-> NoRelease, recent |-> {}]

\* the map entry of the cluster, made when there is none; under h.mu
Joined(who) ==
  IF cur = 0
  THEN /\ Len(streams) < MaxHelmStreams
       /\ streams' = Append(streams, NewStream(who))
       /\ cur' = Len(streams) + 1
  ELSE /\ streams' = [streams EXCEPT ![cur].subs = @ \cup {who}]
       /\ UNCHANGED cur

Left(who) ==
  IF cur = 0 THEN UNCHANGED <<streams, cur>>
  ELSE LET rest == streams[cur].subs \ {who} IN
       /\ streams' = [streams EXCEPT ![cur].subs = rest,
                                     ![cur].alive = @ /\ rest # {}]
       /\ cur' = IF rest = {} THEN 0 ELSE cur

\* handleSubscribe up to the unlock of h.mu; a new stream sends no snapshot
HandleSubscribe ==
  /\ joining = 0 /\ up # <<>> /\ Head(up) = "subscribe"
  /\ up' = Tail(up)
  /\ hubSub' = TRUE
  /\ Joined("us")
  /\ joining' = cur
  /\ UNCHANGED <<clusterVars, snapshots, fetching, down, hookVars, helmFaults, helmClicks, strayed>>

SnapshotFrames(st) ==
  ChunkOf(st.snap, st.releases) \o (IF st.loaded THEN <<Done(st.snap, FALSE)>> ELSE <<>>)

SendSnapshot ==
  /\ joining # 0
  /\ down' = down \o SnapshotFrames(streams[joining])
  /\ joining' = 0
  /\ UNCHANGED <<clusterVars, streams, cur, snapshots, fetching, hubSub, up, hookVars,
                 helmFaults, helmClicks, strayed>>

HandleUnsubscribe ==
  /\ joining = 0 /\ up # <<>> /\ Head(up) = "unsubscribe"
  /\ up' = Tail(up)
  /\ hubSub' = FALSE
  /\ Left("us")
  /\ UNCHANGED <<clusterVars, snapshots, fetching, joining, down, hookVars, helmFaults,
                 helmClicks, strayed>>

\* the other client subscribes, or unsubscribes or disconnects
OtherClient ==
  /\ helmClicks < MaxHelmClicks
  /\ helmClicks' = helmClicks + 1
  /\ IF cur # 0 /\ "them" \in streams[cur].subs THEN Left("them") ELSE Joined("them")
  /\ UNCHANGED <<clusterVars, snapshots, fetching, hubSub, joining, up, down, hookVars,
                 helmFaults, strayed>>

-----------------------------------------------------------------------------
(* runStream.  A cancelled stream ends at its next look at the context.    *)

Running(s, phase) == streams[s].alive /\ streams[s].phase = phase
SetStream(s, st) == streams' = [streams EXCEPT ![s] = st]
Faulty == helmFaults < MaxHelmFaults /\ helmFaults' = helmFaults + 1

streamRest == <<clusterVars, cur, fetching, hubSub, joining, up, hookVars, helmClicks, strayed>>

\* currentResourceVersion, then StreamReleases: the listing starts, a first
\* one under a new snapshot id
StartListing(s) ==
  /\ Running(s, "rv")
  /\ LET st == streams[s] IN
     /\ snapshots' = IF st.first THEN snapshots + 1 ELSE snapshots
     /\ SetStream(s, [st EXCEPT !.phase = "listing", !.pos = Len(log),
                                !.todo = Releases, !.got = NoRelease,
                                !.snap = IF st.first THEN snapshots + 1 ELSE @,
                                !.releases = IF st.first THEN NoRelease ELSE @])
  /\ UNCHANGED <<streamRest, down, helmFaults>>

\* one more release of the listing, or one not installed
ListRelease(s, r) ==
  /\ Running(s, "listing") /\ r \in streams[s].todo
  /\ LET st == streams[s]
         one == [NoRelease EXCEPT ![r] = installedRev[r]]
         left == [st EXCEPT !.todo = @ \ {r}] IN
     IF st.first
     THEN /\ SetStream(s, [left EXCEPT !.releases[r] =
                             IF installedRev[r] > 0 THEN installedRev[r] ELSE @])
          /\ Broadcast(ChunkOf(st.snap, one))
     ELSE /\ SetStream(s, [left EXCEPT !.got[r] = installedRev[r]])
          /\ UNCHANGED down
  /\ UNCHANGED <<streamRest, snapshots, helmFaults>>

\* replaceReleases: the collected listing becomes the snapshot
ReplaceReleases(s) ==
  /\ Running(s, "listing") /\ streams[s].todo = {} /\ ~streams[s].first
  /\ snapshots' = snapshots + 1
  /\ LET st == streams[s] IN
     /\ SetStream(s, [st EXCEPT !.phase = "replaced", !.snap = snapshots + 1,
                                !.releases = st.got, !.fetches = NoRelease])
     /\ Broadcast(ChunkOf(snapshots + 1, st.got))
  /\ UNCHANGED <<streamRest, helmFaults>>

\* loaded and the Done frame; without a resourceVersion the loop lists again
FinishListing(s) ==
  /\ \/ Running(s, "replaced")
     \/ Running(s, "listing") /\ streams[s].first /\ streams[s].todo = {}
  /\ LET done == [streams[s] EXCEPT !.loaded = TRUE, !.first = FALSE, !.recent = {}] IN
     \/ /\ SetStream(s, [done EXCEPT !.phase = "watch", !.relist = FALSE])
        /\ UNCHANGED helmFaults
     \/ /\ Faulty
        /\ SetStream(s, [done EXCEPT !.phase = "rv"])
  /\ Broadcast(<<Done(streams[s].snap, FALSE)>>)
  /\ UNCHANGED <<streamRest, snapshots>>

\* no client, or the load failed: a first load's failure ends the stream
ListingFails(s) ==
  /\ Running(s, "rv") \/ Running(s, "listing")
  /\ Faulty
  /\ IF streams[s].first
     THEN /\ SetStream(s, [streams[s] EXCEPT !.phase = "failed"])
          /\ Broadcast(<<Done(streams[s].snap, TRUE)>>)
     ELSE /\ SetStream(s, [streams[s] EXCEPT !.phase = "rv"])
          /\ UNCHANGED down
  /\ UNCHANGED <<streamRest, snapshots>>

\* the watch ends: it resumes where it was, or its version is gone
WatchEnds(s) ==
  /\ Running(s, "watch") /\ Faulty
  /\ \E gone \in BOOLEAN :
       SetStream(s, [streams[s] EXCEPT !.phase = IF gone THEN "rv" ELSE "watch",
                                       !.relist = gone, !.recent = {}])
  /\ UNCHANGED <<streamRest, snapshots, down>>

\* the deferred dropStream
DropStream(s) ==
  /\ streams[s].phase # "gone"
  /\ streams[s].phase = "failed" \/ ~streams[s].alive
  /\ cur' = IF cur = s THEN 0 ELSE cur
  /\ SetStream(s, [streams[s] EXCEPT !.phase = "gone", !.alive = FALSE])
  /\ UNCHANGED <<clusterVars, snapshots, fetching, hubSub, joining, up, down, hookVars,
                 helmFaults, helmClicks, strayed>>

-----------------------------------------------------------------------------
(* processWatchEvents and the fetches it starts                            *)

Fetch(s, r, kind) ==
  [s |-> s, r |-> r, n |-> streams[s].fetches[r] + 1, kind |-> kind, rev |-> -1,
   listing |-> streams[s].snap]

\* a later event of a release fetched less than 500 ms ago may be skipped,
\* the deletion of an older revision than the one shown is
Skippable(st, e) ==
  IF e.kind = "deleted" THEN st.releases[e.r] > e.rev ELSE e.r \in st.recent
Skipped(st, e) == IF e.kind = "deleted" THEN st.releases[e.r] > e.rev ELSE FALSE

WatchEvent(s) ==
  /\ Running(s, "watch") /\ streams[s].pos < Len(log)
  /\ LET st == streams[s]
         e == log[st.pos + 1]
         seen == [st EXCEPT !.pos = @ + 1,
                            !.recent = IF e.kind = "deleted" THEN @ \ {e.r} ELSE @ \cup {e.r}] IN
     \/ /\ Skippable(st, e)
        /\ SetStream(s, seen)
        /\ UNCHANGED fetching
     \/ /\ ~Skipped(st, e)
        /\ SetStream(s, [seen EXCEPT !.fetches[e.r] = @ + 1])
        /\ fetching' = fetching \cup {Fetch(s, e.r, e.kind)}
  /\ UNCHANGED <<clusterVars, cur, snapshots, hubSub, joining, up, down, hookVars,
                 helmFaults, helmClicks, strayed>>

\* GetReleaseBasic, which does not look at the context
FetchReads(f) ==
  /\ f.rev = -1
  /\ fetching' = (fetching \ {f}) \cup {[f EXCEPT !.rev = installedRev[f.r]]}
  /\ UNCHANGED <<clusterVars, streams, cur, snapshots, hubSub, joining, up, down, hookVars,
                 helmFaults, helmClicks, strayed>>

\* it failed, or a changed release was not found after three attempts
FetchFails(f) ==
  /\ \/ f.rev = -1 /\ Faulty
     \/ f.rev = 0 /\ f.kind = "changed" /\ UNCHANGED helmFaults
  /\ fetching' = fetching \ {f}
  /\ UNCHANGED <<clusterVars, streams, cur, snapshots, hubSub, joining, up, down, hookVars,
                 helmClicks, strayed>>

Outdated(f) == streams[f.s].fetches[f.r] # f.n
Stray(f) == {why \in {"cancelled", "relisted"} :
               IF why = "cancelled" THEN ~streams[f.s].alive
               ELSE /\ streams[f.s].alive /\ streams[f.s].snap # f.listing
                    /\ f.rev \in 1..(streams[f.s].releases[f.r] - 1)}

\* publishFetched, publishEventLocked
PublishFetched(f) ==
  /\ f.rev >= 0 /\ ~(f.rev = 0 /\ f.kind = "changed")
  /\ fetching' = fetching \ {f}
  /\ IF Outdated(f)
     THEN UNCHANGED <<streams, down, strayed>>
     ELSE /\ streams' = [streams EXCEPT ![f.s].releases[f.r] = f.rev]
          /\ Broadcast(<<Event(IF f.rev = 0 THEN "deleted" ELSE "changed", f.r,
                               IF f.rev = 0 THEN 1 ELSE f.rev)>>)
          /\ strayed' = strayed \cup Stray(f)
  /\ UNCHANGED <<clusterVars, cur, snapshots, hubSub, joining, up, hookVars, helmFaults,
                 helmClicks>>

-----------------------------------------------------------------------------
(* The hook                                                                *)

helmBackend == <<clusterVars, serverVars, helmFaults, strayed>>
Click == helmClicks < MaxHelmClicks /\ helmClicks' = helmClicks + 1

\* subscribe: the message, a new collector, the handler
Subscribed == /\ up' = Append(up, "subscribe")
              /\ coll' = NewCollector

\* a cache younger than 30 s is shown without a loading state
Mount ==
  /\ Click /\ ~hook.on
  /\ hook' = [on |-> TRUE, handler |-> TRUE, timer |-> FALSE]
  /\ \E fresh \in BOOLEAN :
       /\ fresh => Held(rels) # {}
       /\ helmLoading' = ~fresh
       /\ helmStreaming' = IF fresh THEN helmStreaming ELSE TRUE
  /\ helmError' = FALSE
  /\ Subscribed
  /\ UNCHANGED <<helmBackend, down, rels>>

\* unsubscribe sends nothing while a refresh waits to subscribe
Unsubscribed == up' = IF hook.handler THEN Append(up, "unsubscribe") ELSE up

Unmount ==
  /\ Click /\ hook.on
  /\ Unsubscribed
  /\ hook' = [on |-> FALSE, handler |-> FALSE, timer |-> FALSE]
  /\ helmStreaming' = FALSE
  /\ UNCHANGED <<helmBackend, down, coll, rels, helmLoading, helmError>>

Refresh ==
  /\ Click /\ hook.on
  /\ Unsubscribed
  /\ hook' = [hook EXCEPT !.handler = FALSE, !.timer = TRUE]
  /\ rels' = NoRelease
  /\ helmLoading' = TRUE /\ helmStreaming' = TRUE /\ helmError' = FALSE
  /\ UNCHANGED <<helmBackend, down, coll>>

RefreshTimer ==
  /\ hook.timer
  /\ hook' = [hook EXCEPT !.handler = TRUE, !.timer = FALSE]
  /\ Subscribed
  /\ UNCHANGED <<helmBackend, down, rels, helmLoading, helmStreaming, helmError, helmClicks>>

\* collectHelmChunk
Collected(c, id, keys) ==
  IF c.open /\ c.id = id THEN [c EXCEPT !.keys = @ \cup keys]
  ELSE [id |-> id, keys |-> keys, open |-> TRUE]

KeepsMissed(c, id) == IF c.id # id THEN Releases ELSE IF c.open THEN c.keys ELSE Releases

\* finishHelmSnapshot: the keys a Done keeps
Keeps(c, id) == IF c.id # id THEN {} ELSE IF c.open THEN c.keys ELSE Releases
Finished(id) == [id |-> id, keys |-> {}, open |-> FALSE]

\* addHelmReleases, pruneHelmReleases
Added(given) == [r \in Releases |-> IF given[r] > 0 THEN given[r] ELSE rels[r]]
Pruned(keep) == [r \in Releases |-> IF r \in keep THEN rels[r] ELSE 0]

\* the handler, when one is registered; a frame without an id (a failure
\* before the first listing) ends no listing
Handle ==
  /\ down # <<>>
  /\ down' = Tail(down)
  /\ LET m == Head(down) IN
     IF ~hook.handler THEN UNCHANGED hookVars
     ELSE CASE m.t = "chunk" ->
                 /\ coll' = Collected(coll, m.id, Held(m.rels))
                 /\ rels' = Added(m.rels)
                 /\ helmLoading' = FALSE
                 /\ UNCHANGED <<hook, helmStreaming, helmError>>
            [] m.t = "done" ->
                 /\ IF m.id > 0 /\ ~m.err
                    THEN rels' = Pruned(Keeps(coll, m.id)) /\ coll' = Finished(m.id)
                    ELSE UNCHANGED <<rels, coll>>
                 /\ helmLoading' = FALSE /\ helmStreaming' = FALSE
                 /\ helmError' = (helmError \/ m.err)
                 /\ UNCHANGED hook
            [] m.t = "deleted" ->
                 /\ rels' = [r \in Releases |-> IF m.rels[r] > 0 THEN 0 ELSE rels[r]]
                 /\ UNCHANGED <<hook, coll, helmLoading, helmStreaming, helmError>>
            [] m.t = "changed" ->
                 /\ rels' = Added(m.rels)
                 /\ UNCHANGED <<hook, coll, helmLoading, helmStreaming, helmError>>
  /\ UNCHANGED <<helmBackend, up, helmClicks>>

HelmNext ==
  \/ \E r \in Releases : Upgrade(r) \/ Uninstall(r) \/ Prune(r)
  \/ HandleSubscribe \/ SendSnapshot \/ HandleUnsubscribe \/ OtherClient
  \/ \E s \in DOMAIN streams :
       \/ StartListing(s) \/ ReplaceReleases(s) \/ FinishListing(s) \/ ListingFails(s)
       \/ WatchEnds(s) \/ DropStream(s) \/ WatchEvent(s)
       \/ \E r \in Releases : ListRelease(s, r)
  \/ \E f \in fetching : FetchReads(f) \/ FetchFails(f) \/ PublishFetched(f)
  \/ Mount \/ Unmount \/ Refresh \/ RefreshTimer \/ Handle

-----------------------------------------------------------------------------
(* Properties                                                              *)

\* Nothing is on its way between our page and the backend.
Quiet == up = <<>> /\ down = <<>> /\ joining = 0

\* Once everything sent has been handled, a page with a handler shows exactly
\* what its stream holds, however chunks, the Done of a relist, live events
\* and a late join interleaved: a release uninstalled while the stream was
\* down is gone, none that is there is missing, each is at the stream's
\* revision (useHelmReleasesStream handler, sendSnapshot, replaceReleases).
\* A fetch published by a cancelled stream is excepted.
ListIsTheStreams ==
  (/\ Quiet /\ hook.handler /\ cur # 0 /\ "cancelled" \notin strayed
   /\ streams[cur].loaded /\ streams[cur].phase # "replaced")
    => rels = streams[cur].releases

\* A page that says it is loading, with nothing on its way to it, has a
\* stream that can still answer ("Never leave a dead stream in the map: later
\* subscribers must be able to start a fresh one", helm_handler.go:441).
\* No run claims it: the code does not keep it (README, Disagreements).
LoadingIsServed == (Quiet /\ hook.handler /\ helmLoading) => cur # 0

\* "Fetches started by the watch before it are older than it and are not
\* published" (replaceReleases, helm_handler.go:339): none undoes a newer
\* revision the stream holds.
\* No run claims it: the code does not keep it (README, Disagreements).
OldFetchesUnpublished == "relisted" \notin strayed
=============================================================================

----------------------------- MODULE HttpClient -----------------------------
(***************************************************************************)
(* The HTTP client of the user interface                                   *)
(* (frontend/src/services/api/client.ts): answers kept for a minute,       *)
(* identical reads in flight shared, invalidations, the recovery of the    *)
(* session.                                                                *)
(*                                                                         *)
(* There is one endpoint; what the backend would answer is a number that   *)
(* grows with every write.                                                 *)
(***************************************************************************)
EXTENDS Integers, FiniteSets, Sequences, SequencesExt

CONSTANTS
    Calls,          \* calls of the interface, each made once
    MaxWrites,      \* bound on the writes
    MaxSecrets      \* bound on the session secrets the backend goes through

\* 0 stands for no call.
ASSUME CallsAssumption == 0 \notin Calls

VARIABLES
    written,    \* what the backend would answer now
    kept,       \* cache: the answer kept, 0 when none
    shared,     \* inflight: kind of read -> the call whose request it is, 0 when none
    calls,      \* call -> its state
    mark,       \* what had been written at the last invalidation
    secret,     \* the session secret of the backend, of the client
    renewing    \* sessionRefreshInProgress

httpVars == <<written, kept, shared, calls, mark, secret, renewing>>

\* A call: idle, joined to another's request, sent, refused, its session
\* renewed, answered or failed; its kind; what had been invalidated when it was made; the secret
\* it was sent with, whether again; what it was answered.
Kinds == {"cached", "fresh", "own"}
NewCall == [st |-> "idle", kind |-> "own", to |-> 0, mark |-> 0, sec |-> 0,
            again |-> FALSE, got |-> 0, begun |-> 0]

HttpInit ==
    /\ written = 1 /\ kept = 0 /\ mark = 0
    /\ shared = [k \in Kinds |-> 0]
    /\ calls = [n \in Calls |-> NewCall]
    /\ secret = [server |-> 1, client |-> 1] /\ renewing = FALSE

---------------------------------------------------------------------------
(* request and requestFresh.                                               *)
Made(n, kind) == [NewCall EXCEPT !.kind = kind, !.mark = mark, !.begun = mark]

\* Answered from the cache.
AnswerKept(n) ==
    /\ calls[n].st = "idle" /\ kept # 0
    /\ calls' = [calls EXCEPT ![n] = [Made(n, "cached") EXCEPT !.st = "answered", !.got = kept]]
    /\ UNCHANGED <<written, kept, shared, mark, secret, renewing>>

\* Joins the request in flight.
JoinInflight(n, kind) ==
    /\ calls[n].st = "idle" /\ shared[kind] # 0
    /\ kind = "cached" => kept = 0
    /\ calls' = [calls EXCEPT ![n] = [Made(n, kind) EXCEPT !.st = "joined", !.to = shared[kind]]]
    /\ UNCHANGED <<written, kept, shared, mark, secret, renewing>>

\* A request of its own; the others of its kind may join it, unless it was
\* made without the cache or with an abort signal.
SendRequest(n, kind) ==
    /\ calls[n].st = "idle" /\ shared[kind] = 0
    /\ kind = "cached" => kept = 0
    /\ calls' = [calls EXCEPT ![n] = [Made(n, kind) EXCEPT !.st = "sent", !.sec = secret.client]]
    /\ shared' = IF kind = "own" THEN shared ELSE [shared EXCEPT ![kind] = n]
    /\ UNCHANGED <<written, kept, mark, secret, renewing>>

\* The backend reads; the answer is on its way.
ServerReads(n) ==
    /\ calls[n].st = "sent" /\ calls[n].got = 0 /\ calls[n].sec = secret.server
    /\ calls' = [calls EXCEPT ![n].got = written]
    /\ UNCHANGED <<written, kept, shared, mark, secret, renewing>>

\* forget, and what those that joined are told
Forgotten(n) == [k \in Kinds |-> IF shared[k] = n THEN 0 ELSE shared[k]]
Told(n, st, got) ==
    [m \in Calls |-> IF m = n \/ (calls[m].st = "joined" /\ calls[m].to = n)
                     THEN [calls[m] EXCEPT !.st = st, !.got = got] ELSE calls[m]]

\* fetchAndCache: the answer is kept, whatever was invalidated meanwhile.
Answered(n) ==
    /\ calls[n].st = "sent" /\ calls[n].got # 0
    /\ calls' = Told(n, "answered", calls[n].got)
    /\ kept' = IF calls[n].kind = "cached" THEN calls[n].got ELSE kept
    /\ shared' = Forgotten(n)
    /\ UNCHANGED <<written, mark, secret, renewing>>

RequestFails(n) ==
    /\ calls[n].st = "sent" \/ (calls[n].st = "renewed" /\ calls[n].again)
    /\ calls' = Told(n, "failed", 0)
    /\ shared' = Forgotten(n)
    /\ UNCHANGED <<written, kept, mark, secret, renewing>>

---------------------------------------------------------------------------
(* The session: the refused wait for one renewal, then each is sent once   *)
(* more.                                                                   *)
Refused(n) ==
    /\ calls[n].st = "sent" /\ calls[n].got = 0 /\ calls[n].sec # secret.server
    /\ calls' = [calls EXCEPT ![n].st = "refused"]
    /\ renewing' = TRUE
    /\ UNCHANGED <<written, kept, shared, mark, secret>>

SecretRenewed ==
    /\ renewing
    /\ renewing' = FALSE
    /\ secret' = [secret EXCEPT !.client = secret.server]
    /\ calls' = [n \in Calls |-> IF calls[n].st = "refused"
                                 THEN [calls[n] EXCEPT !.st = "renewed"] ELSE calls[n]]
    /\ UNCHANGED <<written, kept, shared, mark>>

\* The main process has no secret: those that wait fail.
RenewalFails ==
    /\ renewing
    /\ renewing' = FALSE
    /\ LET lost == {n \in Calls : calls[n].st = "refused"} IN
       /\ calls' = [n \in Calls |->
              IF n \in lost \/ (calls[n].st = "joined" /\ calls[n].to \in lost)
              THEN [calls[n] EXCEPT !.st = "failed"] ELSE calls[n]]
       /\ shared' = [k \in Kinds |-> IF shared[k] \in lost THEN 0 ELSE shared[k]]
    /\ UNCHANGED <<written, kept, mark, secret>>

SendAgain(n) ==
    /\ calls[n].st = "renewed" /\ ~calls[n].again
    /\ calls' = [calls EXCEPT ![n].st = "sent", ![n].sec = secret.client, ![n].again = TRUE]
    /\ UNCHANGED <<written, kept, shared, mark, secret, renewing>>

BackendRestarts ==
    /\ secret.server < MaxSecrets
    /\ secret' = [secret EXCEPT !.server = @ + 1]
    /\ UNCHANGED <<written, kept, shared, calls, mark, renewing>>

---------------------------------------------------------------------------
(* A write and the invalidation after it (invalidateCache).                *)
\* (mutation of ForgetInflight: the requests in flight go on being shared)
ForgetNothing == shared
ForgetInflight == [k \in Kinds |-> 0]

Invalidate ==
    /\ written <= MaxWrites
    /\ written' = written + 1
    /\ mark' = written'
    /\ kept' = 0
    /\ shared' = ForgetInflight
    /\ UNCHANGED <<calls, secret, renewing>>

\* A minute passes: the cached answer is no longer given.
CacheExpires ==
    /\ kept # 0
    /\ kept' = 0
    /\ UNCHANGED <<written, shared, calls, mark, secret, renewing>>

---------------------------------------------------------------------------
HttpNext ==
    \/ \E n \in Calls :
          \/ AnswerKept(n) \/ ServerReads(n) \/ Answered(n) \/ RequestFails(n)
          \/ Refused(n) \/ SendAgain(n)
          \/ \E kind \in {"cached", "fresh"} : JoinInflight(n, kind)
          \/ \E kind \in Kinds : SendRequest(n, kind)
    \/ SecretRenewed \/ RenewalFails \/ BackendRestarts \/ Invalidate \/ CacheExpires

HttpSpec == HttpInit /\ [][HttpNext]_httpVars

---------------------------------------------------------------------------
(* A call never waits on a request begun before an invalidation it came    *)
(* after, and is never left waiting on one that ended (request,            *)
(* forgetInflight, requestFresh).                                          *)
JoinsAreFresh ==
    \A n \in Calls : calls[n].st = "joined" =>
        LET r == calls[calls[n].to] IN
        r.st \in {"sent", "refused", "renewed"} /\ r.begun >= calls[n].mark

(* "A request started before an invalidation must not answer callers that  *)
(* come after it: they get a fresh round trip instead" (client.ts:202):    *)
(* no call is answered with what was read before the invalidation it came  *)
(* after.                                                                  *)
(* No run claims it: the code does not keep it (README, Disagreements).     *)
FreshAfterInvalidation ==
    \A n \in Calls : calls[n].st = "answered" => calls[n].got >= calls[n].mark

-----------------------------------------------------------------------------
(***************************************************************************)
(* The gate long requests wait at (RequestGate and gateLongRequests of     *)
(* frontend/src/services/api/client.ts): Slots holders at a time, first    *)
(* come first served; a waiter whose signal aborts leaves the queue.       *)
(***************************************************************************)

CONSTANTS
    LongCalls,      \* requests marked long, each made once
    Slots           \* LONG_REQUEST_SLOTS

ASSUME GateAssumption == IsFiniteSet(LongCalls) /\ Slots \in Nat \ {0}

VARIABLES holders, waiters, longs    \* longs: request -> its state
gateVars == <<holders, waiters, longs>>

GateInit == holders = 0 /\ waiters = <<>> /\ longs = [l \in LongCalls |-> "idle"]

Acquire(l) ==
    /\ longs[l] = "idle"
    /\ IF holders < Slots
       THEN /\ holders' = holders + 1
            /\ longs' = [longs EXCEPT ![l] = "sent"]
            /\ UNCHANGED waiters
       ELSE /\ waiters' = Append(waiters, l)
            /\ longs' = [longs EXCEPT ![l] = "waiting"]
            /\ UNCHANGED holders

\* The request settles, or is aborted on the wire: the slot goes to the
\* first in the queue.
Release(l) ==
    /\ longs[l] = "sent"
    /\ IF waiters = <<>>
       THEN /\ holders' = holders - 1
            /\ longs' = [longs EXCEPT ![l] = "done"]
            /\ UNCHANGED waiters
       ELSE LET next == Head(waiters) IN
            /\ waiters' = Tail(waiters)
            /\ longs' = [longs EXCEPT ![l] = "done",
                            ![next] = IF @ = "waiting" THEN "sent" ELSE @]
            /\ UNCHANGED holders

AbortWaiting(l) ==
    /\ longs[l] = "waiting"
    /\ \E i \in DOMAIN waiters : waiters[i] = l /\ waiters' = RemoveAt(waiters, i)
    /\ longs' = [longs EXCEPT ![l] = "done"]
    /\ UNCHANGED holders

GateNext == \E l \in LongCalls : Acquire(l) \/ Release(l) \/ AbortWaiting(l)

GateSpec == GateInit /\ [][GateNext]_gateVars

---------------------------------------------------------------------------
(* The gate: a slot is held by exactly the long requests on the wire, and  *)
(* nobody waits while one is free, whoever aborts when (RequestGate).      *)
SlotsKept ==
    /\ holders = Cardinality({l \in LongCalls : longs[l] = "sent"})
    /\ holders <= Slots
    /\ waiters # <<>> => holders = Slots
    /\ ToSet(waiters) = {l \in LongCalls : longs[l] = "waiting"}

\* Both: a shared answer is fresh, and the gate neither leaks nor overfills.
CallsAreHonest ==
  JoinsAreFresh /\ SlotsKept
=============================================================================

---------------------------- MODULE ClientProofs ----------------------------
(***************************************************************************)
(* What is proved of the application around its lists: the HTTP client and *)
(* the gate of its long requests (HttpClient), the desktop shell and the   *)
(* updater (DesktopShell), what an installation remembers (Preferences),   *)
(* the workspace a launch saves and the next one reads back (Persistence), *)
(* and the resource tree with its counts (Sidebar).                        *)
(***************************************************************************)
EXTENDS HttpClient, DesktopShell, Preferences, Persistence, Sidebar, TLAPS,
        FiniteSetTheorems, SequenceTheorems, WellFoundedInduction

(***************************************************************************)
(* Sequences that have each of their elements once: the requests that      *)
(* wait, the tabs that are open.                                           *)
(***************************************************************************)
EachOnce(s) == \A i, j \in DOMAIN s : s[i] = s[j] => i = j

\* A sequence gets one more element.
LEMMA AppendedOnce ==
  ASSUME NEW S, NEW s \in Seq(S), EachOnce(s), NEW x \in S, x \notin ToSet(s)
  PROVE  /\ Append(s, x) \in Seq(S) /\ EachOnce(Append(s, x))
         /\ ToSet(Append(s, x)) = ToSet(s) \cup {x}
<1>1. /\ Append(s, x) \in Seq(S) /\ DOMAIN s = 1 .. Len(s) /\ DOMAIN Append(s, x) = 1 .. Len(s) + 1
      /\ Append(s, x)[Len(s) + 1] = x /\ \A i \in DOMAIN s : Append(s, x)[i] = s[i]
  OBVIOUS
<1>2. \A i \in DOMAIN s : s[i] # x
  BY DEF ToSet
<1>3. EachOnce(Append(s, x))
  BY <1>1, <1>2 DEF EachOnce
<1>4. ToSet(Append(s, x)) = ToSet(s) \cup {x}
  BY <1>1 DEF ToSet
<1> QED
  BY <1>1, <1>3, <1>4

\* A sequence that has each element once loses one.
LEMMA RemovedOnce ==
  ASSUME NEW S, NEW s \in Seq(S), EachOnce(s), NEW i \in DOMAIN s
  PROVE  /\ RemoveAt(s, i) \in Seq(S) /\ EachOnce(RemoveAt(s, i))
         /\ ToSet(RemoveAt(s, i)) = ToSet(s) \ {s[i]}
<1> DEFINE r == RemoveAt(s, i)
<1>1. /\ r \in Seq(S) /\ Len(r) = Len(s) - 1 /\ DOMAIN r = 1 .. Len(s) - 1 /\ DOMAIN s = 1 .. Len(s)
      /\ \A j \in DOMAIN r : r[j] = s[IF j < i THEN j ELSE j + 1]
  <2> DEFINE a == SubSeq(s, 1, i - 1)
             b == SubSeq(s, i + 1, Len(s))
  <2>0. i \in 1 .. Len(s) /\ DOMAIN s = 1 .. Len(s) /\ Len(s) \in Nat
    OBVIOUS
  <2>1. a \in Seq(S) /\ Len(a) = i - 1 /\ \A j \in 1 .. i - 1 : a[j] = s[j]
    BY <2>0
  <2>2. b \in Seq(S) /\ Len(b) = Len(s) - i /\ \A j \in 1 .. Len(s) - i : b[j] = s[i + j]
    BY <2>0
  <2>3. r = a \o b
    BY DEF RemoveAt
  <2> HIDE DEF a, b
  <2>4. Len(a \o b) = Len(s) - 1 /\ a \o b \in Seq(S)
    <3>1. a \o b \in Seq(S) /\ Len(a \o b) = Len(a) + Len(b)
      BY <2>1, <2>2, ConcatProperties
    <3> QED
      BY <2>0, <2>1, <2>2, <3>1
  <2>5. ASSUME NEW j \in 1 .. Len(s) - 1
        PROVE (a \o b)[j] = s[IF j < i THEN j ELSE j + 1]
    <3>1. CASE j < i
      BY <2>0, <2>1, <2>2, <3>1
    <3>2. CASE ~(j < i)
      <4>1. j - (i - 1) \in 1 .. Len(s) - i
        BY <2>0, <3>2
      <4>2. (a \o b)[j] = b[j - (i - 1)]
        BY <2>0, <2>1, <2>2, <3>2
      <4>3. b[j - (i - 1)] = s[j + 1]
        BY <2>0, <2>2, <4>1
      <4> QED
        BY <3>2, <4>2, <4>3
    <3> QED
      BY <3>1, <3>2
  <2> HIDE DEF r
  <2>6. /\ r \in Seq(S) /\ Len(r) = Len(s) - 1 /\ DOMAIN r = 1 .. Len(r)
    BY <2>3, <2>4
  <2> QED
    BY <2>0, <2>3, <2>5, <2>6
<1> HIDE DEF r
<1>2. EachOnce(r)
  <2> SUFFICES ASSUME NEW j \in DOMAIN r, NEW k \in DOMAIN r, r[j] = r[k] PROVE j = k
    BY DEF EachOnce
  <2> DEFINE a == IF j < i THEN j ELSE j + 1
             b == IF k < i THEN k ELSE k + 1
  <2>1. a \in DOMAIN s /\ b \in DOMAIN s /\ s[a] = s[b] /\ i \in Int /\ j \in Int /\ k \in Int
    BY <1>1
  <2>2. a = b
    BY <2>1 DEF EachOnce
  <2> QED
    BY <2>1, <2>2
<1>3. ASSUME NEW j \in DOMAIN r PROVE r[j] \in ToSet(s) \ {s[i]}
  <2>1. (IF j < i THEN j ELSE j + 1) \in DOMAIN s /\ (IF j < i THEN j ELSE j + 1) # i
    BY <1>1
  <2> QED
    BY <2>1, <1>1 DEF ToSet, EachOnce
<1>4. ASSUME NEW j \in DOMAIN s, s[j] # s[i] PROVE s[j] \in ToSet(r)
  <2>1. CASE j < i
    <3>1. j \in DOMAIN r /\ r[j] = s[j]
      BY <1>1, <2>1
    <3> QED
      BY <3>1 DEF ToSet
  <2>2. CASE ~(j < i)
    <3>1. j # i
      BY <1>4
    <3>2. j - 1 \in DOMAIN r /\ ~(j - 1 < i)  /\ r[j - 1] = s[(j - 1) + 1]
      BY <1>1, <2>2, <3>1
    <3>3. r[j - 1] = s[j]
      BY <1>1, <3>2
    <3> QED
      BY <3>2, <3>3 DEF ToSet
  <2> QED
    BY <2>1, <2>2
<1>5. ToSet(r) = ToSet(s) \ {s[i]}
  <2>1. \A x \in ToSet(s) : \E j \in DOMAIN s : x = s[j]
    BY DEF ToSet
  <2>2. \A x \in ToSet(r) : \E j \in DOMAIN r : x = r[j]
    BY DEF ToSet
  <2> QED
    BY <1>3, <1>4, <2>1, <2>2
<1> QED
  BY <1>1, <1>2, <1>5 DEF r

-----------------------------------------------------------------------------

(***************************************************************************)
(* The HTTP client.                                                        *)
(***************************************************************************)
Stages == {"idle", "joined", "sent", "refused", "renewed", "answered", "failed"}
OnTheWay == {"sent", "refused", "renewed"}
CallRecord == [st : Stages, kind : Kinds, to : Calls \cup {0}, mark : Nat, sec : Int,
               again : BOOLEAN, got : Int, begun : Nat]

HttpTypeOK ==
  /\ written \in Nat /\ mark \in Nat /\ kept \in Int
  /\ shared \in [Kinds -> Calls \cup {0}]
  /\ calls \in [Calls -> CallRecord]
  /\ secret \in [server : Int, client : Int]

(* Every request that may still be joined is on its way and began after    *)
(* the last invalidation; everyone who joined waits for a call.            *)
SharedAreOpen ==
  \A k \in Kinds : shared[k] # 0 =>
      calls[shared[k]].st \in OnTheWay /\ calls[shared[k]].begun >= mark
JoinedToCalls == \A n \in Calls : calls[n].st = "joined" => calls[n].to # 0
JoinInv == HttpTypeOK /\ SharedAreOpen /\ JoinedToCalls /\ JoinsAreFresh

\* The client starts with nothing on its way.
LEMMA JoinInvInit == HttpInit => JoinInv
BY CallsAssumption DEF HttpInit, JoinInv, HttpTypeOK, SharedAreOpen, JoinedToCalls, JoinsAreFresh,
   NewCall, CallRecord, Stages, Kinds

\* A request made: a record of the kind, with the mark of that moment.
LEMMA MadeType ==
  ASSUME JoinInv, NEW n, NEW k \in Kinds
  PROVE  /\ Made(n, k) \in CallRecord
         /\ Made(n, k).mark = mark /\ Made(n, k).begun = mark /\ Made(n, k).kind = k
<1>1. NewCall \in CallRecord
  BY DEF NewCall, CallRecord, Stages, Kinds
<1>2. mark \in Nat
  BY DEF JoinInv, HttpTypeOK
<1>3. [NewCall EXCEPT !.kind = k] \in CallRecord
  BY <1>1 DEF CallRecord
<1>4. PICK a \in CallRecord : a = [NewCall EXCEPT !.kind = k]
  BY <1>3
<1>5. PICK b \in CallRecord : b = [a EXCEPT !.mark = mark]
  BY <1>2 DEF CallRecord
<1>6. PICK c \in CallRecord : c = [b EXCEPT !.begun = mark]
  BY <1>2 DEF CallRecord
<1>7. Made(n, k) = c
  BY <1>4, <1>5, <1>6 DEF Made
<1>8. a.kind = k
  BY <1>4 DEF NewCall
<1>9. b.kind = k /\ b.mark = mark
  BY <1>5, <1>8 DEF CallRecord
<1>10. c.kind = k /\ c.mark = mark /\ c.begun = mark
  BY <1>6, <1>9 DEF CallRecord
<1> QED
  BY <1>7, <1>10

\* One call moves on: it was idle, or goes on being on its way.
LEMMA OneCallMoves ==
  ASSUME JoinInv, NEW n \in Calls, NEW c \in CallRecord,
         calls' = [calls EXCEPT ![n] = c],
         UNCHANGED <<written, mark, kept, secret>>,
         calls[n].st = "idle" \/ (calls[n].st \in OnTheWay /\ c.st \in OnTheWay /\ c.begun = calls[n].begun),
         c.st = "joined" => c.to \in Calls /\ calls[c.to].st \in OnTheWay /\ calls[c.to].begun >= c.mark,
         shared' \in [Kinds -> Calls \cup {0}],
         \A k \in Kinds : shared'[k] = shared[k] \/ (shared'[k] = n /\ c.st \in OnTheWay /\ c.begun >= mark)
  PROVE  JoinInv'
<1> USE CallsAssumption
<1>1. HttpTypeOK'
  BY DEF JoinInv, HttpTypeOK
<1>2. \A m \in Calls : calls'[m] = IF m = n THEN c ELSE calls[m]
  BY DEF JoinInv, HttpTypeOK
<1>3. \A k \in Kinds : shared[k] \in Calls \cup {0} /\ shared'[k] \in Calls \cup {0}
  BY DEF JoinInv, HttpTypeOK
<1>4. \A m \in Calls : calls[m].to \in Calls \cup {0}
  BY DEF JoinInv, HttpTypeOK, CallRecord
<1>5. "idle" \notin OnTheWay /\ "joined" \notin OnTheWay
  BY DEF OnTheWay
<1>6. SharedAreOpen'
  BY <1>2, <1>3, <1>5 DEF JoinInv, SharedAreOpen
<1>7. JoinedToCalls'
  BY <1>2, <1>4, <1>5 DEF JoinInv, JoinedToCalls
<1>8. JoinsAreFresh'
  <2> SUFFICES ASSUME NEW m \in Calls, calls'[m].st = "joined"
               PROVE calls'[calls'[m].to].st \in OnTheWay /\ calls'[calls'[m].to].begun >= calls'[m].mark
    BY DEF JoinsAreFresh, OnTheWay
  <2>1. CASE m = n
    BY <1>2, <1>5, <2>1
  <2>2. CASE m # n
    <3>1. calls'[m] = calls[m] /\ calls[m].st = "joined" /\ calls[m].to \in Calls
      BY <1>2, <1>4, <2>2 DEF JoinInv, JoinedToCalls
    <3>2. calls[calls[m].to].st \in OnTheWay /\ calls[calls[m].to].begun >= calls[m].mark
      BY <3>1 DEF JoinInv, JoinsAreFresh, OnTheWay
    <3> QED
      BY <1>2, <1>5, <3>1, <3>2
  <2> QED
    BY <2>1, <2>2
<1> QED
  BY <1>1, <1>6, <1>7, <1>8 DEF JoinInv

\* The requests of S settle, with everyone who joined them.
LEMMA CallsSettle ==
  ASSUME JoinInv, NEW S \in SUBSET Calls,
         calls' \in [Calls -> CallRecord],
         \A m \in Calls :
            IF m \in S \/ (calls[m].st = "joined" /\ calls[m].to \in S)
            THEN calls'[m].st \in {"answered", "failed"}
            ELSE calls'[m] = calls[m],
         UNCHANGED <<written, mark, secret>>, kept' \in Int,
         \A m \in S : calls[m].st \in OnTheWay,
         shared' = [k \in Kinds |-> IF shared[k] \in S THEN 0 ELSE shared[k]]
  PROVE  JoinInv'
<1> USE CallsAssumption
<1>1. HttpTypeOK'
  BY DEF JoinInv, HttpTypeOK
<1>2. \A k \in Kinds : shared[k] \in Calls \cup {0} /\ shared'[k] = IF shared[k] \in S THEN 0 ELSE shared[k]
  BY DEF JoinInv, HttpTypeOK
<1>3. \A m \in Calls : calls[m].to \in Calls \cup {0}
  BY DEF JoinInv, HttpTypeOK, CallRecord
<1>4. "joined" \notin OnTheWay /\ "answered" # "joined" /\ "failed" # "joined"
  BY DEF OnTheWay
<1>5. SharedAreOpen'
  BY <1>2, <1>4 DEF JoinInv, SharedAreOpen
<1>6. JoinedToCalls'
  BY <1>3, <1>4 DEF JoinInv, JoinedToCalls
<1>7. JoinsAreFresh'
  <2> SUFFICES ASSUME NEW m \in Calls, calls'[m].st = "joined"
               PROVE calls'[calls'[m].to].st \in OnTheWay /\ calls'[calls'[m].to].begun >= calls'[m].mark
    BY DEF JoinsAreFresh, OnTheWay
  <2>1. calls'[m] = calls[m] /\ calls[m].st = "joined" /\ calls[m].to \in Calls \ S
    BY <1>3, <1>4 DEF JoinInv, JoinedToCalls
  <2>2. calls[calls[m].to].st \in OnTheWay /\ calls[calls[m].to].begun >= calls[m].mark
    BY <2>1 DEF JoinInv, JoinsAreFresh, OnTheWay
  <2>3. calls'[calls[m].to] = calls[calls[m].to]
    BY <1>4, <2>1, <2>2
  <2> QED
    BY <2>1, <2>2, <2>3
<1> QED
  BY <1>1, <1>5, <1>6, <1>7 DEF JoinInv

\* Every step of the client keeps it.
LEMMA JoinInvStep == JoinInv /\ [HttpNext]_httpVars => JoinInv'
<1> SUFFICES ASSUME JoinInv, [HttpNext]_httpVars PROVE JoinInv'
  OBVIOUS
<1> USE CallsAssumption
<1>0. /\ "cached" \in Kinds /\ "fresh" \in Kinds /\ "own" \in Kinds
      /\ \A k \in Kinds : shared[k] \in Calls \cup {0}
      /\ shared \in [Kinds -> Calls \cup {0}] /\ mark \in Nat /\ kept \in Int
      /\ written \in Nat /\ secret \in [server : Int, client : Int]
      /\ calls \in [Calls -> CallRecord]
  BY DEF Kinds, JoinInv, HttpTypeOK
<1>t. /\ \A c \in CallRecord, x \in Stages :
            LET d == [c EXCEPT !.st = x]
            IN d \in CallRecord /\ d.st = x /\ d.mark = c.mark /\ d.begun = c.begun
      /\ \A c \in CallRecord, x \in Int :
            /\ [c EXCEPT !.got = x] \in CallRecord /\ [c EXCEPT !.got = x].st = c.st
            /\ [c EXCEPT !.sec = x] \in CallRecord /\ [c EXCEPT !.sec = x].st = c.st
            /\ [c EXCEPT !.sec = x].begun = c.begun
      /\ \A c \in CallRecord, x \in Calls \cup {0} :
            LET d == [c EXCEPT !.to = x]
            IN d \in CallRecord /\ d.to = x /\ d.st = c.st /\ d.mark = c.mark
  BY DEF CallRecord
<1>s. {"idle", "joined", "sent", "refused", "renewed", "answered", "failed"} = Stages
      /\ {"sent", "refused", "renewed"} = OnTheWay
  BY DEF Stages, OnTheWay
<1>1. ASSUME NEW n \in Calls, AnswerKept(n) PROVE JoinInv'
  <2> DEFINE c == [[Made(n, "cached") EXCEPT !.st = "answered"] EXCEPT !.got = kept]
  <2>1. c \in CallRecord /\ c.st = "answered"
    <3>1. Made(n, "cached") \in CallRecord
      BY <1>0, MadeType
    <3> DEFINE d == [Made(n, "cached") EXCEPT !.st = "answered"]
    <3>2. d \in CallRecord /\ d.st = "answered" /\ kept \in Int
      BY <1>0, <1>t, <1>s, <3>1
    <3>3. c = [d EXCEPT !.got = kept]
      OBVIOUS
    <3> HIDE DEF c, d
    <3> QED
      BY <1>t, <3>2, <3>3
  <2>2. calls' = [calls EXCEPT ![n] = c] /\ calls[n].st = "idle" /\ shared' = shared
        /\ UNCHANGED <<written, mark, kept, secret>>
    BY <1>1 DEF AnswerKept
  <2> HIDE DEF c
  <2> QED
    BY <1>0, <2>1, <2>2, OneCallMoves
<1>2. ASSUME NEW n \in Calls, NEW k \in Kinds, JoinInflight(n, k) PROVE JoinInv'
  <2> DEFINE c == [[Made(n, k) EXCEPT !.st = "joined"] EXCEPT !.to = shared[k]]
  <2>0. Made(n, k) \in CallRecord /\ Made(n, k).mark = mark
    BY MadeType
  <2>1. c \in CallRecord /\ c.st = "joined" /\ c.to = shared[k] /\ c.mark = mark
    <3> DEFINE d == [Made(n, k) EXCEPT !.st = "joined"]
    <3>1. d \in CallRecord /\ d.st = "joined" /\ d.mark = mark
      BY <1>t, <1>s, <2>0
    <3>2. shared[k] \in Calls \cup {0} /\ c = [d EXCEPT !.to = shared[k]]
      BY <1>0
    <3> HIDE DEF c, d
    <3> QED
      BY <1>t, <3>1, <3>2
  <2>2. calls' = [calls EXCEPT ![n] = c] /\ calls[n].st = "idle" /\ shared' = shared
        /\ UNCHANGED <<written, mark, kept, secret>> /\ shared[k] # 0
    BY <1>2 DEF JoinInflight
  <2>3. calls[shared[k]].st \in OnTheWay /\ calls[shared[k]].begun >= mark
    BY <2>2 DEF JoinInv, SharedAreOpen
  <2> HIDE DEF c
  <2> QED
    BY <1>0, <2>1, <2>2, <2>3, OneCallMoves
<1>3. ASSUME NEW n \in Calls, NEW k \in Kinds, SendRequest(n, k) PROVE JoinInv'
  <2> DEFINE c == [[Made(n, k) EXCEPT !.st = "sent"] EXCEPT !.sec = secret.client]
  <2>0. Made(n, k) \in CallRecord /\ Made(n, k).begun = mark
    BY MadeType
  <2>1. c \in CallRecord /\ c.st = "sent" /\ c.begun = mark
    <3> DEFINE d == [Made(n, k) EXCEPT !.st = "sent"]
    <3>1. d \in CallRecord /\ d.st = "sent" /\ d.begun = mark /\ secret.client \in Int
      BY <1>0, <1>t, <1>s, <2>0
    <3>2. c = [d EXCEPT !.sec = secret.client]
      OBVIOUS
    <3> HIDE DEF c, d
    <3> QED
      BY <1>t, <3>1, <3>2
  <2>2. calls' = [calls EXCEPT ![n] = c] /\ calls[n].st = "idle"
        /\ UNCHANGED <<written, mark, kept, secret>>
        /\ shared' = IF k = "own" THEN shared ELSE [shared EXCEPT ![k] = n]
    BY <1>3 DEF SendRequest
  <2> HIDE DEF c
  <2>3. shared' \in [Kinds -> Calls \cup {0}] /\ \A x \in Kinds : shared'[x] = shared[x] \/ shared'[x] = n
    BY <1>0, <2>2
  <2>4. mark >= mark /\ "sent" \in OnTheWay /\ "sent" # "joined"
    BY <1>0, <1>s
  <2> QED
    BY <1>0, <2>1, <2>2, <2>3, <2>4, OneCallMoves
<1>4. ASSUME NEW n \in Calls, ServerReads(n) PROVE JoinInv'
  <2> DEFINE c == [calls[n] EXCEPT !.got = written]
  <2>1. c \in CallRecord /\ c.st = calls[n].st /\ c.begun = calls[n].begun
    BY <1>0, <1>t DEF CallRecord
  <2>2. calls' = [calls EXCEPT ![n] = c] /\ calls[n].st = "sent" /\ shared' = shared
        /\ UNCHANGED <<written, mark, kept, secret>>
    BY <1>4 DEF ServerReads
  <2> HIDE DEF c
  <2> QED
    BY <1>0, <1>s, <2>1, <2>2, OneCallMoves
<1>5. ASSUME NEW n \in Calls, Answered(n) PROVE JoinInv'
  <2>1. calls[n].st = "sent" /\ calls' = Told(n, "answered", calls[n].got) /\ shared' = Forgotten(n)
        /\ UNCHANGED <<written, mark, secret>> /\ kept' \in Int
    BY <1>5, <1>0 DEF Answered, CallRecord
  <2>2. calls[n].got \in Int
    BY <1>0 DEF CallRecord
  <2>3. \A m \in Calls : calls'[m] = IF m = n \/ (calls[m].st = "joined" /\ calls[m].to = n)
                     THEN [[calls[m] EXCEPT !.st = "answered"] EXCEPT !.got = calls[n].got] ELSE calls[m]
    BY <2>1 DEF Told
  <2>4. ASSUME NEW m \in Calls
        PROVE  /\ [[calls[m] EXCEPT !.st = "answered"] EXCEPT !.got = calls[n].got] \in CallRecord
               /\ [[calls[m] EXCEPT !.st = "answered"] EXCEPT !.got = calls[n].got].st = "answered"
    <3>1. calls[m] \in CallRecord /\ "answered" \in Stages
      BY <1>0, <1>s
    <3>2. [calls[m] EXCEPT !.st = "answered"] \in CallRecord
      BY <1>t, <3>1
    <3> QED
      BY <1>t, <2>2, <3>1, <3>2 DEF CallRecord
  <2>5. calls' \in [Calls -> CallRecord]
    BY <1>0, <2>1, <2>3, <2>4 DEF Told
  <2>6. shared' = [k \in Kinds |-> IF shared[k] \in {n} THEN 0 ELSE shared[k]]
    BY <2>1 DEF Forgotten
  <2>7. \A m \in Calls :
           IF m \in {n} \/ (calls[m].st = "joined" /\ calls[m].to \in {n})
           THEN calls'[m].st \in {"answered", "failed"} ELSE calls'[m] = calls[m]
    BY <2>3, <2>4
  <2>8. {n} \in SUBSET Calls /\ \A m \in {n} : calls[m].st \in OnTheWay
    BY <1>s, <2>1
  <2> QED
    BY <1>0, <2>1, <2>5, <2>6, <2>7, <2>8, CallsSettle
<1>6. ASSUME NEW n \in Calls, RequestFails(n) PROVE JoinInv'
  <2>2. 0 \in Int
    OBVIOUS
  <2>1. calls[n].st \in OnTheWay /\ calls' = Told(n, "failed", 0) /\ shared' = Forgotten(n)
        /\ UNCHANGED <<written, mark, secret, kept>>
    BY <1>6, <1>s DEF RequestFails
  <2>3. \A m \in Calls : calls'[m] = IF m = n \/ (calls[m].st = "joined" /\ calls[m].to = n)
                     THEN [[calls[m] EXCEPT !.st = "failed"] EXCEPT !.got = 0] ELSE calls[m]
    BY <2>1 DEF Told
  <2>4. ASSUME NEW m \in Calls
        PROVE  /\ [[calls[m] EXCEPT !.st = "failed"] EXCEPT !.got = 0] \in CallRecord
               /\ [[calls[m] EXCEPT !.st = "failed"] EXCEPT !.got = 0].st = "failed"
    <3>1. calls[m] \in CallRecord /\ "failed" \in Stages
      BY <1>0, <1>s
    <3>2. [calls[m] EXCEPT !.st = "failed"] \in CallRecord
      BY <1>t, <3>1
    <3> QED
      BY <1>t, <2>2, <3>1, <3>2 DEF CallRecord
  <2>5. calls' \in [Calls -> CallRecord]
    BY <1>0, <2>1, <2>3, <2>4 DEF Told
  <2>6. shared' = [k \in Kinds |-> IF shared[k] \in {n} THEN 0 ELSE shared[k]]
    BY <2>1 DEF Forgotten
  <2>7. \A m \in Calls :
           IF m \in {n} \/ (calls[m].st = "joined" /\ calls[m].to \in {n})
           THEN calls'[m].st \in {"answered", "failed"} ELSE calls'[m] = calls[m]
    BY <2>3, <2>4
  <2>8. {n} \in SUBSET Calls /\ \A m \in {n} : calls[m].st \in OnTheWay
    BY <1>s, <2>1
  <2> QED
    BY <1>0, <2>1, <2>5, <2>6, <2>7, <2>8, CallsSettle
<1>7. ASSUME NEW n \in Calls, Refused(n) PROVE JoinInv'
  <2> DEFINE c == [calls[n] EXCEPT !.st = "refused"]
  <2>1. c \in CallRecord /\ c.st = "refused" /\ c.begun = calls[n].begun
    BY <1>0, <1>t, <1>s DEF CallRecord
  <2>2. calls' = [calls EXCEPT ![n] = c] /\ calls[n].st = "sent" /\ shared' = shared
        /\ UNCHANGED <<written, mark, kept, secret>>
    BY <1>7 DEF Refused
  <2> HIDE DEF c
  <2> QED
    BY <1>0, <1>s, <2>1, <2>2, OneCallMoves
<1>8. ASSUME NEW n \in Calls, SendAgain(n) PROVE JoinInv'
  <2> DEFINE c == [[[calls[n] EXCEPT !.st = "sent"] EXCEPT !.sec = secret.client] EXCEPT !.again = TRUE]
  <2>1. c \in CallRecord /\ c.st = "sent" /\ c.begun = calls[n].begun
    <3>1. [calls[n] EXCEPT !.st = "sent"] \in CallRecord
      BY <1>0, <1>t, <1>s
    <3>2. [[calls[n] EXCEPT !.st = "sent"] EXCEPT !.sec = secret.client] \in CallRecord
      BY <1>0, <1>t, <3>1
    <3> QED
      BY <1>0, <3>2 DEF CallRecord
  <2>2. calls' = [calls EXCEPT ![n] = c] /\ calls[n].st = "renewed" /\ shared' = shared
        /\ UNCHANGED <<written, mark, kept, secret>>
    BY <1>8, <1>0 DEF SendAgain
  <2> HIDE DEF c
  <2> QED
    BY <1>0, <1>s, <2>1, <2>2, OneCallMoves
<1>9. CASE SecretRenewed
  BY <1>9, <1>0 DEF SecretRenewed, JoinInv, HttpTypeOK, SharedAreOpen, JoinedToCalls, JoinsAreFresh,
     CallRecord, Stages, OnTheWay
<1>10. CASE RenewalFails
  <2> DEFINE lost == {n \in Calls : calls[n].st = "refused"}
  <2>1. /\ \A m \in Calls : calls'[m] = IF m \in lost \/ (calls[m].st = "joined" /\ calls[m].to \in lost)
                                       THEN [calls[m] EXCEPT !.st = "failed"] ELSE calls[m]
        /\ shared' = [k \in Kinds |-> IF shared[k] \in lost THEN 0 ELSE shared[k]]
        /\ UNCHANGED <<written, mark, secret, kept>>
        /\ calls' = [m \in Calls |-> calls'[m]]
    BY <1>10 DEF RenewalFails
  <2>2. lost \in SUBSET Calls /\ \A m \in lost : calls[m].st \in OnTheWay
    BY <1>s
  <2> HIDE DEF lost
  <2>4. ASSUME NEW m \in Calls
        PROVE  /\ [calls[m] EXCEPT !.st = "failed"] \in CallRecord
               /\ [calls[m] EXCEPT !.st = "failed"].st = "failed"
    <3>1. calls[m] \in CallRecord /\ "failed" \in Stages
      BY <1>0, <1>s
    <3> QED
      BY <1>t, <3>1
  <2>5. calls' \in [Calls -> CallRecord]
    BY <1>0, <2>1, <2>4
  <2>6. \A m \in Calls : IF m \in lost \/ (calls[m].st = "joined" /\ calls[m].to \in lost)
                         THEN calls'[m].st \in {"answered", "failed"} ELSE calls'[m] = calls[m]
    BY <2>1, <2>4
  <2>7. /\ UNCHANGED <<written, mark, secret>> /\ kept' \in Int
        /\ shared' = [k \in Kinds |-> IF shared[k] \in lost THEN 0 ELSE shared[k]]
    BY <1>0, <2>1
  <2> QED
    BY <2>2, <2>5, <2>6, <2>7, CallsSettle
<1>11. CASE BackendRestarts
  BY <1>11, <1>0 DEF BackendRestarts, JoinInv, HttpTypeOK, SharedAreOpen, JoinedToCalls, JoinsAreFresh
<1>12. CASE Invalidate
  BY <1>12, <1>0 DEF Invalidate, ForgetInflight, JoinInv, HttpTypeOK, SharedAreOpen, JoinedToCalls, JoinsAreFresh
<1>13. CASE CacheExpires
  BY <1>13, <1>0 DEF CacheExpires, JoinInv, HttpTypeOK, SharedAreOpen, JoinedToCalls, JoinsAreFresh
<1>14. CASE UNCHANGED httpVars
  BY <1>14 DEF httpVars, JoinInv, HttpTypeOK, SharedAreOpen, JoinedToCalls, JoinsAreFresh
<1> QED
  BY <1>0, <1>1, <1>2, <1>3, <1>4, <1>5, <1>6, <1>7, <1>8, <1>9, <1>10, <1>11, <1>12, <1>13, <1>14
     DEF HttpNext

\* (JoinsAreFresh) A call never waits on a request begun before an
\* invalidation it came after, nor on one that has ended (request,
\* requestFresh, forgetInflight).
THEOREM JoinsStayFresh == HttpSpec => []JoinsAreFresh
<1>1. HttpInit => JoinInv
  BY JoinInvInit
<1>2. JoinInv /\ [HttpNext]_httpVars => JoinInv'
  BY JoinInvStep
<1>3. JoinInv => JoinsAreFresh
  BY DEF JoinInv
<1> QED
  BY <1>1, <1>2, <1>3, PTL DEF HttpSpec

-----------------------------------------------------------------------------
(***************************************************************************)
(* The gate: nobody waits twice.                                           *)
(***************************************************************************)
Sent == {l \in LongCalls : longs[l] = "sent"}
GateTypeOK ==
  /\ holders \in Nat
  /\ waiters \in Seq(LongCalls)
  /\ longs \in [LongCalls -> {"idle", "waiting", "sent", "done"}]
NobodyTwice == EachOnce(waiters)
GateInv == GateTypeOK /\ NobodyTwice /\ SlotsKept

\* The gate starts empty.
LEMMA GateInvInit == GateInit => GateInv
<1> SUFFICES ASSUME GateInit PROVE GateInv
  OBVIOUS
<1>1. {l \in LongCalls : longs[l] = "sent"} = {} /\ {l \in LongCalls : longs[l] = "waiting"} = {}
  BY DEF GateInit
<1>2. ToSet(waiters) = {}
  BY DEF GateInit, ToSet
<1> QED
  BY <1>1, <1>2, FS_EmptySet, GateAssumption DEF GateInit, GateInv, GateTypeOK, NobodyTwice, EachOnce, SlotsKept

\* Whoever asks, finishes or aborts when: every step of the gate keeps it.
LEMMA GateInvStep == GateInv /\ [GateNext]_gateVars => GateInv'
<1> SUFFICES ASSUME GateInv, [GateNext]_gateVars PROVE GateInv'
  OBVIOUS
<1> USE GateAssumption
<1>0. /\ IsFiniteSet(Sent) /\ holders = Cardinality(Sent) /\ holders \in Nat
      /\ ToSet(waiters) = {l \in LongCalls : longs[l] = "waiting"}
  BY FS_Subset DEF GateInv, GateTypeOK, SlotsKept, Sent
<1>1. ASSUME NEW l \in LongCalls, Acquire(l) PROVE GateInv'
  <2>1. CASE holders < Slots
    <3>1. Sent' = Sent \cup {l} /\ l \notin Sent
      BY <1>1, <2>1 DEF Acquire, Sent, GateInv, GateTypeOK
    <3>2. Cardinality(Sent') = holders + 1
      BY <3>1, <1>0, FS_AddElement
    <3>3. waiters = <<>>
      BY <2>1 DEF GateInv, SlotsKept
    <3>4. {m \in LongCalls : longs'[m] = "waiting"} = {m \in LongCalls : longs[m] = "waiting"}
      BY <1>1, <2>1 DEF Acquire, GateInv, GateTypeOK
    <3> QED
      BY <1>1, <2>1, <3>2, <3>3, <3>4, <1>0 DEF Acquire, GateInv, GateTypeOK, NobodyTwice, EachOnce, SlotsKept, Sent
  <2>2. CASE ~(holders < Slots)
    <3>1. Sent' = Sent
      BY <1>1, <2>2 DEF Acquire, Sent, GateInv, GateTypeOK
    <3>2. holders = Slots
      BY <2>2 DEF GateInv, GateTypeOK, SlotsKept
    <3>3. \A i \in DOMAIN waiters : waiters[i] # l
      BY <1>1, <1>0 DEF Acquire, ToSet
    <3>4. {m \in LongCalls : longs'[m] = "waiting"} = {m \in LongCalls : longs[m] = "waiting"} \cup {l}
      BY <1>1, <2>2 DEF Acquire, GateInv, GateTypeOK
    <3>5. waiters' = Append(waiters, l) /\ waiters \in Seq(LongCalls)
      BY <1>1, <2>2 DEF Acquire, GateInv, GateTypeOK
    <3>6. ToSet(waiters') = ToSet(waiters) \cup {l}
      BY <3>5 DEF ToSet
    <3>7. NobodyTwice'
      BY <3>3, <3>5 DEF NobodyTwice, EachOnce, GateInv
    <3>8. GateTypeOK'
      BY <1>1, <2>2, <3>5 DEF Acquire, GateInv, GateTypeOK
    <3>9. holders' = holders
      BY <1>1, <2>2 DEF Acquire
    <3> QED
      BY <1>0, <3>1, <3>2, <3>4, <3>6, <3>7, <3>8, <3>9 DEF GateInv, SlotsKept, Sent
  <2> QED
    BY <2>1, <2>2
<1>2. ASSUME NEW l \in LongCalls, Release(l) PROVE GateInv'
  <2>1. CASE waiters = <<>>
    <3>1. Sent' = Sent \ {l} /\ l \in Sent
      BY <1>2, <2>1 DEF Release, Sent, GateInv, GateTypeOK
    <3>2. Cardinality(Sent') = holders - 1 /\ holders - 1 \in Nat
      <4>1. Cardinality(Sent') = holders - 1 /\ IsFiniteSet(Sent')
        BY <3>1, <1>0, FS_RemoveElement
      <4> QED
        BY <4>1, FS_CardinalityType
    <3>3. {m \in LongCalls : longs'[m] = "waiting"} = {m \in LongCalls : longs[m] = "waiting"}
      BY <1>2, <2>1 DEF Release, GateInv, GateTypeOK
    <3> QED
      BY <1>2, <2>1, <3>2, <3>3, <1>0 DEF Release, GateInv, GateTypeOK, NobodyTwice, EachOnce, SlotsKept, Sent
  <2>2. CASE waiters # <<>>
    <3> DEFINE next == Head(waiters)
    <3>1. /\ waiters \in Seq(LongCalls) /\ Len(waiters) \in Nat \ {0} /\ next = waiters[1]
          /\ waiters' = Tail(waiters)
      BY <1>2, <2>2 DEF Release, GateInv, GateTypeOK
    <3>2. next \in LongCalls /\ longs[next] = "waiting" /\ next # l
      BY <1>2, <3>1, <1>0 DEF Release, ToSet
    <3>3. longs' = [longs EXCEPT ![l] = "done", ![next] = "sent"]
      BY <1>2, <2>2, <3>2 DEF Release, GateInv, GateTypeOK
    <3> HIDE DEF next
    <3>4. Sent' = (Sent \ {l}) \cup {next} /\ l \in Sent /\ next \notin Sent
      BY <3>2, <3>3, <1>2 DEF Release, Sent, GateInv, GateTypeOK
    <3>5. Cardinality(Sent \ {l}) = holders - 1 /\ IsFiniteSet(Sent \ {l})
      BY <3>4, <1>0, FS_RemoveElement
    <3>6. Cardinality(Sent') = holders
      <4>1. next \notin Sent \ {l}
        BY <3>4
      <4>2. Cardinality((Sent \ {l}) \cup {next}) = (holders - 1) + 1
        BY <3>5, <4>1, FS_AddElement
      <4> QED
        BY <1>0, <3>4, <4>2
    <3>7. {m \in LongCalls : longs'[m] = "waiting"} = {m \in LongCalls : longs[m] = "waiting"} \ {next}
      BY <3>2, <3>3, <1>2 DEF Release, GateInv, GateTypeOK
    <3>8. ToSet(waiters') = ToSet(waiters) \ {next}
      <4>1. \A i \in 1 .. Len(waiters) - 1 : waiters'[i] = waiters[i + 1] /\ waiters[i + 1] # next
        BY <3>1 DEF GateInv, NobodyTwice, EachOnce
      <4>2. DOMAIN waiters' = 1 .. Len(waiters) - 1 /\ DOMAIN waiters = 1 .. Len(waiters)
        BY <3>1
      <4>3. ASSUME NEW i \in DOMAIN waiters, waiters[i] # next
            PROVE i - 1 \in DOMAIN waiters' /\ waiters'[i - 1] = waiters[i]
        BY <4>1, <4>2, <4>3, <3>1
      <4> QED
        BY <4>1, <4>2, <4>3 DEF ToSet
    <3>9. NobodyTwice'
      <4> SUFFICES ASSUME NEW i \in DOMAIN waiters', NEW j \in DOMAIN waiters', waiters'[i] = waiters'[j]
                   PROVE i = j
        BY DEF NobodyTwice, EachOnce
      <4>1. i + 1 \in DOMAIN waiters /\ j + 1 \in DOMAIN waiters /\ i \in Nat /\ j \in Nat
        BY <3>1
      <4>2. waiters[i + 1] = waiters[j + 1]
        BY <3>1
      <4> QED
        BY <4>1, <4>2 DEF GateInv, NobodyTwice, EachOnce
    <3>10. waiters' \in Seq(LongCalls) /\ longs' \in [LongCalls -> {"idle", "waiting", "sent", "done"}]
           /\ holders' = holders
      BY <1>2, <2>2, <3>1, <3>3 DEF Release, GateInv, GateTypeOK
    <3>11. holders = Slots
      BY <2>2 DEF GateInv, SlotsKept
    <3> QED
      BY <1>0, <3>6, <3>7, <3>8, <3>9, <3>10, <3>11 DEF GateInv, GateTypeOK, SlotsKept, Sent
  <2> QED
    BY <2>1, <2>2
<1>3. ASSUME NEW l \in LongCalls, AbortWaiting(l) PROVE GateInv'
  <2>1. PICK i \in DOMAIN waiters : waiters[i] = l /\ waiters' = RemoveAt(waiters, i)
    BY <1>3 DEF AbortWaiting
  <2>2. /\ waiters \in Seq(LongCalls) /\ Len(waiters) \in Nat /\ i \in 1 .. Len(waiters)
        /\ longs' = [longs EXCEPT ![l] = "done"] /\ longs[l] = "waiting" /\ holders' = holders
    BY <1>3, <2>1 DEF AbortWaiting, GateInv, GateTypeOK
  <2>3. waiters' \in Seq(LongCalls) /\ NobodyTwice' /\ ToSet(waiters') = ToSet(waiters) \ {l}
    BY <2>1, <2>2, RemovedOnce DEF GateInv, NobodyTwice
  <2>4. Sent' = Sent
    BY <2>2 DEF Sent, GateInv, GateTypeOK
  <2>5. {m \in LongCalls : longs'[m] = "waiting"} = {m \in LongCalls : longs[m] = "waiting"} \ {l}
    BY <2>2 DEF GateInv, GateTypeOK
  <2>6. waiters' # <<>> => holders = Slots
    BY <2>1 DEF GateInv, SlotsKept
  <2>7. longs' \in [LongCalls -> {"idle", "waiting", "sent", "done"}]
    BY <2>2 DEF GateInv, GateTypeOK
  <2> QED
    BY <1>0, <2>2, <2>3, <2>4, <2>5, <2>6, <2>7 DEF GateInv, GateTypeOK, SlotsKept, Sent
<1>4. CASE UNCHANGED gateVars
  BY <1>4 DEF gateVars, GateInv, GateTypeOK, NobodyTwice, EachOnce, SlotsKept
<1> QED
  BY <1>1, <1>2, <1>3, <1>4 DEF GateNext

\* (SlotsKept) The slots held are those of the long requests on the wire,
\* never more than there are, and nobody waits beside a free one
\* (RequestGate).
THEOREM GateKeepsItsSlots == GateSpec => []SlotsKept
<1>1. GateInit => GateInv
  BY GateInvInit
<1>2. GateInv /\ [GateNext]_gateVars => GateInv'
  BY GateInvStep
<1>3. GateInv => SlotsKept
  BY DEF GateInv
<1> QED
  BY <1>1, <1>2, <1>3, PTL DEF GateSpec

\* (CallsAreHonest) Both, of the whole client.
THEOREM CallsStayHonest == HttpSpec /\ GateSpec => []CallsAreHonest
BY JoinsStayFresh, GateKeepsItsSlots, PTL DEF CallsAreHonest

-----------------------------------------------------------------------------

(***************************************************************************)
(* The shell.  What the page last heard, or will last hear, is the port of *)
(* the backend that is up.                                                 *)
(***************************************************************************)
IsUp == proc \in {"up", "stable"}
LastHeard == IF mail = <<>> THEN pagePort ELSE mail[Len(mail)]

ShellTypeOK ==
  /\ mail \in Seq(Nat)
  /\ port \in Nat /\ pagePort \in Nat /\ spawns \in Nat \ {0}

PortInv ==
  /\ ShellTypeOK
  /\ IsUp => port # 0 /\ knownHealth
  /\ asking => ~knownHealth
  /\ IsUp /\ page = "live" => LastHeard = port
  /\ NoOrphanBackend


\* The shell starts the backend and opens a page that knows nothing.
LEMMA PortInvInit == ShellInit => PortInv
BY DEF ShellInit, PortInv, ShellTypeOK, IsUp, NoOrphanBackend, LastHeard

\* Nothing the page and the shell say of the port changes.
LEMMA CalmShellStep ==
  ASSUME PortInv, UNCHANGED <<port, spawns, pagePort, mail>>,
         asking' => asking, knownHealth' = knownHealth,
         IsUp' => IsUp, IsUp' /\ page' = "live" => page = "live", NoOrphanBackend'
  PROVE  PortInv'
BY DEF PortInv, ShellTypeOK, LastHeard

\* A start that has ended, with a port or without.
LEMMA StartupEndsStep ==
  ASSUME PortInv, NEW p \in Nat, StartupEnds(p),
         UNCHANGED <<page, pagePort, spawns>>, NoOrphanBackend',
         IsUp' => p # 0
  PROVE  PortInv'
<1>1. mail \in Seq(Nat) /\ port \in Nat /\ p \in Nat
  BY DEF PortInv, ShellTypeOK
<1>2. port' \in Nat /\ knownHealth' = TRUE /\ asking' = FALSE
  BY <1>1 DEF StartupEnds
<1>3. Reply(port) \in Seq(Nat) /\ Reply(p) \in Seq(Nat) /\ Push(p) \in Seq(Nat)
  BY <1>1 DEF Reply, Push
<1>4. mail' \in Seq(Nat)
  <2>1. CASE p = 0
    <3>1. mail' = mail \o Reply(port)
      BY <2>1 DEF StartupEnds
    <3> QED
      BY <1>1, <1>3, <3>1
  <2>2. CASE p # 0
    <3>1. mail \o Push(p) \in Seq(Nat)
      BY <1>1, <1>3
    <3>2. mail' = (mail \o Push(p)) \o Reply(p)
      BY <2>2 DEF StartupEnds
    <3> QED
      BY <1>3, <3>1, <3>2
  <2> QED
    BY <2>1, <2>2
<1>5. ASSUME IsUp', page = "live" PROVE LastHeard' = port'
  <2>1. p # 0 /\ port' = p /\ mail' = (mail \o <<p>>) \o Reply(p)
    BY <1>5 DEF StartupEnds, Push
  <2>2. mail' # <<>> /\ mail'[Len(mail')] = p
    <3>1. CASE asking
      BY <1>1, <2>1, <3>1 DEF Reply
    <3>2. CASE ~asking
      BY <1>1, <2>1, <3>2 DEF Reply
    <3> QED
      BY <3>1, <3>2
  <2> QED
    BY <2>1, <2>2 DEF LastHeard
<1>6. IsUp' => port' # 0
  BY DEF StartupEnds
<1> QED
  BY <1>2, <1>4, <1>5, <1>6 DEF PortInv, ShellTypeOK

\* Starts, crashes, quits, windows and messages keep it.
LEMMA PortInvStep == PortInv /\ [ShellNext]_shellVars => PortInv'
<1> SUFFICES ASSUME PortInv, [ShellNext]_shellVars PROVE PortInv'
  OBVIOUS
<1>0. /\ mail \in Seq(Nat) /\ port \in Nat /\ pagePort \in Nat /\ spawns \in Nat \ {0}
      /\ shellApp = "gone" => proc = "none"
  BY DEF PortInv, ShellTypeOK, NoOrphanBackend
<1>1. CASE RestartFires
  BY <1>0, <1>1 DEF RestartFires, pageVars, PortInv, ShellTypeOK, IsUp, LastHeard, NoOrphanBackend
<1>2. CASE PortPrinted
  <2>1. StartupEnds(spawns) /\ spawns # 0 /\ spawns \in Nat /\ NoOrphanBackend'
        /\ UNCHANGED <<page, pagePort, spawns>>
    BY <1>0, <1>2 DEF PortPrinted, NoOrphanBackend
  <2> QED
    BY <2>1, StartupEndsStep
<1>3. CASE Stable
  BY <1>0, <1>3, CalmShellStep DEF Stable, pageVars, IsUp, NoOrphanBackend
<1>4. CASE SpawnFails
  <2>1. StartupEnds(0) /\ ~IsUp' /\ NoOrphanBackend' /\ UNCHANGED <<page, pagePort, spawns>>
    BY <1>4 DEF SpawnFails, IsUp, NoOrphanBackend
  <2> QED
    BY <2>1, StartupEndsStep
<1>5. ASSUME ExitsCleanly \/ Crashes PROVE PortInv'
  <2>1. proc' = "none" /\ ~IsUp' /\ NoOrphanBackend' /\ UNCHANGED <<page, pagePort, spawns>>
    BY <1>5 DEF ExitsCleanly, Crashes, IsUp, NoOrphanBackend
  <2>2. CASE proc = "starting"
    <3>1. StartupEnds(0)
      BY <1>5, <2>2 DEF ExitsCleanly, Crashes
    <3> QED
      BY <2>1, <3>1, StartupEndsStep
  <2>3. CASE proc # "starting"
    BY <1>5, <2>1, <2>3, CalmShellStep DEF ExitsCleanly, Crashes
  <2> QED
    BY <2>2, <2>3
<1>6. CASE BeforeQuit
  BY <1>0, <1>6, CalmShellStep DEF BeforeQuit, Killed, pageVars, IsUp, NoOrphanBackend
<1>7. CASE WillQuit
  BY <1>0, <1>7 DEF WillQuit, Killed, PortInv, ShellTypeOK, IsUp, LastHeard, NoOrphanBackend
<1>8. CASE OpenWindow
  BY <1>0, <1>8 DEF OpenWindow, backendVars, PortInv, ShellTypeOK, IsUp, LastHeard, NoOrphanBackend
<1>9. CASE CloseWindow
  BY <1>0, <1>9 DEF CloseWindow, backendVars, PortInv, ShellTypeOK, IsUp, LastHeard, NoOrphanBackend
<1>10. CASE Reload
  BY <1>0, <1>10 DEF Reload, backendVars, PortInv, ShellTypeOK, IsUp, LastHeard, NoOrphanBackend
<1>11. CASE PageStarts
  <2>1. UNCHANGED <<shellApp, proc, spawns, port, knownHealth, pagePort>> /\ NoOrphanBackend'
    BY <1>0, <1>11 DEF PageStarts, backendVars, NoOrphanBackend
  <2>2. CASE knownHealth
    <3>1. mail' = <<port>> /\ asking' = FALSE
      BY <1>11, <2>2 DEF PageStarts
    <3>2. mail' \in Seq(Nat) /\ mail' # <<>> /\ mail'[Len(mail')] = port
      BY <1>0, <3>1
    <3> QED
      BY <1>0, <2>1, <3>1, <3>2 DEF PortInv, ShellTypeOK, IsUp, LastHeard
  <2>3. CASE ~knownHealth
    <3>1. mail' = mail /\ ~IsUp
      BY <1>11, <2>3 DEF PageStarts, PortInv
    <3> QED
      BY <1>0, <2>1, <2>3, <3>1 DEF PortInv, ShellTypeOK, IsUp
  <2> QED
    BY <2>2, <2>3
<1>12. CASE PortArrives
  <2>1. /\ mail # <<>> /\ mail' = Tail(mail) /\ Len(mail) \in Nat \ {0}
        /\ pagePort' = IF mail[1] = 0 THEN pagePort ELSE mail[1]
        /\ UNCHANGED <<shellApp, proc, spawns, port, knownHealth, page, asking>>
    BY <1>0, <1>12 DEF PortArrives, backendVars
  <2>2. mail' \in Seq(Nat) /\ mail[1] \in Nat
    BY <1>0, <2>1
  <2>3. ASSUME mail[Len(mail)] = port, port # 0 PROVE LastHeard' = port
    <3>1. CASE Len(mail) = 1
      BY <1>0, <2>1, <2>3, <3>1 DEF LastHeard
    <3>2. CASE Len(mail) # 1
      <4>1. Len(mail') = Len(mail) - 1 /\ mail' # <<>> /\ mail'[Len(mail) - 1] = mail[Len(mail)]
        <5>1. Len(mail) - 1 \in 1 .. Len(mail) - 1 /\ Len(mail) - 1 \in Nat \ {0}
          <6>1. \A n \in Nat \ {0} : n # 1 => n - 1 \in 1 .. n - 1 /\ n - 1 \in Nat \ {0}
            OBVIOUS
          <6>2. Len(mail) \in Nat \ {0}
            BY <2>1
          <6> QED
            BY <3>2, <6>1, <6>2
        <5>2. Len(mail') = Len(mail) - 1 /\ \A i \in 1 .. Len(mail) - 1 : mail'[i] = mail[i + 1]
          BY <1>0, <2>1
        <5>3. mail'[Len(mail) - 1] = mail[(Len(mail) - 1) + 1] /\ (Len(mail) - 1) + 1 = Len(mail)
          BY <2>1, <5>1, <5>2
        <5> QED
          BY <5>1, <5>2, <5>3
      <4> QED
        BY <2>3, <4>1 DEF LastHeard
    <3> QED
      BY <3>1, <3>2
  <2> QED
    BY <1>0, <2>1, <2>2, <2>3 DEF PortInv, ShellTypeOK, IsUp, LastHeard, NoOrphanBackend
<1>13. CASE UNCHANGED shellVars
  BY <1>13, CalmShellStep DEF shellVars, IsUp, PortInv, NoOrphanBackend
<1> QED
  BY <1>1, <1>2, <1>3, <1>4, <1>5, <1>6, <1>7, <1>8, <1>9, <1>10, <1>11, <1>12, <1>13 DEF ShellNext

\* (PageKnowsPort, NoOrphanBackend) A page that has heard everything sends
\* its requests to the backend that is up, and no backend outlives the app.
THEOREM PageAndBackendAgree == ShellSpec => [](PageKnowsPort /\ NoOrphanBackend)
<1>1. ShellInit => PortInv
  BY PortInvInit
<1>2. PortInv /\ [ShellNext]_shellVars => PortInv'
  BY PortInvStep
<1>3. PortInv => PageKnowsPort /\ NoOrphanBackend
  BY DEF PortInv, PageKnowsPort, IsUp, LastHeard
<1> QED
  BY <1>1, <1>2, <1>3, PTL DEF ShellSpec

-----------------------------------------------------------------------------
(***************************************************************************)
(* The updater.  News that takes the banner off "downloading" whatever it  *)
(* is, and news that never brings a new download.                          *)
(***************************************************************************)
EndingNews == {"downloaded", "error", "downloadFailed", "checkFailed", "isCurrent",
               "isChecking", "isAvailable", "isDownloaded"}
HarmlessNews == {"checkFailed", "isDownloaded"}
AllNews == EndingNews \cup {"available", "isDownloading"}

UpdTypeOK ==
  /\ flags \in [checking : BOOLEAN, available : BOOLEAN, info : BOOLEAN,
                downloading : BOOLEAN, downloaded : BOOLEAN]
  /\ news \in Seq(AllNews)

\* A banner that says "downloading", now or after some news, is told
\* otherwise by later news.
ClaimEnds ==
  /\ banner = "downloading" => \E i \in DOMAIN news : news[i] \in EndingNews
  /\ \A i \in DOMAIN news : news[i] = "isDownloading" =>
        \E j \in DOMAIN news : j > i /\ news[j] \in EndingNews

\* A check still runs though the update is there: once the page has heard
\* that it is, nothing on the way offers it another download.
ReadyToInstall ==
  \/ \E i \in DOMAIN news :
        /\ news[i] = "downloaded"
        /\ \A j \in DOMAIN news : j > i => news[j] \in HarmlessNews
  \/ /\ banner \notin {"available", "downloading"}
     /\ \A j \in DOMAIN news : news[j] \in HarmlessNews

UpdInv ==
  /\ UpdTypeOK
  /\ flags.downloading => loadRun
  /\ ~(loadRun /\ flags.downloaded)
  /\ ~loadRun /\ ~flags.downloaded => ClaimEnds
  /\ ~loadRun /\ flags.downloaded /\ checkRun => ReadyToInstall

\* Nothing runs at first.
LEMMA UpdInvInit == UpdInit => UpdInv
BY DEF UpdInit, UpdInv, UpdTypeOK, ClaimEnds

\* More is told the page: what was promised still holds.
LEMMA MoreNews ==
  ASSUME NEW s \in Seq(AllNews), news \in Seq(AllNews), news' = news \o s
  PROVE  /\ news' \in Seq(AllNews)
         /\ DOMAIN news' = 1 .. Len(news) + Len(s)
         /\ DOMAIN news = 1 .. Len(news)
         /\ \A i \in DOMAIN news : i \in DOMAIN news' /\ news'[i] = news[i]
         /\ \A i \in DOMAIN news' \ DOMAIN news :
               i - Len(news) \in 1 .. Len(s) /\ news'[i] = s[i - Len(news)]
OBVIOUS

\* What the page's call is told is one piece of news, or none.
LEMMA ToldNews ==
  ASSUME NEW n \in AllNews \ {"isDownloading"}
  PROVE  /\ PageTold(n) \in Seq(AllNews)
         /\ \A k \in 1 .. Len(PageTold(n)) : PageTold(n)[k] = n
         /\ \A k \in 1 .. Len(PageTold(n)) : PageTold(n)[k] # "isDownloading"
<1>1. CASE askedUpdate
  <2>1. PageTold(n) = <<n>>
    BY <1>1 DEF PageTold
  <2>2. <<n>> \in Seq(AllNews) /\ Len(<<n>>) = 1 /\ \A k \in 1 .. 1 : <<n>>[k] = n
    OBVIOUS
  <2> QED
    BY <2>1, <2>2
<1>2. CASE ~askedUpdate
  <2>1. PageTold(n) = <<>>
    BY <1>2 DEF PageTold
  <2>2. <<>> \in Seq(AllNews) /\ Len(<<>>) = 0
    OBVIOUS
  <2> QED
    BY <2>1, <2>2
<1> QED
  BY <1>1, <1>2

\* One piece of news, and another or none: what is heard in the end.
LEMMA NewsThen ==
  ASSUME NEW a \in AllNews \ {"isDownloading"}, NEW s \in Seq(AllNews), news \in Seq(AllNews),
         \A k \in 1 .. Len(s) : s[k] # "isDownloading"
  PROVE  /\ <<a>> \o s \in Seq(AllNews)
         /\ (news \o <<a>>) \o s = news \o (<<a>> \o s)
         /\ 1 \in 1 .. Len(<<a>> \o s) /\ (<<a>> \o s)[1] = a
         /\ \A k \in 1 .. Len(<<a>> \o s) : (<<a>> \o s)[k] # "isDownloading"
<1>1. <<a>> \in Seq(AllNews) /\ Len(<<a>>) = 1 /\ <<a>>[1] = a
  OBVIOUS
<1>2. <<a>> \o s \in Seq(AllNews) /\ Len(<<a>> \o s) = 1 + Len(s) /\ Len(s) \in Nat
  BY <1>1
<1>3. (<<a>> \o s)[1] = a
  BY <1>1, <1>2
<1>4. ASSUME NEW k \in 1 .. 1 + Len(s) PROVE (<<a>> \o s)[k] # "isDownloading"
  <2>1. CASE k = 1
    BY <1>3, <2>1
  <2>2. CASE k # 1
    <3>1. k - 1 \in 1 .. Len(s)
      BY <1>2, <2>2
    <3>2. (<<a>> \o s)[k] = s[k - 1]
      BY <1>1, <1>2, <2>2
    <3> QED
      BY <3>1, <3>2
  <2> QED
    BY <2>1, <2>2
<1>5. (news \o <<a>>) \o s = news \o (<<a>> \o s)
  BY <1>1
<1> QED
  BY <1>2, <1>3, <1>4, <1>5

\* The promise that a banner does not go on saying "downloading" stands when
\* news is added that brings no such banner, whoever changes it.
LEMMA ClaimStands ==
  ASSUME NEW s \in Seq(AllNews), news \in Seq(AllNews), news' = news \o s, ClaimEnds,
         \A k \in 1 .. Len(s) : s[k] # "isDownloading",
         banner' = "downloading" => banner = "downloading"
  PROVE  ClaimEnds'
<1>1. /\ \A i \in DOMAIN news : i \in DOMAIN news' /\ news'[i] = news[i]
      /\ \A i \in DOMAIN news' \ DOMAIN news : news'[i] # "isDownloading"
  BY MoreNews
<1> QED
  BY <1>1 DEF ClaimEnds

\* When the last of what is added ends the claim, it ends.
LEMMA ClaimEndsAtLast ==
  ASSUME NEW s \in Seq(AllNews), news \in Seq(AllNews), news' = news \o s,
         NEW k \in 1 .. Len(s), s[k] \in EndingNews,
         \A i \in 1 .. Len(s) : s[i] # "isDownloading"
  PROVE  ClaimEnds'
<1>1. /\ DOMAIN news = 1 .. Len(news) /\ Len(news) \in Nat /\ Len(s) \in Nat
      /\ DOMAIN news' = 1 .. Len(news) + Len(s)
      /\ \A i \in DOMAIN news' \ DOMAIN news : i - Len(news) \in 1 .. Len(s) /\ news'[i] = s[i - Len(news)]
  BY MoreNews
<1>2. Len(news) + k \in DOMAIN news' \ DOMAIN news /\ (Len(news) + k) - Len(news) = k
  BY <1>1
<1>3. news'[Len(news) + k] \in EndingNews
  BY <1>1, <1>2
<1>4. \A i \in DOMAIN news' : news'[i] = "isDownloading" => i \in DOMAIN news
  BY <1>1
<1>5. \A i \in DOMAIN news : Len(news) + k > i
  BY <1>1
<1> QED
  BY <1>2, <1>3, <1>4, <1>5 DEF ClaimEnds

\* Harmless news added, a banner that is not made "available" or
\* "downloading".
LEMMA ReadyStands ==
  ASSUME NEW s \in Seq(AllNews), news \in Seq(AllNews), news' = news \o s, ReadyToInstall,
         \A k \in 1 .. Len(s) : s[k] \in HarmlessNews,
         banner \notin {"available", "downloading"} => banner' \notin {"available", "downloading"}
  PROVE  ReadyToInstall'
<1>1. /\ DOMAIN news = 1 .. Len(news) /\ Len(news) \in Nat
      /\ DOMAIN news' = 1 .. Len(news) + Len(s) /\ Len(s) \in Nat
      /\ \A i \in DOMAIN news : i \in DOMAIN news' /\ news'[i] = news[i]
      /\ \A i \in DOMAIN news' \ DOMAIN news : news'[i] \in HarmlessNews
  BY MoreNews
<1>2. CASE \E i \in DOMAIN news :
             news[i] = "downloaded" /\ \A j \in DOMAIN news : j > i => news[j] \in HarmlessNews
  <2>1. PICK i \in DOMAIN news :
             news[i] = "downloaded" /\ \A j \in DOMAIN news : j > i => news[j] \in HarmlessNews
    BY <1>2
  <2>2. \A j \in DOMAIN news' : j > i => news'[j] \in HarmlessNews
    BY <1>1, <2>1
  <2> QED
    BY <1>1, <2>1, <2>2 DEF ReadyToInstall
<1>3. CASE banner \notin {"available", "downloading"} /\ \A j \in DOMAIN news : news[j] \in HarmlessNews
  BY <1>1, <1>3 DEF ReadyToInstall
<1> QED
  BY <1>2, <1>3 DEF ReadyToInstall

\* The news that the update is there is the last of all.
LEMMA ReadyAtLast ==
  ASSUME news \in Seq(AllNews), news' = Append(news, "downloaded")
  PROVE  ReadyToInstall' /\ news' \in Seq(AllNews)
<1>1. /\ Len(news') = Len(news) + 1 /\ Len(news) \in Nat /\ DOMAIN news' = 1 .. Len(news) + 1
      /\ news'[Len(news) + 1] = "downloaded"
  OBVIOUS
<1>2. \A j \in DOMAIN news' : ~(j > Len(news) + 1)
  BY <1>1
<1>3. "downloaded" \in AllNews
  BY DEF AllNews, EndingNews
<1>4. Len(news) + 1 \in DOMAIN news'
  BY <1>1
<1> QED
  BY <1>1, <1>2, <1>3, <1>4 DEF ReadyToInstall

\* Once the page has been told that it can install, it will not say
\* "downloading" again.
LEMMA ReadyEndsClaim ==
  ASSUME news \in Seq(AllNews), ReadyToInstall
  PROVE  ClaimEnds
<1>1. "downloaded" \in EndingNews /\ "isDownloading" \notin HarmlessNews /\ "isDownloading" # "downloaded"
  BY DEF EndingNews, HarmlessNews
<1>2. DOMAIN news = 1 .. Len(news) /\ Len(news) \in Nat
  OBVIOUS
<1>3. CASE \E i \in DOMAIN news :
             news[i] = "downloaded" /\ \A j \in DOMAIN news : j > i => news[j] \in HarmlessNews
  <2>1. PICK i \in DOMAIN news :
             news[i] = "downloaded" /\ \A j \in DOMAIN news : j > i => news[j] \in HarmlessNews
    BY <1>3
  <2>2. \A j \in DOMAIN news : news[j] = "isDownloading" => i > j
    BY <1>1, <1>2, <2>1
  <2> QED
    BY <1>1, <2>1, <2>2 DEF ClaimEnds
<1>4. CASE banner \notin {"available", "downloading"} /\ \A j \in DOMAIN news : news[j] \in HarmlessNews
  BY <1>1, <1>4 DEF ClaimEnds
<1> QED
  BY <1>3, <1>4 DEF ReadyToInstall

\* The page hears the first of the news.
LEMMA HearStep == UpdInv /\ Hear => UpdInv'
<1> SUFFICES ASSUME UpdInv, Hear PROVE UpdInv'
  OBVIOUS
<1>1. /\ news \in Seq(AllNews) /\ news # <<>> /\ news' = Tail(news) /\ Len(news) \in Nat \ {0}
      /\ UNCHANGED <<flags, checkRun, loadRun>>
      /\ HearEvent(news[1]) \/ HearAnswer(news[1])
  BY DEF Hear, mainVars, UpdInv, UpdTypeOK
<1>2. /\ news' \in Seq(AllNews)
      /\ DOMAIN news = 1 .. Len(news) /\ DOMAIN news' = 1 .. Len(news) - 1
      /\ \A i \in 1 .. Len(news) - 1 : news'[i] = news[i + 1]
  BY <1>1
<1>3. \A j \in DOMAIN news : j # 1 => j - 1 \in DOMAIN news' /\ news'[j - 1] = news[j]
  <2> SUFFICES ASSUME NEW j \in DOMAIN news, j # 1 PROVE j - 1 \in DOMAIN news' /\ news'[j - 1] = news[j]
    OBVIOUS
  <2>1. j - 1 \in 1 .. Len(news) - 1 /\ (j - 1) + 1 = j
    BY <1>1, <1>2
  <2> QED
    BY <1>2, <2>1
<1>4. \A i \in DOMAIN news' : i + 1 \in DOMAIN news /\ news'[i] = news[i + 1] /\ i + 1 # 1
  BY <1>1, <1>2
<1>5. ASSUME ClaimEnds PROVE ClaimEnds'
  <2>1. \A i \in DOMAIN news' : news'[i] = "isDownloading" =>
          \E j \in DOMAIN news' : j > i /\ news'[j] \in EndingNews
    <3> SUFFICES ASSUME NEW i \in DOMAIN news', news'[i] = "isDownloading"
                 PROVE \E j \in DOMAIN news' : j > i /\ news'[j] \in EndingNews
      OBVIOUS
    <3>1. PICK j \in DOMAIN news : j > i + 1 /\ news[j] \in EndingNews
      BY <1>4, <1>5 DEF ClaimEnds
    <3>2. j - 1 > i /\ j # 1
      BY <1>2, <3>1
    <3> QED
      BY <1>3, <3>1, <3>2
  <2>2. ASSUME banner' = "downloading" PROVE \E i \in DOMAIN news' : news'[i] \in EndingNews
    <3>1. news[1] = "isDownloading" \/ (banner = "downloading" /\ news[1] \notin EndingNews)
      BY <1>1, <2>2 DEF HearEvent, HearAnswer, bannerVars, Busy, EndingNews
    <3>2. 1 \in DOMAIN news
      BY <1>1
    <3>3. \E j \in DOMAIN news : j # 1 /\ news[j] \in EndingNews
      <4>1. CASE news[1] = "isDownloading"
        BY <1>5, <3>2, <4>1 DEF ClaimEnds
      <4>2. CASE banner = "downloading" /\ news[1] \notin EndingNews
        BY <1>5, <4>2 DEF ClaimEnds
      <4> QED
        BY <3>1, <4>1, <4>2
    <3> QED
      BY <1>3, <3>3
  <2> QED
    BY <2>1, <2>2 DEF ClaimEnds
<1>6. ASSUME ReadyToInstall PROVE ReadyToInstall'
  <2>1. CASE \E i \in DOMAIN news :
               news[i] = "downloaded" /\ \A j \in DOMAIN news : j > i => news[j] \in HarmlessNews
    <3>1. PICK i \in DOMAIN news :
               news[i] = "downloaded" /\ \A j \in DOMAIN news : j > i => news[j] \in HarmlessNews
      BY <2>1
    <3>2. CASE i = 1
      <4>1. banner' = "ready"
        BY <1>1, <3>1, <3>2 DEF HearEvent, HearAnswer
      <4>2. \A j \in DOMAIN news' : news'[j] \in HarmlessNews
        <5> SUFFICES ASSUME NEW j \in DOMAIN news' PROVE news[j + 1] \in HarmlessNews
          BY <1>4
        <5>1. j + 1 \in DOMAIN news /\ j + 1 > 1
          BY <1>2, <1>4
        <5> QED
          BY <3>1, <3>2, <5>1
      <4> QED
        BY <4>1, <4>2 DEF ReadyToInstall
    <3>3. CASE i # 1
      <4>1. i - 1 \in DOMAIN news' /\ news'[i - 1] = "downloaded"
        BY <1>3, <3>1, <3>3
      <4>2. \A j \in DOMAIN news' : j > i - 1 => news'[j] \in HarmlessNews
        <5> SUFFICES ASSUME NEW j \in DOMAIN news', j > i - 1 PROVE news[j + 1] \in HarmlessNews
          BY <1>4
        <5>1. j + 1 > i
          BY <1>2
        <5> QED
          BY <1>4, <3>1, <5>1
      <4> QED
        BY <4>1, <4>2 DEF ReadyToInstall
    <3> QED
      BY <3>2, <3>3
  <2>2. CASE banner \notin {"available", "downloading"} /\ \A j \in DOMAIN news : news[j] \in HarmlessNews
    <3>1. news[1] \in HarmlessNews
      BY <1>1, <1>2, <2>2
    <3>2. banner' \notin {"available", "downloading"}
      BY <1>1, <3>1 DEF HearEvent, HearAnswer, HarmlessNews
    <3> QED
      BY <1>4, <2>2, <3>2 DEF ReadyToInstall
  <2> QED
    BY <1>6, <2>1, <2>2 DEF ReadyToInstall
<1> QED
  BY <1>1, <1>2, <1>5, <1>6 DEF UpdInv, UpdTypeOK

\* Checks, downloads and what is heard of them keep it.
LEMMA UpdInvStep == UpdInv /\ [UpdNext]_updVars => UpdInv'
<1> SUFFICES ASSUME UpdInv, [UpdNext]_updVars PROVE UpdInv'
  OBVIOUS
<1>0. /\ news \in Seq(AllNews)
      /\ flags \in [checking : BOOLEAN, available : BOOLEAN, info : BOOLEAN,
                    downloading : BOOLEAN, downloaded : BOOLEAN]
  BY DEF UpdInv, UpdTypeOK
<1>n. /\ \A n \in AllNews : <<n>> \in Seq(AllNews) /\ Len(<<n>>) = 1 /\ <<n>>[1] = n
      /\ <<>> \in Seq(AllNews) /\ Len(<<>>) = 0
      /\ \A n \in AllNews : PageTold(n) = <<n>> \/ PageTold(n) = <<>>
      /\ {"isDownloading", "isDownloaded", "isChecking", "available", "isAvailable", "isCurrent",
          "error", "checkFailed", "downloaded", "downloadFailed"} = AllNews
  BY DEF PageTold, AllNews, EndingNews
<1>s. ASSUME UNCHANGED <<flags, checkRun, loadRun, news>>,
             banner' \notin {"available", "downloading"} \/ banner' = banner
      PROVE UpdInv'
  BY <1>s DEF UpdInv, UpdTypeOK, ClaimEnds, ReadyToInstall
<1>1. CASE AutoCheck
  BY <1>0, <1>1 DEF AutoCheck, Started, bannerVars, UpdInv, UpdTypeOK, ClaimEnds, ReadyToInstall
<1>2. CASE ManualCheck
  <2>1. banner' = "checking" /\ loadRun' = loadRun
    BY <1>2 DEF ManualCheck
  <2>2. CASE ~(flags.downloading \/ flags.downloaded \/ flags.checking)
    <3>1. news' = news /\ flags' = [flags EXCEPT !.checking = TRUE, !.available = FALSE]
      BY <1>2, <2>2 DEF ManualCheck
    <3>2. flags' \in [checking : BOOLEAN, available : BOOLEAN, info : BOOLEAN,
                    downloading : BOOLEAN, downloaded : BOOLEAN]
          /\ flags'.downloading = FALSE /\ flags'.downloaded = FALSE
      BY <1>0, <2>2, <3>1
    <3>3. ~loadRun => ClaimEnds'
      BY <2>1, <2>2, <3>1 DEF UpdInv, ClaimEnds
    <3> QED
      BY <1>0, <2>1, <3>1, <3>2, <3>3 DEF UpdInv, UpdTypeOK
  <2>3. CASE flags.downloading \/ flags.downloaded \/ flags.checking
    <3> DEFINE n == IF flags.downloading THEN "isDownloading"
                    ELSE IF flags.downloaded THEN "isDownloaded" ELSE "isChecking"
    <3>1. news' = Append(news, n) /\ UNCHANGED <<flags, checkRun>>
      BY <1>2, <2>3 DEF ManualCheck, News
    <3>2. n \in AllNews
      BY <1>n
    <3>3. ~loadRun => n # "isDownloading"
      BY DEF UpdInv
    <3>4. ~loadRun /\ flags.downloaded => n \in HarmlessNews
      BY DEF UpdInv, HarmlessNews
    <3> HIDE DEF n
    <3>5. news' = news \o <<n>> /\ <<n>> \in Seq(AllNews) /\ Len(<<n>>) = 1 /\ <<n>>[1] = n
      BY <1>0, <3>1, <3>2
    <3>6. ASSUME ClaimEnds, ~loadRun PROVE ClaimEnds'
      <4>1. \A k \in 1 .. Len(<<n>>) : <<n>>[k] # "isDownloading"
        BY <3>3, <3>5, <3>6
      <4> QED
        BY <1>0, <2>1, <3>5, <3>6, <4>1, ClaimStands
    <3>7. ASSUME ReadyToInstall, ~loadRun, flags.downloaded PROVE ReadyToInstall'
      <4>1. \A k \in 1 .. Len(<<n>>) : <<n>>[k] \in HarmlessNews
        BY <3>4, <3>5, <3>7
      <4> QED
        BY <1>0, <2>1, <3>5, <3>7, <4>1, ReadyStands
    <3>8. news' \in Seq(AllNews)
      BY <1>0, <3>5, MoreNews
    <3> QED
      BY <2>1, <3>1, <3>6, <3>7, <3>8 DEF UpdInv, UpdTypeOK
  <2> QED
    BY <2>2, <2>3
<1>3. CASE CheckFinds
  <2> DEFINE s == (IF flags.downloading \/ flags.downloaded THEN <<>> ELSE <<"available">>)
                  \o PageTold("isAvailable")
  <2>1. /\ ~checkRun' /\ loadRun' = loadRun /\ banner' = banner
        /\ flags' = [flags EXCEPT !.available = TRUE, !.info = TRUE, !.checking = FALSE]
        /\ news' = (news \o (IF flags.downloading \/ flags.downloaded THEN <<>> ELSE <<"available">>))
                   \o PageTold("isAvailable")
    BY <1>3 DEF CheckFinds, bannerVars
  <2>2. PageTold("isAvailable") \in Seq(AllNews)
        /\ \A k \in 1 .. Len(PageTold("isAvailable")) : PageTold("isAvailable")[k] # "isDownloading"
    BY <1>n, ToldNews
  <2>3. s \in Seq(AllNews) /\ (\A k \in 1 .. Len(s) : s[k] # "isDownloading") /\ news' = news \o s
    <3>1. CASE flags.downloading \/ flags.downloaded
      <4>1. s = <<>> \o PageTold("isAvailable") /\ news' = (news \o <<>>) \o PageTold("isAvailable")
        BY <2>1, <3>1
      <4>2. <<>> \o PageTold("isAvailable") = PageTold("isAvailable") /\ news \o <<>> = news
        BY <1>0, <2>2
      <4> QED
        BY <2>2, <4>1, <4>2
    <3>2. CASE ~(flags.downloading \/ flags.downloaded)
      <4>1. s = <<"available">> \o PageTold("isAvailable")
            /\ news' = (news \o <<"available">>) \o PageTold("isAvailable")
        BY <2>1, <3>2
      <4>2. "available" \in AllNews \ {"isDownloading"}
        BY <1>n
      <4> HIDE DEF s
      <4> QED
        BY <1>0, <2>2, <4>1, <4>2, NewsThen
    <3> QED
      BY <3>1, <3>2
  <2> HIDE DEF s
  <2>4. news' \in Seq(AllNews) /\ (ClaimEnds => ClaimEnds')
    BY <1>0, <2>1, <2>3, MoreNews, ClaimStands
  <2>5. flags'.downloading = flags.downloading /\ flags'.downloaded = flags.downloaded
        /\ flags' \in [checking : BOOLEAN, available : BOOLEAN, info : BOOLEAN,
                       downloading : BOOLEAN, downloaded : BOOLEAN]
    BY <1>0, <2>1
  <2> QED
    BY <2>1, <2>4, <2>5 DEF UpdInv, UpdTypeOK
<1>4. CASE CheckFindsNothing
  <2> DEFINE s == PageTold("isCurrent")
  <2>1. /\ checkRun /\ ~checkRun' /\ loadRun' = loadRun /\ banner' = banner
        /\ flags' = [flags EXCEPT !.available = FALSE, !.info = FALSE, !.checking = FALSE, !.downloaded = FALSE]
        /\ news' = news \o s
    BY <1>4 DEF CheckFindsNothing, bannerVars
  <2>2. s \in Seq(AllNews) /\ \A k \in 1 .. Len(s) : s[k] # "isDownloading"
    BY <1>n, ToldNews
  <2> HIDE DEF s
  <2>3. ~loadRun => ClaimEnds
    BY <1>0, <2>1, ReadyEndsClaim DEF UpdInv
  <2>4. news' \in Seq(AllNews) /\ (ClaimEnds => ClaimEnds')
    BY <1>0, <2>1, <2>2, MoreNews, ClaimStands
  <2>5. flags'.downloading = flags.downloading /\ flags'.downloaded = FALSE
        /\ flags' \in [checking : BOOLEAN, available : BOOLEAN, info : BOOLEAN,
                       downloading : BOOLEAN, downloaded : BOOLEAN]
    BY <1>0, <2>1
  <2> QED
    BY <2>1, <2>3, <2>4, <2>5 DEF UpdInv, UpdTypeOK
<1>5. CASE CheckErrs
  <2> DEFINE s == <<"error">> \o PageTold("checkFailed")
  <2>1. /\ ~checkRun' /\ loadRun' = loadRun /\ banner' = banner
        /\ flags' = [flags EXCEPT !.checking = FALSE, !.downloading = FALSE]
        /\ news' = (news \o <<"error">>) \o PageTold("checkFailed")
    BY <1>5 DEF CheckErrs, bannerVars
  <2>2. PageTold("checkFailed") \in Seq(AllNews)
        /\ \A k \in 1 .. Len(PageTold("checkFailed")) : PageTold("checkFailed")[k] # "isDownloading"
    BY <1>n, ToldNews
  <2>3. s \in Seq(AllNews) /\ (\A k \in 1 .. Len(s) : s[k] # "isDownloading") /\ news' = news \o s
    <3>1. "error" \in AllNews \ {"isDownloading"}
      BY <1>n
    <3> QED
      BY <1>0, <2>1, <2>2, <3>1, NewsThen
  <2> HIDE DEF s
  <2>4. news' \in Seq(AllNews) /\ (ClaimEnds => ClaimEnds')
    BY <1>0, <2>1, <2>3, MoreNews, ClaimStands
  <2>5. flags'.downloading = FALSE /\ flags'.downloaded = flags.downloaded
        /\ flags' \in [checking : BOOLEAN, available : BOOLEAN, info : BOOLEAN,
                       downloading : BOOLEAN, downloaded : BOOLEAN]
    BY <1>0, <2>1
  <2> QED
    BY <2>1, <2>4, <2>5 DEF UpdInv, UpdTypeOK
<1>6. CASE CheckTimesOut
  <2> DEFINE s == PageTold("checkFailed")
  <2>1. /\ UNCHANGED <<checkRun, loadRun, banner>>
        /\ flags' = [flags EXCEPT !.checking = FALSE]
        /\ news' = news \o s
    BY <1>6 DEF CheckTimesOut, bannerVars
  <2>2. /\ s \in Seq(AllNews) /\ \A k \in 1 .. Len(s) : s[k] # "isDownloading"
        /\ \A k \in 1 .. Len(s) : s[k] \in HarmlessNews
    BY <1>n, ToldNews DEF HarmlessNews
  <2> HIDE DEF s
  <2>3. news' \in Seq(AllNews) /\ (ClaimEnds => ClaimEnds')
    BY <1>0, <2>1, <2>2, MoreNews, ClaimStands
  <2>4. ReadyToInstall => ReadyToInstall'
    BY <1>0, <2>1, <2>2, ReadyStands
  <2>5. flags'.downloading = flags.downloading /\ flags'.downloaded = flags.downloaded
        /\ flags' \in [checking : BOOLEAN, available : BOOLEAN, info : BOOLEAN,
                       downloading : BOOLEAN, downloaded : BOOLEAN]
    BY <1>0, <2>1
  <2> QED
    BY <2>1, <2>3, <2>4, <2>5 DEF UpdInv, UpdTypeOK
<1>7. CASE Download
  <2>1. news' = news /\ checkRun' = checkRun /\ banner = "available"
    BY <1>7 DEF Download
  <2>2. CASE ~flags.info
    BY <1>7, <1>s, <2>1, <2>2 DEF Download
  <2>3. CASE flags.info /\ ~flags.downloading /\ ~flags.downloaded
    <3>1. loadRun' = TRUE /\ flags' = [flags EXCEPT !.downloading = TRUE]
      BY <1>7, <2>3 DEF Download
    <3>2. flags'.downloaded = FALSE
          /\ flags' \in [checking : BOOLEAN, available : BOOLEAN, info : BOOLEAN,
                         downloading : BOOLEAN, downloaded : BOOLEAN]
      BY <1>0, <2>3, <3>1
    <3> QED
      BY <1>0, <2>1, <3>1, <3>2 DEF UpdInv, UpdTypeOK
  <2>4. CASE flags.info /\ (flags.downloading \/ flags.downloaded)
    <3>1. banner' = "downloading" /\ UNCHANGED <<flags, loadRun>>
      BY <1>7, <2>4 DEF Download
    <3>2. ReadyToInstall => ReadyToInstall'
      BY <2>1 DEF ReadyToInstall
    <3> QED
      BY <1>0, <2>1, <2>4, <3>1, <3>2 DEF UpdInv, UpdTypeOK
  <2> QED
    BY <2>2, <2>3, <2>4
<1>8. CASE DownloadEnds
  <2>1. /\ ~loadRun' /\ UNCHANGED checkRun /\ news' = Append(news, "downloaded")
        /\ flags' = [flags EXCEPT !.downloading = FALSE, !.downloaded = TRUE, !.info = TRUE]
    BY <1>8 DEF DownloadEnds, News
  <2>2. ReadyToInstall' /\ news' \in Seq(AllNews)
    BY <1>0, <2>1, ReadyAtLast
  <2>3. flags'.downloading = FALSE /\ flags'.downloaded = TRUE
        /\ flags' \in [checking : BOOLEAN, available : BOOLEAN, info : BOOLEAN,
                       downloading : BOOLEAN, downloaded : BOOLEAN]
    BY <1>0, <2>1
  <2> QED
    BY <2>1, <2>2, <2>3 DEF UpdInv, UpdTypeOK
<1>9. CASE DownloadErrs
  <2> DEFINE s == <<"error">> \o (IF pageLoad THEN <<"downloadFailed">> ELSE <<>>)
  <2>1. /\ loadRun /\ ~loadRun' /\ UNCHANGED checkRun
        /\ flags' = [flags EXCEPT !.checking = FALSE, !.downloading = FALSE]
        /\ news' = (news \o <<"error">>) \o IF pageLoad THEN <<"downloadFailed">> ELSE <<>>
    BY <1>9 DEF DownloadErrs
  <2>t. (IF pageLoad THEN <<"downloadFailed">> ELSE <<>>) \in Seq(AllNews)
        /\ \A k \in 1 .. Len(IF pageLoad THEN <<"downloadFailed">> ELSE <<>>) :
              (IF pageLoad THEN <<"downloadFailed">> ELSE <<>>)[k] # "isDownloading"
    <3>1. CASE pageLoad
      <4>1. <<"downloadFailed">> \in Seq(AllNews)
            /\ \A k \in 1 .. Len(<<"downloadFailed">>) : <<"downloadFailed">>[k] = "downloadFailed"
        BY <1>n
      <4> QED
        BY <3>1, <4>1
    <3>2. CASE ~pageLoad
      <4>1. <<>> \in Seq(AllNews) /\ \A k \in 1 .. Len(<<>>) : FALSE
        BY <1>n
      <4> QED
        BY <3>2, <4>1
    <3> QED
      BY <3>1, <3>2
  <2>2. /\ s \in Seq(AllNews) /\ \A k \in 1 .. Len(s) : s[k] # "isDownloading"
        /\ 1 \in 1 .. Len(s) /\ s[1] = "error" /\ news' = news \o s
    <3>1. "error" \in AllNews \ {"isDownloading"}
      BY <1>n
    <3> QED
      BY <1>0, <2>1, <2>t, <3>1, NewsThen
  <2>3. s[1] \in EndingNews
    BY <2>2 DEF EndingNews
  <2> HIDE DEF s
  <2>5. news' \in Seq(AllNews) /\ ClaimEnds'
    BY <1>0, <2>2, <2>3, MoreNews, ClaimEndsAtLast
  <2>6. flags'.downloading = FALSE /\ flags'.downloaded = FALSE
        /\ flags' \in [checking : BOOLEAN, available : BOOLEAN, info : BOOLEAN,
                       downloading : BOOLEAN, downloaded : BOOLEAN]
    BY <1>0, <2>1 DEF UpdInv
  <2> QED
    BY <2>1, <2>5, <2>6 DEF UpdInv, UpdTypeOK
<1>10. CASE Hear
  BY <1>10, HearStep
<1>11. CASE HideFires \/ Dismiss
  BY <1>11, <1>s DEF HideFires, Dismiss, mainVars
<1>12. CASE UNCHANGED updVars
  BY <1>12, <1>s DEF updVars
<1> QED
  BY <1>1, <1>2, <1>3, <1>4, <1>5, <1>6, <1>7, <1>8, <1>9, <1>10, <1>11, <1>12 DEF UpdNext

\* (DownloadIsReal) A banner that says "downloading" never says it for nothing.
THEOREM DownloadsAreReal == UpdSpec => []DownloadIsReal
<1>1. UpdInit => UpdInv
  BY UpdInvInit
<1>2. UpdInv /\ [UpdNext]_updVars => UpdInv'
  BY UpdInvStep
<1>3. UpdInv => DownloadIsReal
  BY DEF UpdInv, UpdTypeOK, ClaimEnds, DownloadIsReal
<1> QED
  BY <1>1, <1>2, <1>3, PTL DEF UpdSpec

\* (ShellIsSound) The shell and the updater together.
THEOREM ShellStaysSound == ShellSpec /\ UpdSpec => []ShellIsSound
BY PageAndBackendAgree, DownloadsAreReal, PTL DEF ShellIsSound

-----------------------------------------------------------------------------

(***************************************************************************)
(* The clean-up.  As long as a launch has met no error, what it does not   *)
(* have before it any more is clean; a file is rewritten while it is the   *)
(* first that is left.                                                     *)
(***************************************************************************)
CleanInv ==
  /\ DOMAIN oldFiles = ToSet(Targets) /\ oldFiles = [p \in DOMAIN oldFiles |-> oldFiles[p]]
  /\ todo \in Seq(ToSet(Targets))
  /\ ~errors /\ ~ran =>
        \A p \in ToSet(Targets) : p \in ToSet(todo) \/ oldFiles[p] \cap IdentityKeys = {}
  /\ rewriting # NoPath => todo # <<>> /\ rewriting = Head(todo)
  /\ CleanupIsSafe

\* What the clean-up goes through is a sequence of its targets.
LEMMA TargetsType == Targets \in Seq(ToSet(Targets))
<1> DEFINE P == {UserDataDir, AppDir, AuthDir} \X {"kanivet-auth.json", "config.json"}
<1>1. ASSUME NEW s \in Seq(P), NEW p \in P PROVE AddTarget(s, p) \in Seq(P)
  BY DEF AddTarget
<1>2. <<<<UserDataDir, "kanivet-auth.json">>>> \in Seq(P)
  OBVIOUS
<1>3. <<UserDataDir, "config.json">> \in P /\ <<AppDir, "config.json">> \in P
      /\ <<AppDir, "kanivet-auth.json">> \in P /\ <<AuthDir, "config.json">> \in P
  OBVIOUS
<1> HIDE DEF P
<1>4. Targets \in Seq(P)
  BY <1>1, <1>2, <1>3 DEF Targets
<1> QED
  BY <1>4 DEF ToSet

\* At the first launch everything is still to be looked at.
LEMMA CleanInvInit == CleanInit => CleanInv
<1> SUFFICES ASSUME CleanInit PROVE CleanInv
  OBVIOUS
<1>1. DOMAIN oldFiles = ToSet(Targets) /\ oldFiles = [p \in DOMAIN oldFiles |-> oldFiles[p]]
  BY DEF CleanInit
<1>2. \A p \in DOMAIN oldFiles \cap DOMAIN CleanKeys : oldFiles[p] = CleanKeys[p]
  BY DEF CleanInit
<1>3. CleanupIsSafe
  BY <1>2 DEF CleanInit, CleanupIsSafe, Scrubbed
<1> QED
  BY <1>1, <1>3, TargetsType DEF CleanInit, CleanInv

\* What a sequence has is its first element and what its tail has.
LEMMA HeadAndTail ==
  ASSUME NEW S, NEW s \in Seq(S), s # <<>>
  PROVE  /\ ToSet(s) = {Head(s)} \cup ToSet(Tail(s)) /\ Tail(s) \in Seq(S) /\ Head(s) \in S
<1>1. /\ Len(s) \in Nat \ {0} /\ DOMAIN s = 1 .. Len(s) /\ Head(s) = s[1]
      /\ Tail(s) \in Seq(S) /\ DOMAIN Tail(s) = 1 .. Len(s) - 1
      /\ \A i \in 1 .. Len(s) - 1 : Tail(s)[i] = s[i + 1]
  OBVIOUS
<1>2. ASSUME NEW i \in DOMAIN s, i # 1 PROVE i - 1 \in DOMAIN Tail(s) /\ Tail(s)[i - 1] = s[i]
  <2>1. i - 1 \in 1 .. Len(s) - 1 /\ (i - 1) + 1 = i
    BY <1>1, <1>2
  <2> QED
    BY <1>1, <2>1
<1>3. \A i \in DOMAIN Tail(s) : i + 1 \in DOMAIN s
  BY <1>1
<1>4. 1 \in DOMAIN s /\ s[1] \in S
  BY <1>1
<1> QED
  <2>1. ToSet(s) \subseteq {Head(s)} \cup ToSet(Tail(s))
    <3> SUFFICES ASSUME NEW i \in DOMAIN s, i # 1 PROVE s[i] \in ToSet(Tail(s))
      BY <1>1 DEF ToSet
    <3> QED
      BY <1>2 DEF ToSet
  <2>2. ToSet(Tail(s)) \subseteq ToSet(s)
    <3> SUFFICES ASSUME NEW i \in DOMAIN Tail(s) PROVE Tail(s)[i] \in ToSet(s)
      BY DEF ToSet
    <3> QED
      BY <1>1, <1>3 DEF ToSet
  <2>3. Head(s) \in ToSet(s)
    BY <1>1, <1>4 DEF ToSet
  <2> QED
    BY <1>1, <1>4, <2>1, <2>2, <2>3

\* Every target, failure, crash and relaunch keeps it.
LEMMA CleanInvStep == CleanInv /\ [CleanNext]_cleanVars => CleanInv'
<1> SUFFICES ASSUME CleanInv, [CleanNext]_cleanVars PROVE CleanInv'
  OBVIOUS
<1>0. /\ DOMAIN oldFiles = ToSet(Targets) /\ oldFiles = [p \in DOMAIN oldFiles |-> oldFiles[p]]
      /\ todo \in Seq(ToSet(Targets))
      /\ todo # <<>> => /\ ToSet(todo) = {Head(todo)} \cup ToSet(Tail(todo))
                        /\ Tail(todo) \in Seq(ToSet(Targets)) /\ Head(todo) \in ToSet(Targets)
  BY HeadAndTail DEF CleanInv
\* The first that is left is dealt with: its file now has these keys.
<1>s. ASSUME NEW keys, todo # <<>>, todo' = Tail(todo), rewriting' = NoPath, ran' = ran,
             oldFiles' = [oldFiles EXCEPT ![Head(todo)] = keys],
             keys = oldFiles[Head(todo)] \/ keys = Scrubbed(oldFiles[Head(todo)]),
             errors' \/ (errors' = errors /\ keys \cap IdentityKeys = {})
      PROVE  CleanInv'
  <2>1. DOMAIN oldFiles' = ToSet(Targets) /\ oldFiles' = [p \in DOMAIN oldFiles' |-> oldFiles'[p]]
    BY <1>0, <1>s
  <2>2. \A p \in ToSet(Targets) : oldFiles'[p] = IF p = Head(todo) THEN keys ELSE oldFiles[p]
    BY <1>0, <1>s
  <2>3. CleanupIsSafe'
    <3>1. ran' => \A p \in ToSet(Targets) : oldFiles'[p] \cap IdentityKeys = {}
      BY <1>0, <1>s, <2>2 DEF CleanInv, CleanupIsSafe, Scrubbed
    <3>2. \A p \in ToSet(Targets) \cap DOMAIN CleanKeys : Scrubbed(CleanKeys[p]) \subseteq oldFiles'[p]
      BY <1>0, <1>s, <2>2 DEF CleanInv, CleanupIsSafe, Scrubbed
    <3> QED
      BY <2>1, <3>1, <3>2 DEF CleanupIsSafe
  <2>4. ASSUME ~errors', ~ran', NEW p \in ToSet(Targets)
        PROVE p \in ToSet(todo') \/ oldFiles'[p] \cap IdentityKeys = {}
    BY <1>0, <1>s, <2>2, <2>4 DEF CleanInv
  <2> QED
    BY <1>0, <1>s, <2>1, <2>3, <2>4 DEF CleanInv
<1>1. CASE LooksAt
  <2> DEFINE p == Head(todo)
  <2>1. ~ran /\ todo # <<>> /\ rewriting = NoPath /\ ran' = ran /\ p \in ToSet(Targets)
    BY <1>0, <1>1 DEF LooksAt
  <2>2. [oldFiles EXCEPT ![p] = oldFiles[p]] = oldFiles
    BY <1>0, <2>1
  <2>3. CASE p \in unreadable
    <3>1. errors' = TRUE /\ todo' = Tail(todo) /\ oldFiles' = oldFiles /\ rewriting' = rewriting
      BY <1>1, <2>3 DEF LooksAt
    <3> QED
      BY <1>s, <2>1, <2>2, <3>1
  <2>4. CASE p \notin unreadable /\ Scrubbed(oldFiles[p]) = oldFiles[p]
    <3>1. errors' = errors /\ todo' = Tail(todo) /\ oldFiles' = oldFiles /\ rewriting' = rewriting
      BY <1>1, <2>4 DEF LooksAt
    <3>2. oldFiles[p] \cap IdentityKeys = {}
      BY <2>4 DEF Scrubbed
    <3> QED
      BY <1>s, <2>1, <2>2, <3>1, <3>2
  <2>5. CASE p \notin unreadable /\ Scrubbed(oldFiles[p]) # oldFiles[p] /\ Scrubbed(oldFiles[p]) = {}
    <3>1. /\ \/ oldFiles' = [oldFiles EXCEPT ![p] = {}] /\ errors' = errors
             \/ errors' = TRUE /\ oldFiles' = oldFiles
          /\ todo' = Tail(todo) /\ rewriting' = rewriting
      BY <1>1, <2>5 DEF LooksAt
    <3>2. CASE oldFiles' = [oldFiles EXCEPT ![p] = {}] /\ errors' = errors
      BY <1>s, <2>1, <2>5, <3>1, <3>2
    <3>3. CASE errors' = TRUE /\ oldFiles' = oldFiles
      BY <1>s, <2>1, <2>2, <3>1, <3>3
    <3> QED
      BY <3>1, <3>2, <3>3
  <2>6. CASE p \notin unreadable /\ Scrubbed(oldFiles[p]) # oldFiles[p] /\ Scrubbed(oldFiles[p]) # {}
    <3>1. rewriting' = p /\ oldFiles' = oldFiles /\ errors' = errors /\ todo' = todo
      BY <1>1, <2>6 DEF LooksAt
    <3> QED
      BY <2>1, <3>1 DEF CleanInv, CleanupIsSafe
  <2> QED
    BY <2>3, <2>4, <2>5, <2>6
<1>2. CASE Rewrites
  <2>1. /\ rewriting # NoPath /\ rewriting' = NoPath /\ Rewritten /\ todo' = Tail(todo) /\ ran' = ran
        /\ todo # <<>> /\ rewriting = Head(todo)
    BY <1>2 DEF Rewrites, CleanInv
  <2>2. [oldFiles EXCEPT ![Head(todo)] = oldFiles[Head(todo)]] = oldFiles
    BY <1>0, <2>1
  <2>3. CASE oldFiles' = [oldFiles EXCEPT ![rewriting] = Scrubbed(@)] /\ errors' = errors
    <3>1. Scrubbed(oldFiles[Head(todo)]) \cap IdentityKeys = {}
      BY DEF Scrubbed
    <3> QED
      BY <1>s, <2>1, <2>3, <3>1
  <2>4. CASE errors' = TRUE /\ oldFiles' = oldFiles
    BY <1>s, <2>1, <2>2, <2>4
  <2> QED
    BY <2>1, <2>3, <2>4 DEF Rewritten
<1>3. CASE CleanEnds
  <2>1. /\ ~ran /\ todo = <<>> /\ ~errors /\ ran' /\ UNCHANGED <<oldFiles, todo, errors, rewriting>>
    BY <1>3 DEF CleanEnds, Cleaned
  <2>2. \A p \in ToSet(Targets) : oldFiles[p] \cap IdentityKeys = {}
    BY <2>1 DEF CleanInv, ToSet
  <2> QED
    BY <1>0, <2>1, <2>2 DEF CleanInv, CleanupIsSafe
<1>4. CASE CleanRelaunch
  <2>1. /\ todo' = (IF ran THEN <<>> ELSE Targets) /\ rewriting' = NoPath
        /\ UNCHANGED <<oldFiles, ran>>
    BY <1>4 DEF CleanRelaunch
  <2>2. todo' \in Seq(ToSet(Targets))
    BY <2>1, TargetsType
  <2> QED
    BY <1>0, <2>1, <2>2 DEF CleanInv, CleanupIsSafe
<1>5. ASSUME NEW p \in ToSet(Targets), FileFaults(p) PROVE CleanInv'
  BY <1>5 DEF FileFaults, CleanInv, CleanupIsSafe
<1>6. CASE UNCHANGED cleanVars
  BY <1>6 DEF cleanVars, CleanInv, CleanupIsSafe
<1> QED
  BY <1>1, <1>2, <1>3, <1>4, <1>5, <1>6 DEF CleanNext

\* (CleanupIsSafe) Once it calls itself done no identity key is left, and no
\* other key is ever lost.
THEOREM CleanupStaysSafe == CleanSpec => []CleanupIsSafe
<1>1. CleanInit => CleanInv
  BY CleanInvInit
<1>2. CleanInv /\ [CleanNext]_cleanVars => CleanInv'
  BY CleanInvStep
<1>3. CleanInv => CleanupIsSafe
  BY DEF CleanInv
<1> QED
  BY <1>1, <1>2, <1>3, PTL DEF CleanSpec

-----------------------------------------------------------------------------
(***************************************************************************)
(* The theme: what requests on their way may be about.                     *)
(***************************************************************************)
SomeTheme == Themes \cup {"none"}
ThemeRequest ==
  [op : {"boot", "apply", "download", "delete"}, id : SomeTheme \cup BuiltIn,
   then : {"none", "show", "installed", "wasCurrent"}, state : {"sent", "ok", "failed"},
   seen : SUBSET Themes, mode : {"none", "dark", "light", "custom"}]

RequestsMakeSense ==
  \A r \in treqs :
     /\ r \in ThemeRequest
     /\ r.op = "boot" => r.then = "none" /\ r.id \in SomeTheme
     /\ r.op = "apply" /\ r.then # "none" => r.id \in Themes
     /\ r.op = "download" => r.id \in Themes
     /\ r.op = "delete" => r.then # "installed"

ThemeInv ==
  /\ current \in SomeTheme /\ listed \subseteq Themes /\ files \subseteq Themes
  /\ storedTheme \in [mode : {"dark", "light", "custom"}, id : SomeTheme]
  /\ system \in BuiltIn /\ style \in [ColourKeys -> SomeTheme]
  /\ RequestsMakeSense
  /\ ThemeShowsItself

\* A theme has colours among those there are.
LEMMA ConvertedType == \A t \in Themes : Converted(t) \subseteq ColourKeys
BY GivesAssumption DEF Converted, DerivedColours, ColourKeys

\* The effect puts the theme on screen that the page is told to show.
LEMMA EffectsShow ==
  ASSUME NEW m, NEW c \in SomeTheme, NEW sys, NEW st \in [ColourKeys -> SomeTheme],
         Effects(m, c, sys, st)
  PROVE  /\ style' \in [ColourKeys -> SomeTheme]
         /\ m = "custom" /\ c # "none" =>
               attr' = ThemeType[c] /\ \A k \in Converted(c) : style'[k] = c
BY ConvertedType DEF Effects, Applied, SomeTheme

\* The document without colours of its own.
LEMMA UnstyledType == Unstyled \in [ColourKeys -> SomeTheme]
BY DEF Unstyled, SomeTheme

\* The first launch shows the dark theme and asks for the stored one.
LEMMA ThemeInvInit == ThemeInit => ThemeInv
BY UnstyledType DEF ThemeInit, ThemeInv, SomeTheme, BuiltIn, RequestsMakeSense, ThemeRequest, TReq, ThemeShowsItself

\* A request the page sends.
LEMMA RequestType ==
  ASSUME NEW op \in {"boot", "apply", "download", "delete"}, NEW id \in SomeTheme \cup BuiltIn,
         NEW then \in {"none", "show", "installed", "wasCurrent"}, NEW r, r = TReq(op, id, then)
  PROVE  r \in ThemeRequest /\ r.op = op /\ r.id = id /\ r.then = then
<1>1. r = [op |-> op, id |-> id, then |-> then, state |-> "sent", seen |-> {}, mode |-> "none"]
  BY DEF TReq
<1>2. r.op = op /\ r.id = id /\ r.then = then
  BY <1>1
<1>3. /\ "sent" \in {"sent", "ok", "failed"} /\ {} \in SUBSET Themes
      /\ "none" \in {"none", "dark", "light", "custom"}
  OBVIOUS
<1>4. r \in ThemeRequest
  BY <1>1, <1>3 DEF ThemeRequest
<1> QED
  BY <1>2, <1>4

\* Choices, answers in any order and relaunches keep it.
LEMMA ThemeInvStep == ThemeInv /\ [ThemeNext]_themeVars => ThemeInv'
<1> SUFFICES ASSUME ThemeInv, [ThemeNext]_themeVars PROVE ThemeInv'
  OBVIOUS
<1>0. /\ current \in SomeTheme /\ listed \subseteq Themes /\ files \subseteq Themes
      /\ storedTheme \in [mode : {"dark", "light", "custom"}, id : SomeTheme]
      /\ system \in BuiltIn /\ style \in [ColourKeys -> SomeTheme]
      /\ RequestsMakeSense
      /\ mode = "custom" /\ current # "none"
            => attr = ThemeType[current] /\ \A k \in Converted(current) : style[k] = current
      /\ installing => \E r \in treqs : r.op = "download" \/ r.then = "installed"
  BY DEF ThemeInv, ThemeShowsItself
<1>1. ASSUME NEW m \in BuiltIn \cup {"auto"}, NEW st \in [ColourKeys -> SomeTheme], NEW c \in SomeTheme,
             NEW reqs \in SUBSET treqs,
             SetMode(m, c, st, reqs), UNCHANGED <<listed, installing, system, storedTheme, files>>,
             current' = c,
             installing => \E r \in reqs : r.op = "download" \/ r.then = "installed"
      PROVE ThemeInv'
  <2>1. m # "custom" /\ (IF m = "auto" THEN system ELSE m) \in SomeTheme \cup BuiltIn
    BY <1>0 DEF BuiltIn
  <2>2. mode' = m /\ Effects(m, c, system, st)
        /\ treqs' = reqs \cup {TReq("apply", IF m = "auto" THEN system ELSE m, "none")}
    BY <1>1, <2>1 DEF SetMode
  <2> DEFINE id == IF m = "auto" THEN system ELSE m
  <2>5. id \in SomeTheme \cup BuiltIn
    BY <2>1
  <2>6. treqs' = reqs \cup {TReq("apply", id, "none")}
    BY <2>2
  <2> HIDE DEF id
  <2>7. /\ TReq("apply", id, "none") \in ThemeRequest /\ TReq("apply", id, "none").op = "apply"
       /\ TReq("apply", id, "none").id = id /\ TReq("apply", id, "none").then = "none"
    BY <2>5 DEF TReq, ThemeRequest, SomeTheme, BuiltIn
  <2>3. RequestsMakeSense'
    BY <1>0, <2>6, <2>7 DEF RequestsMakeSense
  <2>4. style' \in [ColourKeys -> SomeTheme]
    BY <2>2, EffectsShow
  <2> QED
    BY <1>0, <1>1, <2>1, <2>2, <2>3, <2>4 DEF ThemeInv, ThemeShowsItself
<1>2. ASSUME NEW m \in BuiltIn, PickBuiltIn(m) PROVE ThemeInv'
  BY <1>0, <1>1, <1>2, UnstyledType DEF PickBuiltIn
<1>3. CASE ToggleTheme
  <2> DEFINE m == CASE mode = "dark" -> "light" [] mode = "light" -> "auto" [] OTHER -> "dark"
  <2>1. m \in BuiltIn \cup {"auto"}
    BY DEF BuiltIn
  <2>2. SetMode(m, current, style, treqs) /\ UNCHANGED <<current, listed, installing, system, storedTheme, files>>
    BY <1>3 DEF ToggleTheme
  <2> HIDE DEF m
  <2> QED
    BY <1>0, <1>1, <2>1, <2>2
<1>4. CASE SystemChanges
  <2>1. /\ Effects(mode, current, system', style) /\ system' \in BuiltIn
        /\ UNCHANGED <<mode, current, listed, installing, storedTheme, files, treqs>>
    BY <1>4 DEF SystemChanges, BuiltIn
  <2>2. /\ style' \in [ColourKeys -> SomeTheme]
        /\ mode = "custom" /\ current # "none" =>
               attr' = ThemeType[current] /\ \A k \in Converted(current) : style'[k] = current
    BY <1>0, <2>1, EffectsShow
  <2> QED
    BY <1>0, <2>1, <2>2 DEF ThemeInv, ThemeShowsItself, RequestsMakeSense
\* A request is sent, and nothing shown changes.
<1>5. ASSUME NEW r \in ThemeRequest, treqs' = treqs \cup {r}, r.op # "boot",
             r.op = "apply" /\ r.then # "none" => r.id \in Themes,
             r.op = "download" => r.id \in Themes, r.op = "delete" => r.then # "installed",
             installing' => installing \/ r.op = "download",
             UNCHANGED <<mode, current, listed, system, style, attr, storedTheme, files>>
      PROVE ThemeInv'
  BY <1>0, <1>5 DEF ThemeInv, ThemeShowsItself, RequestsMakeSense
<1>6. ASSUME NEW t \in Themes, PickCustom(t) PROVE ThemeInv'
  <2>1. t \in SomeTheme \cup BuiltIn
    BY DEF SomeTheme
  <2>2. /\ TReq("apply", t, "show") \in ThemeRequest /\ TReq("apply", t, "show").op = "apply"
       /\ TReq("apply", t, "show").id = t /\ TReq("apply", t, "show").then = "show"
    BY <2>1 DEF TReq, ThemeRequest, SomeTheme, BuiltIn
  <2> QED
    BY <1>5, <1>6, <2>2 DEF PickCustom
<1>7. ASSUME NEW t \in Themes, Install(t) PROVE ThemeInv'
  <2>1. t \in SomeTheme \cup BuiltIn
    BY DEF SomeTheme
  <2>2. /\ TReq("download", t, "none") \in ThemeRequest /\ TReq("download", t, "none").op = "download"
       /\ TReq("download", t, "none").id = t /\ TReq("download", t, "none").then = "none"
    BY <2>1 DEF TReq, ThemeRequest, SomeTheme, BuiltIn
  <2> QED
    BY <1>5, <1>7, <2>2 DEF Install
<1>8. ASSUME NEW t \in Themes, RemoveTheme(t) PROVE ThemeInv'
  <2> DEFINE then == IF current = t THEN "wasCurrent" ELSE "none"
  <2>1. t \in SomeTheme \cup BuiltIn /\ then \in {"none", "show", "installed", "wasCurrent"}
        /\ then # "installed"
    BY DEF SomeTheme
  <2>2. treqs' = treqs \cup {TReq("delete", t, then)}
        /\ UNCHANGED <<mode, current, listed, installing, system, style, attr, storedTheme, files>>
    BY <1>8 DEF RemoveTheme
  <2> HIDE DEF then
  <2> DEFINE r == TReq("delete", t, then)
  <2>4. treqs' = treqs \cup {r} /\ r = TReq("delete", t, then)
    BY <2>2
  <2> HIDE DEF r
  <2>3. r \in ThemeRequest /\ r.op = "delete" /\ r.then = then
    <3>1. "delete" \in {"boot", "apply", "download", "delete"}
      OBVIOUS
    <3> QED
      BY <2>1, <2>4, <3>1, RequestType
  <2> QED
    BY <1>5, <2>1, <2>2, <2>3, <2>4
<1>9. ASSUME NEW r \in treqs, ServeTheme(r) PROVE ThemeInv'
  <2>1. PICK ok \in BOOLEAN, list \in {files, {}} :
          /\ storedTheme' = IF ok /\ r.op = "apply"
                            THEN IF r.id \in BuiltIn THEN [mode |-> r.id, id |-> "none"]
                                 ELSE [mode |-> "custom", id |-> r.id]
                            ELSE storedTheme
          /\ ok => (r.op \in {"apply", "delete"} => r.id \in BuiltIn \cup files)
          /\ files' = IF ~ok THEN files
                      ELSE CASE r.op = "download" -> files \cup {r.id}
                             [] r.op = "delete" -> files \ {r.id}
                             [] OTHER -> files
          /\ treqs' = (treqs \ {r}) \cup
                 {[r EXCEPT !.state = IF ok THEN "ok" ELSE "failed",
                            !.seen = IF r.op = "boot" THEN list ELSE {},
                            !.id = IF r.op = "boot" /\ ok THEN storedTheme.id ELSE @,
                            !.mode = IF r.op = "boot" /\ ok THEN storedTheme.mode ELSE "none"]}
    BY <1>9 DEF ServeTheme
  <2>2. UNCHANGED <<mode, current, listed, installing, system, style, attr>>
    BY <1>9 DEF ServeTheme
  <2> DEFINE q == [r EXCEPT !.state = IF ok THEN "ok" ELSE "failed",
                            !.seen = IF r.op = "boot" THEN list ELSE {},
                            !.id = IF r.op = "boot" /\ ok THEN storedTheme.id ELSE @,
                            !.mode = IF r.op = "boot" /\ ok THEN storedTheme.mode ELSE "none"]
  <2>3. r \in ThemeRequest /\ (r.op = "boot" => r.then = "none" /\ r.id \in SomeTheme)
        /\ (r.op = "apply" /\ r.then # "none" => r.id \in Themes)
        /\ (r.op = "download" => r.id \in Themes) /\ (r.op = "delete" => r.then # "installed")
    BY <1>0 DEF RequestsMakeSense
  <2>4. /\ q.op = r.op /\ q.then = r.then /\ q.id = (IF r.op = "boot" /\ ok THEN storedTheme.id ELSE r.id)
        /\ q \in ThemeRequest
    <3> DEFINE st == IF ok THEN "ok" ELSE "failed"
               sn == IF r.op = "boot" THEN list ELSE {}
               id == IF r.op = "boot" /\ ok THEN storedTheme.id ELSE r.id
               md == IF r.op = "boot" /\ ok THEN storedTheme.mode ELSE "none"
    <3>1. r.id \in SomeTheme \cup BuiltIn
      BY <2>3 DEF ThemeRequest
    <3>2. /\ st \in {"sent", "ok", "failed"} /\ sn \in SUBSET Themes
          /\ id \in SomeTheme \cup BuiltIn /\ md \in {"none", "dark", "light", "custom"}
      BY <1>0, <3>1
    <3>3. q = [r EXCEPT !.state = st, !.seen = sn, !.id = id, !.mode = md]
      OBVIOUS
    <3> HIDE DEF st, sn, id, md, q
    <3>4. q \in ThemeRequest /\ q.op = r.op /\ q.then = r.then /\ q.id = id
      BY <2>3, <3>2, <3>3 DEF ThemeRequest
    <3> QED
      BY <3>4 DEF id
  <2>5. treqs' = (treqs \ {r}) \cup {q}
    BY <2>1
  <2> HIDE DEF q
  <2>6. RequestsMakeSense'
    BY <1>0, <2>3, <2>4, <2>5 DEF RequestsMakeSense
  <2>7. files' \subseteq Themes
    BY <1>0, <2>1, <2>3
  <2>8. storedTheme' \in [mode : {"dark", "light", "custom"}, id : SomeTheme]
    BY <1>0, <2>1, <2>3 DEF BuiltIn, SomeTheme
  <2>9. installing' => \E x \in treqs' : x.op = "download" \/ x.then = "installed"
    BY <1>0, <2>2, <2>4, <2>5
  <2> QED
    BY <1>0, <2>2, <2>6, <2>7, <2>8, <2>9 DEF ThemeInv, ThemeShowsItself
\* One that has been answered goes, with no installation depending on it.
<1>r. ASSUME NEW r \in treqs, r.op # "download", r.then # "installed"
      PROVE installing => \E x \in treqs \ {r} : x.op = "download" \/ x.then = "installed"
  BY <1>0, <1>r
<1>10. ASSUME NEW r \in treqs, BootLands(r) PROVE ThemeInv'
  <2> DEFINE m == IF r.state = "ok" THEN r.mode ELSE cachedMode
             c == IF m = "custom" /\ r.state = "ok" /\ r.id # "none"
                  THEN IF r.id \in r.seen THEN r.id ELSE "none"
                  ELSE current
  <2>1. /\ r.op = "boot" /\ treqs' = treqs \ {r} /\ listed' = IF r.seen # {} THEN r.seen ELSE listed
        /\ mode' = m /\ current' = c /\ Effects(m, c, system, style)
        /\ UNCHANGED <<installing, system, storedTheme, files>>
    BY <1>10 DEF BootLands
  <2>2. r \in ThemeRequest /\ r.then = "none" /\ r.id \in SomeTheme
    BY <1>0, <2>1 DEF RequestsMakeSense
  <2>3. c \in SomeTheme /\ listed' \subseteq Themes
    BY <1>0, <2>1, <2>2 DEF SomeTheme, ThemeRequest
  <2> HIDE DEF m, c
  <2>4. /\ style' \in [ColourKeys -> SomeTheme]
        /\ m = "custom" /\ c # "none" => attr' = ThemeType[c] /\ \A k \in Converted(c) : style'[k] = c
    BY <1>0, <2>1, <2>3, EffectsShow
  <2>5. installing => \E x \in treqs' : x.op = "download" \/ x.then = "installed"
    BY <1>r, <2>1, <2>2
  <2>6. RequestsMakeSense'
    BY <1>0, <2>1 DEF RequestsMakeSense
  <2> QED
    BY <1>0, <2>1, <2>3, <2>4, <2>5, <2>6 DEF ThemeInv, ThemeShowsItself
<1>11. ASSUME NEW r \in treqs, ApplyLands(r) PROVE ThemeInv'
  <2>1. /\ r.op = "apply" /\ UNCHANGED <<listed, system, storedTheme, files>>
        /\ installing' = IF r.then = "installed" THEN FALSE ELSE installing
    BY <1>11 DEF ApplyLands
  <2>2. CASE r.state = "ok" /\ r.then # "none"
    <3>1. current' = r.id /\ SetMode("custom", r.id, style, treqs \ {r}) /\ r.id \in Themes
      BY <1>0, <1>11, <2>1, <2>2 DEF ApplyLands, RequestsMakeSense
    <3>2. mode' = "custom" /\ treqs' = treqs \ {r} /\ Effects("custom", r.id, system, style)
          /\ r.id \in SomeTheme
      BY <3>1 DEF SetMode, SomeTheme
    <3>3. /\ style' \in [ColourKeys -> SomeTheme]
          /\ r.id # "none" => attr' = ThemeType[r.id] /\ \A k \in Converted(r.id) : style'[k] = r.id
      BY <1>0, <3>2, EffectsShow
    <3>4. installing' => \E x \in treqs' : x.op = "download" \/ x.then = "installed"
      BY <1>r, <2>1, <3>2
    <3>5. RequestsMakeSense'
      BY <1>0, <3>2 DEF RequestsMakeSense
    <3> QED
      BY <1>0, <2>1, <3>1, <3>2, <3>3, <3>4, <3>5 DEF ThemeInv, ThemeShowsItself
  <2>3. CASE ~(r.state = "ok" /\ r.then # "none")
    <3>1. treqs' = treqs \ {r} /\ UNCHANGED <<current, mode, style, attr>>
      BY <1>11, <2>3 DEF ApplyLands
    <3>2. installing' => \E x \in treqs' : x.op = "download" \/ x.then = "installed"
      BY <1>r, <2>1, <3>1
    <3>3. RequestsMakeSense'
      BY <1>0, <3>1 DEF RequestsMakeSense
    <3> QED
      BY <1>0, <2>1, <3>1, <3>2, <3>3 DEF ThemeInv, ThemeShowsItself
  <2> QED
    BY <2>2, <2>3
<1>12. ASSUME NEW r \in treqs, DownloadLands(r) PROVE ThemeInv'
  <2>1. /\ r.op = "download" /\ r.id \in Themes
        /\ UNCHANGED <<mode, current, system, style, attr, storedTheme, files>>
    BY <1>0, <1>12 DEF DownloadLands, RequestsMakeSense
  <2>2. CASE r.state = "ok"
    <3>1. listed' = listed \cup {r.id} /\ treqs' = (treqs \ {r}) \cup {TReq("apply", r.id, "installed")}
      BY <1>12, <2>2 DEF DownloadLands
    <3>2. /\ TReq("apply", r.id, "installed") \in ThemeRequest /\ TReq("apply", r.id, "installed").op = "apply"
         /\ TReq("apply", r.id, "installed").id = r.id /\ TReq("apply", r.id, "installed").then = "installed"
      BY <2>1 DEF TReq, ThemeRequest, SomeTheme, BuiltIn
    <3>3. RequestsMakeSense'
      BY <1>0, <2>1, <3>1, <3>2 DEF RequestsMakeSense
    <3>4. installing' => \E x \in treqs' : x.op = "download" \/ x.then = "installed"
      BY <3>1, <3>2
    <3> QED
      BY <1>0, <2>1, <3>1, <3>3, <3>4 DEF ThemeInv, ThemeShowsItself
  <2>3. CASE r.state # "ok"
    <3>1. installing' = FALSE /\ treqs' = treqs \ {r} /\ listed' = listed
      BY <1>12, <2>3 DEF DownloadLands
    <3>2. RequestsMakeSense'
      BY <1>0, <3>1 DEF RequestsMakeSense
    <3> QED
      BY <1>0, <2>1, <3>1, <3>2 DEF ThemeInv, ThemeShowsItself
  <2> QED
    BY <2>2, <2>3
<1>13. ASSUME NEW r \in treqs, DeleteLands(r) PROVE ThemeInv'
  <2>1. r.op = "delete" /\ r.then # "installed" /\ UNCHANGED <<installing, system, storedTheme, files>>
        /\ listed' \subseteq Themes
    BY <1>0, <1>13 DEF DeleteLands, RequestsMakeSense
  <2>2. installing => \E x \in treqs \ {r} : x.op = "download" \/ x.then = "installed"
    BY <1>r, <2>1
  <2>3. CASE r.state = "ok" /\ r.then = "wasCurrent"
    <3>1. current' = "none" /\ SetMode("dark", "none", style, treqs \ {r})
      BY <1>13, <2>3 DEF DeleteLands
    <3>2. /\ mode' = "dark" /\ treqs' = (treqs \ {r}) \cup {TReq("apply", "dark", "none")}
          /\ Effects("dark", "none", system, style) /\ "none" \in SomeTheme /\ "dark" \in BuiltIn
      BY <3>1 DEF SetMode, SomeTheme, BuiltIn
    <3>3. style' \in [ColourKeys -> SomeTheme]
      BY <1>0, <3>2, EffectsShow
    <3>5. /\ TReq("apply", "dark", "none") \in ThemeRequest /\ TReq("apply", "dark", "none").op = "apply"
         /\ TReq("apply", "dark", "none").id = "dark" /\ TReq("apply", "dark", "none").then = "none"
      BY <3>2 DEF TReq, ThemeRequest, SomeTheme, BuiltIn
    <3>4. RequestsMakeSense'
      BY <1>0, <3>2, <3>5 DEF RequestsMakeSense
    <3> QED
      BY <1>0, <2>1, <2>2, <3>1, <3>2, <3>3, <3>4 DEF ThemeInv, ThemeShowsItself
  <2>4. CASE ~(r.state = "ok" /\ r.then = "wasCurrent")
    <3>1. treqs' = treqs \ {r} /\ UNCHANGED <<current, mode, style, attr>>
      BY <1>13, <2>4 DEF DeleteLands
    <3>2. RequestsMakeSense'
      BY <1>0, <3>1 DEF RequestsMakeSense
    <3> QED
      BY <1>0, <2>1, <2>2, <3>1, <3>2 DEF ThemeInv, ThemeShowsItself
  <2> QED
    BY <2>3, <2>4
<1>14. CASE ThemeRelaunch
  <2>1. /\ current' = "none" /\ listed' = {} /\ installing' = FALSE
        /\ Effects(cachedMode, "none", system, Unstyled)
        /\ treqs' = {TReq("boot", "none", "none")} /\ "none" \in SomeTheme
        /\ UNCHANGED <<system, storedTheme, files>>
    BY <1>14 DEF ThemeRelaunch, SomeTheme
  <2>2. style' \in [ColourKeys -> SomeTheme]
    BY <2>1, UnstyledType, EffectsShow
  <2>4. /\ TReq("boot", "none", "none") \in ThemeRequest /\ TReq("boot", "none", "none").op = "boot"
       /\ TReq("boot", "none", "none").id = "none" /\ TReq("boot", "none", "none").then = "none"
    BY <2>1 DEF TReq, ThemeRequest, SomeTheme, BuiltIn
  <2>3. RequestsMakeSense'
    BY <2>1, <2>4 DEF RequestsMakeSense
  <2> QED
    BY <1>0, <2>1, <2>2, <2>3 DEF ThemeInv, ThemeShowsItself
<1>15. CASE UNCHANGED themeVars
  BY <1>15 DEF themeVars, ThemeInv, ThemeShowsItself, RequestsMakeSense
<1> QED
  BY <1>2, <1>3, <1>4, <1>6, <1>7, <1>8, <1>9, <1>10, <1>11, <1>12, <1>13, <1>14, <1>15 DEF ThemeNext

\* (ThemeShowsItself) The custom theme in use is the one on screen, and an
\* installation that has begun ends.
THEOREM ThemeAlwaysShows == ThemeSpec => []ThemeShowsItself
<1>1. ThemeInit => ThemeInv
  BY ThemeInvInit
<1>2. ThemeInv /\ [ThemeNext]_themeVars => ThemeInv'
  BY ThemeInvStep
<1>3. ThemeInv => ThemeShowsItself
  BY DEF ThemeInv
<1> QED
  BY <1>1, <1>2, <1>3, PTL DEF ThemeSpec

-----------------------------------------------------------------------------

(***************************************************************************)
(* The tour.  The path back leads by the welcome and the step that opened  *)
(* the dashboard to steps behind it; a wait of this tour belongs to the    *)
(* step that opens the dashboard; a launch shows the tour once.            *)
(***************************************************************************)
LaterSteps == 2 .. 9

TourTypeOK ==
  /\ step \in 0 .. 9 \cup {None} /\ run \in Nat
  /\ visited \in Seq(0 .. 9)
  /\ waiting \in [run : Nat, from : 0 .. 9 \cup {None}]

WayBack ==
  /\ step = 0 => Len(visited) = 0
  /\ step = 1 => Len(visited) = 1 /\ visited[1] = 0
  /\ step \in LaterSteps =>
        /\ Len(visited) >= 2 /\ visited[1] = 0 /\ visited[2] = 1
        /\ \A i \in DOMAIN visited : i > 2 => visited[i] \in LaterSteps

WaitIsOfThisTour ==
  /\ opening => waiting # NoWait /\ waiting.run = run
  /\ waiting # NoWait => waiting.run \in 1 .. run
  /\ waiting # NoWait /\ waiting.run = run => opening /\ waiting.from = 1 /\ step = 1

ShownOnce ==
  /\ dismissed => step = None /\ (seen \/ shownThisSession)
  /\ ~shownThisSession => step = None /\ visited = <<>>

TourInv == TourTypeOK /\ WayBack /\ WaitIsOfThisTour /\ ShownOnce

\* No tour is shown at first.
LEMMA TourInvInit == TourInit => TourInv
BY DEF TourInit, TourInv, TourTypeOK, WayBack, WaitIsOfThisTour, ShownOnce, None, NoWait, LaterSteps

\* The table of the steps.
LEMMA StepsFacts ==
  /\ DOMAIN STEPS = 0 .. 9
  /\ \A s : Applies(1, s)
  /\ \A k \in 0 .. 9 : STEPS[k].state => k \in LaterSteps
<1>1. DOMAIN STEPS = 0 .. 9
  BY DEF STEPS
<1>2. STEPS[1] = Stage({}, {}, FALSE) /\ STEPS[0] = Stage({}, {}, FALSE)
  BY DEF STEPS
<1>3. \A k \in 0 .. 9 : k \in LaterSteps \/ k = 0 \/ k = 1
  BY DEF LaterSteps
<1> QED
  BY <1>1, <1>2, <1>3 DEF Applies, Stage

\* The step that follows: one behind, or none; the welcome is followed by
\* the step that opens the dashboard.
LEMMA WhatFollows ==
  ASSUME NEW i \in 0 .. 9, NEW s
  PROVE  /\ NextApplicable(i, s) # None => NextApplicable(i, s) \in 0 .. 9 /\ NextApplicable(i, s) > i
         /\ i = 0 => NextApplicable(i, s) = 1
<1> DEFINE ks == {k \in DOMAIN STEPS : k > i /\ Applies(k, s)}
           first == CHOOSE k \in ks : \A j \in ks : k <= j
<1>1. CASE ks = {}
  <2>1. NextApplicable(i, s) = None /\ i # 0
    BY <1>1, StepsFacts DEF NextApplicable
  <2> QED
    BY <2>1
<1>2. CASE ks # {}
  <2>1. ks \subseteq Nat
    BY StepsFacts
  <2>a. ks \subseteq 0 .. 9
    BY StepsFacts
  <2>b. ASSUME NEW T, T \subseteq 0 .. 9, T # {} PROVE \E k \in T : \A j \in T : k <= j
    <3> DEFINE R == OpToRel(<, Nat)
    <3>1. \A j, k \in Nat : j < k => <<j, k>> \in R
      BY DEF OpToRel
    <3>2. T \subseteq Nat
      BY <2>b
    <3>0. IsWellFoundedOn(R, Nat)
      BY NatLessThanWellFounded
    <3> HIDE DEF R
    <3>3. PICK k \in T : \A j \in T : ~(<<j, k>> \in R)
      BY <2>b, <3>0, <3>2, WFMin
    <3>4. \A j \in T : k <= j
      <4> SUFFICES ASSUME NEW j \in T PROVE k <= j
        OBVIOUS
      <4>1. ~(<<j, k>> \in R) /\ j \in Nat /\ k \in Nat
        BY <3>2, <3>3
      <4>2. ~(j < k)
        BY <3>1, <4>1
      <4> QED
        BY <4>1, <4>2
    <3> QED
      BY <3>4
  <2>3. \E k \in ks : \A j \in ks : k <= j
    BY <1>2, <2>a, <2>b
  <2>4. first \in ks /\ \A j \in ks : first <= j
    BY <2>3
  <2>5. NextApplicable(i, s) = first
    BY <1>2 DEF NextApplicable
  <2>6. i = 0 => 1 \in ks
    BY StepsFacts
  <2> HIDE DEF first
  <2>7. first \in 0 .. 9 /\ first > i
    BY <2>4, StepsFacts
  <2>8. i = 0 => first <= 1
    BY <2>4, <2>6
  <2> QED
    BY <2>5, <2>7, <2>8
<1> QED
  BY <1>1, <1>2

\* Every move of the user, of the dashboard and of the wait keeps it.
LEMMA TourInvStep == TourInv /\ [TourNextStep]_tourVars => TourInv'
<1> SUFFICES ASSUME TourInv, [TourNextStep]_tourVars PROVE TourInv'
  OBVIOUS
<1>0. /\ step \in 0 .. 9 \cup {None} /\ run \in Nat
      /\ visited \in Seq(0 .. 9)
      /\ waiting \in [run : Nat, from : 0 .. 9 \cup {None}]
      /\ None = 99 /\ OPEN_STEP = 1 /\ LaterSteps = 2 .. 9
      /\ step = None \/ step = 0 \/ step = 1 \/ step \in LaterSteps
  BY DEF TourInv, TourTypeOK, None, OPEN_STEP, LaterSteps
\* Nothing of the tour itself moves.
<1>s. ASSUME UNCHANGED <<step, opening, visited, run, waiting, seen, shownThisSession, dismissed>>
      PROVE TourInv'
  BY <1>s DEF TourInv, TourTypeOK, WayBack, WaitIsOfThisTour, ShownOnce
\* The tour is closed, whatever wait goes on.
<1>c. ASSUME Closed, UNCHANGED <<visited, shownThisSession>>, step # None,
             waiting' = waiting \/ waiting' = NoWait
      PROVE TourInv'
  <2>1. /\ run' = run + 1 /\ step' = None /\ ~opening'
        /\ dismissed' /\ shownThisSession
    BY <1>c DEF Closed, TourInv, ShownOnce
  <2>2. waiting' \in [run : Nat, from : 0 .. 9 \cup {None}]
    BY <1>0, <1>c DEF NoWait
  <2>3. run' \in Nat /\ (waiting' # NoWait => waiting'.run \in 1 .. run' /\ waiting'.run # run')
    BY <1>0, <1>c, <2>1 DEF TourInv, WaitIsOfThisTour
  <2> QED
    BY <1>0, <1>c, <2>1, <2>2, <2>3 DEF TourInv, TourTypeOK, WayBack, WaitIsOfThisTour, ShownOnce
\* One step further; no wait of this tour is left.
<1>f. ASSUME step \in 0 .. 9, NEW k \in 0 .. 9, k > step, step = 0 => k = 1,
             step' = k, visited' = Append(visited, step), ~opening', waiting' = NoWait,
             UNCHANGED <<run, seen, dismissed, shownThisSession>>
      PROVE TourInv'
  <2>1. /\ visited' \in Seq(0 .. 9) /\ Len(visited') = Len(visited) + 1 /\ Len(visited) \in Nat
        /\ DOMAIN visited = 1 .. Len(visited) /\ DOMAIN visited' = 1 .. Len(visited) + 1
        /\ \A i \in 1 .. Len(visited) : visited'[i] = visited[i]
        /\ visited'[Len(visited) + 1] = step
    BY <1>0, <1>f
  <2>2. NoWait \in [run : Nat, from : 0 .. 9 \cup {None}]
    BY DEF NoWait
  <2>3. step # None /\ ~dismissed /\ shownThisSession
    BY <1>0, <1>f DEF TourInv, ShownOnce
  <2>4. WayBack'
    <3>1. CASE step = 0
      <4>1. Len(visited') = 1 /\ visited'[1] = 0 /\ step' = 1
        BY <1>f, <2>1, <3>1 DEF TourInv, WayBack
      <4> QED
        BY <1>0, <4>1 DEF WayBack
    <3>2. CASE step = 1
      <4>1. step' > 1 /\ Len(visited) = 1 /\ visited[1] = 0
        BY <1>f, <3>2 DEF TourInv, WayBack
      <4>2. Len(visited') = 2 /\ visited'[1] = 0 /\ visited'[2] = 1 /\ DOMAIN visited' = 1 .. 2
        BY <2>1, <3>2, <4>1
      <4> QED
        BY <1>0, <1>f, <4>1, <4>2 DEF WayBack
    <3>3. CASE step \in LaterSteps
      <4>1. /\ Len(visited) >= 2 /\ visited[1] = 0 /\ visited[2] = 1
            /\ \A i \in DOMAIN visited : i > 2 => visited[i] \in LaterSteps
        BY <3>3 DEF TourInv, WayBack
      <4>2. visited'[1] = 0 /\ visited'[2] = 1 /\ Len(visited') >= 2
        BY <2>1, <4>1
      <4>3. \A i \in DOMAIN visited' : i > 2 => visited'[i] \in LaterSteps
        BY <2>1, <3>3, <4>1
      <4>4. step' # 0 /\ step' # 1
        BY <1>0, <1>f, <3>3
      <4> QED
        BY <4>2, <4>3, <4>4 DEF WayBack
    <3> QED
      BY <1>0, <1>f, <3>1, <3>2, <3>3
  <2>5. step' # None
    BY <1>0, <1>f
  <2> QED
    BY <1>0, <1>f, <2>1, <2>2, <2>3, <2>4, <2>5 DEF TourInv, TourTypeOK, WaitIsOfThisTour, ShownOnce
<1>1. CASE ScreenChanges
  BY <1>1, <1>s DEF ScreenChanges
<1>2. CASE TourStarts
  BY <1>0, <1>2 DEF TourStarts, TourInv, TourTypeOK, WayBack, WaitIsOfThisTour, ShownOnce
<1>3. CASE TourClose
  BY <1>3, <1>c DEF TourClose, Usable
<1>4. ASSUME NEW clicked \in BOOLEAN, TourNext(clicked) PROVE TourInv'
  <2>1. step # None /\ ~opening /\ waiting = NoWait /\ shownThisSession' = shownThisSession
        /\ step \in 0 .. 9
    BY <1>0, <1>4 DEF TourNext, Usable
  <2>2. CASE step = OPEN_STEP
    <3>1. run' = run + 1 /\ waiting' = [run |-> run + 1, from |-> step] /\ opening' = TRUE
          /\ UNCHANGED <<step, visited, seen, dismissed>>
      BY <1>4, <2>2 DEF TourNext
    <3>2. /\ waiting' \in [run : Nat, from : 0 .. 9 \cup {None}] /\ waiting'.run = run' /\ waiting'.from = 1
          /\ waiting' # NoWait /\ run' \in 1 .. run' /\ run' \in Nat
      <4>1. waiting'.run = run' /\ waiting'.from = 1 /\ run' \in Nat /\ run' \in 1 .. run'
            /\ waiting' \in [run : Nat, from : 0 .. 9 \cup {None}]
        BY <1>0, <2>1, <2>2, <3>1
      <4>2. NoWait.from = 99
        BY <1>0 DEF NoWait
      <4> QED
        BY <4>1, <4>2
    <3> QED
      BY <1>0, <2>1, <2>2, <3>1, <3>2 DEF TourInv, TourTypeOK, WayBack, WaitIsOfThisTour, ShownOnce
  <2>3. CASE step # OPEN_STEP
    <3>1. GoOn(step, screen) /\ waiting' = waiting
      BY <1>4, <2>3 DEF TourNext
    <3> DEFINE k == NextApplicable(step, screen)
    <3>2. (k # None => k \in 0 .. 9 /\ k > step) /\ (step = 0 => k = 1)
      BY <2>1, WhatFollows
    <3>3. /\ k = None => Closed /\ visited' = visited
          /\ k # None => step' = k /\ visited' = Append(visited, step)
                         /\ UNCHANGED <<run, seen, opening, dismissed>>
      BY <3>1 DEF GoOn
    <3> HIDE DEF k
    <3>4. CASE k = None
      BY <1>c, <2>1, <3>1, <3>3, <3>4
    <3>5. CASE k # None
      <4>1. /\ step \in 0 .. 9 /\ k \in 0 .. 9 /\ k > step /\ (step = 0 => k = 1)
            /\ step' = k /\ visited' = Append(visited, step) /\ ~opening' /\ waiting' = NoWait
            /\ UNCHANGED <<run, seen, dismissed, shownThisSession>>
        BY <2>1, <3>1, <3>2, <3>3, <3>5
      <4> QED
        BY <1>f, <4>1
    <3> QED
      BY <3>4, <3>5
  <2> QED
    BY <2>2, <2>3
<1>5. CASE WaitEnds
  <2>1. waiting # NoWait /\ waiting' = NoWait /\ shownThisSession' = shownThisSession
        /\ NoWait \in [run : Nat, from : 0 .. 9 \cup {None}]
    BY <1>5 DEF WaitEnds, NoWait
  <2>2. CASE waiting.run # run
    <3>1. UNCHANGED <<step, visited, run, seen, opening, dismissed>> /\ ~opening
      BY <1>5, <2>2 DEF WaitEnds, TourInv, WaitIsOfThisTour
    <3> QED
      BY <1>0, <2>1, <3>1 DEF TourInv, TourTypeOK, WayBack, WaitIsOfThisTour, ShownOnce
  <2>3. CASE waiting.run = run
    <3>1. opening /\ waiting.from = 1 /\ step = 1
      BY <2>1, <2>3 DEF TourInv, WaitIsOfThisTour
    <3> DEFINE k == NextApplicable(waiting.from, screen)
    <3>2. k # None => k \in 0 .. 9 /\ k > 1
      BY <3>1, WhatFollows
    <3>3. /\ k = None => Closed /\ visited' = visited
          /\ k # None => step' = k /\ visited' = Append(visited, waiting.from) /\ opening' = FALSE
                         /\ UNCHANGED <<run, seen, dismissed>>
      BY <1>5, <2>3 DEF WaitEnds
    <3> HIDE DEF k
    <3>4. CASE k = None
      BY <1>0, <1>c, <2>1, <3>1, <3>3, <3>4
    <3>5. CASE k # None
      <4>1. /\ step \in 0 .. 9 /\ k \in 0 .. 9 /\ k > step /\ (step = 0 => k = 1)
            /\ step' = k /\ visited' = Append(visited, step) /\ ~opening' /\ waiting' = NoWait
            /\ UNCHANGED <<run, seen, dismissed, shownThisSession>>
        BY <2>1, <3>1, <3>2, <3>3, <3>5
      <4> QED
        BY <1>f, <4>1
    <3> QED
      BY <3>4, <3>5
  <2> QED
    BY <2>2, <2>3
<1>6. CASE TourBack
  <2>1. /\ step # None /\ ~opening /\ Len(visited) > 1 /\ step' = visited[Len(visited)]
        /\ visited' = SubSeq(visited, 1, Len(visited) - 1)
        /\ UNCHANGED <<opening, run, waiting, seen, shownThisSession, dismissed>>
    BY <1>6 DEF TourBack, Usable, Last, Front
  <2>2. /\ visited' \in Seq(0 .. 9) /\ Len(visited') = Len(visited) - 1 /\ Len(visited) \in Nat
        /\ DOMAIN visited = 1 .. Len(visited) /\ DOMAIN visited' = 1 .. Len(visited) - 1
        /\ \A i \in 1 .. Len(visited) - 1 : visited'[i] = visited[i]
    BY <1>0, <2>1
  <2>3. step \in LaterSteps
    <3>1. step # 0 /\ step # 1
      BY <2>1 DEF TourInv, WayBack
    <3> QED
      BY <1>0, <2>1, <3>1
  <2>4. /\ visited[1] = 0 /\ visited[2] = 1
        /\ \A i \in DOMAIN visited : i > 2 => visited[i] \in LaterSteps
    BY <2>3 DEF TourInv, WayBack
  <2>5. WayBack' /\ step' \in 0 .. 9
    <3>1. CASE Len(visited) = 2
      <4>1. step' = 1 /\ Len(visited') = 1 /\ visited'[1] = 0
        BY <2>1, <2>2, <2>4, <3>1
      <4> QED
        BY <1>0, <4>1 DEF WayBack
    <3>2. CASE Len(visited) # 2
      <4>1. Len(visited) \in DOMAIN visited /\ Len(visited) > 2
        BY <2>1, <2>2, <3>2
      <4>2. step' \in LaterSteps
        BY <2>1, <2>4, <4>1
      <4>3. Len(visited') >= 2 /\ visited'[1] = 0 /\ visited'[2] = 1
        BY <2>2, <2>4, <4>1
      <4>4. \A i \in DOMAIN visited' : i > 2 => visited'[i] \in LaterSteps
        BY <2>2, <2>4
      <4> QED
        BY <1>0, <4>2, <4>3, <4>4 DEF WayBack
    <3> QED
      BY <3>1, <3>2
  <2>6. ~dismissed /\ shownThisSession
    BY <2>1 DEF TourInv, ShownOnce
  <2>7. waiting # NoWait => waiting.run # run
    BY <2>1 DEF TourInv, WaitIsOfThisTour
  <2> QED
    BY <1>0, <2>1, <2>2, <2>5, <2>6, <2>7 DEF TourInv, TourTypeOK, WaitIsOfThisTour, ShownOnce
<1>7. CASE TourCheck
  <2> DEFINE k == NextApplicable(OPEN_STEP, screen)
  <2>1. /\ step # None
        /\ step' = IF STEPS[step].state /\ ~Applies(step, screen) /\ k # None THEN k ELSE step
        /\ UNCHANGED <<opening, visited, run, waiting, seen, shownThisSession, dismissed>>
    BY <1>7 DEF TourCheck
  <2>2. k # None => k \in LaterSteps
    BY <1>0, WhatFollows
  <2> HIDE DEF k
  <2>3. CASE step' = step
    BY <1>s, <2>1, <2>3
  <2>4. CASE step' # step
    <3>1. STEPS[step].state /\ step' = k /\ k # None
      BY <2>1, <2>4
    <3>2. step \in LaterSteps /\ step' \in LaterSteps
      BY <1>0, <2>1, <2>2, <3>1, StepsFacts
    <3> QED
      BY <1>0, <2>1, <3>2 DEF TourInv, TourTypeOK, WayBack, WaitIsOfThisTour, ShownOnce
  <2> QED
    BY <2>3, <2>4
<1>8. CASE TargetClicked
  BY <1>8, <1>c DEF TargetClicked, Usable
<1>9. CASE TourRelaunch
  <2>1. /\ step' = None /\ opening' = FALSE /\ visited' = <<>> /\ run' = 0 /\ waiting' = NoWait
        /\ shownThisSession' = FALSE /\ dismissed' = seen /\ seen' = seen
    BY <1>9 DEF TourRelaunch
  <2> QED
    BY <1>0, <2>1 DEF TourInv, TourTypeOK, WayBack, WaitIsOfThisTour, ShownOnce, NoWait
<1>10. CASE UNCHANGED tourVars
  BY <1>10, <1>s DEF tourVars
<1> QED
  BY <1>1, <1>2, <1>3, <1>4, <1>5, <1>6, <1>7, <1>8, <1>9, <1>10 DEF TourNextStep

\* What it says of the tour.
LEMMA TourInvIsHonest == TourInv => TourIsHonest
<1> SUFFICES ASSUME TourInv PROVE TourIsHonest
  OBVIOUS
<1>1. step \in DOMAIN STEPS => step \in 0 .. 9
  BY StepsFacts
<1>2. ASSUME step \in 0 .. 9 PROVE IsPrefix(IF step > OPEN_STEP THEN <<0, OPEN_STEP>> ELSE <<>>, visited)
  <2>1. visited \in Seq(0 .. 9) /\ Len(visited) \in Nat
    BY DEF TourInv, TourTypeOK
  <2>2. CASE step > OPEN_STEP
    <3>1. Len(visited) >= 2 /\ visited[1] = 0 /\ visited[2] = 1
      BY <1>2, <2>2 DEF TourInv, WayBack, LaterSteps, OPEN_STEP
    <3> DEFINE a == SubSeq(<<0, 1>>, 1, 2)
               b == SubSeq(visited, 1, 2)
    <3>2. a \in Seq(0 .. 9) /\ Len(a) = 2 /\ a[1] = 0 /\ a[2] = 1
      <4>1. <<0, 1>> \in Seq(0 .. 9) /\ Len(<<0, 1>>) = 2 /\ <<0, 1>>[1] = 0 /\ <<0, 1>>[2] = 1
        OBVIOUS
      <4> QED
        BY <4>1
    <3>3. b \in Seq(0 .. 9) /\ Len(b) = 2 /\ b[1] = 0 /\ b[2] = 1
      BY <2>1, <3>1
    <3>5. a = b
      <4> HIDE DEF a, b
      <4>1. \A i \in 1 .. Len(a) : a[i] = b[i]
        <5> SUFFICES ASSUME NEW i \in 1 .. 2 PROVE a[i] = b[i]
          BY <3>2
        <5>1. i = 1 \/ i = 2
          OBVIOUS
        <5> QED
          BY <3>2, <3>3, <5>1
      <4> QED
        BY <3>2, <3>3, <4>1, SeqEqual
    <3>4. IsPrefix(<<0, 1>>, visited)
      <4>1. Len(<<0, 1>>) = 2
        OBVIOUS
      <4> QED
        BY <3>1, <3>5, <4>1 DEF IsPrefix
    <3> QED
      BY <2>2, <3>4 DEF OPEN_STEP
  <2>3. CASE ~(step > OPEN_STEP)
    <3>1. SubSeq(<<>>, 1, 0) = SubSeq(visited, 1, 0) /\ Len(<<>>) = 0
      BY <2>1
    <3> QED
      BY <2>1, <2>3, <3>1 DEF IsPrefix
  <2> QED
    BY <2>2, <2>3
<1> QED
  BY <1>1, <1>2 DEF TourIsHonest, TourInv, WaitIsOfThisTour, ShownOnce

\* (TourIsHonest) A tour that is over stays over, the wait for the dashboard
\* is the tour's own, and Back leads home.
THEOREM TourStaysHonest == TourSpec => []TourIsHonest
<1>1. TourInit => TourInv
  BY TourInvInit
<1>2. TourInv /\ [TourNextStep]_tourVars => TourInv'
  BY TourInvStep
<1>3. TourInv => TourIsHonest
  BY TourInvIsHonest
<1> QED
  BY <1>1, <1>2, <1>3, PTL DEF TourSpec

\* (PreferencesHold) All three.
THEOREM PreferencesAlwaysHold == TourSpec /\ ThemeSpec /\ CleanSpec => []PreferencesHold
BY TourStaysHonest, ThemeAlwaysShows, CleanupStaysSafe, PTL DEF PreferencesHold

-----------------------------------------------------------------------------
(***************************************************************************)
(* The saved workspace: what is stored of an open cluster is its state, or *)
(* the state its dock is still to be rebuilt from, or a save is scheduled. *)
(***************************************************************************)
MaybeTab == SavedClusters \cup {NoSnapshot}
Snapshots ==
  {s \in [rev : 0 .. MaxEdits, dock : SUBSET DockIds, act : DockIds \cup {NoSnapshot}] :
      s.act # NoSnapshot => s.act \in s.dock}

PersistTypeOK ==
  /\ app \in [up : BOOLEAN, hydrated : BOOLEAN, current : MaybeTab, launches : Nat]
  /\ wtabs \in Seq(SavedClusters) /\ EachOnce(wtabs)
  /\ rev \in [SavedClusters -> 0 .. MaxEdits]
  /\ dock \in [SavedClusters -> SUBSET DockIds]
  /\ actDock = NoDock \/ \E c \in SavedClusters : \E i \in dock[c] : actDock = <<c, i>>
  /\ content \in [SavedClusters -> Snapshots \cup {NoSnapshot}]
  /\ dockLoads \subseteq SavedClusters \X Snapshots
  /\ dropped \in [SavedClusters -> SUBSET DockIds]
  /\ disk \in [open : Seq(SavedClusters), current : MaybeTab,
               snap : [SavedClusters -> Snapshots \cup {NoSnapshot}], keys : SUBSET SavedClusters]
  /\ EachOnce(disk.open)
  /\ edits \in 0 .. MaxEdits

\* Before the launch has read the workspace back there is nothing.
NothingYet ==
  ~app.hydrated =>
     /\ wtabs = <<>> /\ saves = {} /\ dockLoads = {} /\ content = NothingSaved /\ actDock = NoDock
     /\ \A c \in SavedClusters : dock[c] = {} /\ dropped[c] = {}

\* The snapshots the dock of a cluster is still to be rebuilt from.
ToRebuild(c) == ({content[c]} \ {NoSnapshot}) \cup {l[2] : l \in {m \in dockLoads : m[1] = c}}

\* A launch rebuilds the dock of a cluster once, from one snapshot, and
\* none of its tabs is there before.
RebuiltOnce ==
  \A c \in SavedClusters :
     /\ ToRebuild(c) # {} => dropped[c] = {}
     /\ content[c] # NoSnapshot => \A l \in dockLoads : l[1] # c
     /\ \A l, m \in dockLoads : l[1] = c /\ m[1] = c => l = m
     /\ \A w \in ToRebuild(c) : w.dock \cap dock[c] = {}
     /\ dropped[c] \cap dock[c] = {}

\* What is stored of a cluster is its dock without what was not found, or
\* the one it is still to be rebuilt from.
DockStored(c) ==
  /\ StoredOf(c).dock \ dropped[c] = dock[c]
  /\ StoredOf(c).act \in {BuildTabSnapshot(c).act} \cup dropped[c]
Unrebuilt(c) ==
  /\ dock[c] = {}
  /\ \E w \in ToRebuild(c) : StoredOf(c).dock = w.dock /\ StoredOf(c).act = w.act
StoredOrWaits ==
  app.hydrated => \A c \in OpenClusters \ saves :
      StoredOf(c).rev = rev[c] /\ (DockStored(c) \/ Unrebuilt(c))

PersistInv == PersistTypeOK /\ NothingYet /\ RebuiltOnce /\ StoredOrWaits

\* There is nothing before the first launch.
LEMMA PersistInvInit == PersistInit => PersistInv
<1> SUFFICES ASSUME PersistInit PROVE PersistInv
  OBVIOUS
<1>1. PersistTypeOK
  BY PersistAssumption DEF PersistInit, PersistTypeOK, NothingSaved, MaybeTab, EachOnce
<1>2. NothingYet /\ RebuiltOnce /\ StoredOrWaits
  BY DEF PersistInit, NothingYet, RebuiltOnce, ToRebuild, StoredOrWaits, NothingSaved
<1> QED
  BY <1>1, <1>2 DEF PersistInv

\* A snapshot written of a cluster is a snapshot of it, and what is read
\* back is that one.
LEMMA BuildType ==
  ASSUME PersistTypeOK, NEW c \in SavedClusters
  PROVE  /\ BuildTabSnapshot(c) \in Snapshots /\ BuildTabSnapshot(c) # NoSnapshot
         /\ BuildTabSnapshot(c).rev = rev[c] /\ BuildTabSnapshot(c).dock = dock[c]
         /\ BuildTabSnapshot(c).act = IF actDock[1] = c THEN actDock[2] ELSE NoSnapshot
         /\ StoredOf(c) \in Snapshots
<1>1. actDock[1] = c => actDock[2] \in dock[c]
  BY PersistAssumption DEF PersistTypeOK, NoDock
<1>2. dock[c] \in SUBSET DockIds /\ rev[c] \in 0 .. MaxEdits
  BY DEF PersistTypeOK
<1>3. BuildTabSnapshot(c) \in Snapshots
  BY <1>1, <1>2 DEF BuildTabSnapshot, Snapshot, Snapshots
<1>4. BuildTabSnapshot(c) # NoSnapshot
  BY <1>1, <1>2, PersistAssumption DEF BuildTabSnapshot, Snapshot
<1>5. StoredOf(c) \in Snapshots
  BY PersistAssumption DEF PersistTypeOK, StoredOf, NewWorkspace, Snapshot, Snapshots
<1> QED
  BY <1>3, <1>4, <1>5 DEF BuildTabSnapshot, Snapshot

\* A change schedules a save of every cluster whose dock it is about.
LEMMA ChangedTouches ==
  ASSUME app.hydrated, NEW cs, NEW dock2, NEW act2, Changed(cs, dock2, act2),
         NEW c \in SavedClusters, c \notin saves'
  PROVE  c \notin saves /\ c \notin cs
         /\ (dock2 # dock \/ act2 # actDock => dock2[c] = {} /\ dock[c] = {})
BY DEF Changed, TouchedByDock

\* What is true of a cluster stays so when a step does not touch it.
LEMMA Undisturbed ==
  ASSUME NEW c \in SavedClusters,
         StoredOf(c).rev = rev[c] /\ (DockStored(c) \/ Unrebuilt(c)),
         disk'.snap[c] = disk.snap[c], rev'[c] = rev[c], dock'[c] = dock[c], dropped'[c] = dropped[c],
         actDock'[1] = c \/ actDock[1] = c => actDock' = actDock,
         ToRebuild(c) \subseteq ToRebuild(c)'
  PROVE  StoredOf(c)'.rev = rev'[c] /\ (DockStored(c)' \/ Unrebuilt(c)')
<1>1. StoredOf(c)' = StoredOf(c)
  BY DEF StoredOf, NewWorkspace
<1>2. BuildTabSnapshot(c)'.act = BuildTabSnapshot(c).act
  BY DEF BuildTabSnapshot, Snapshot
<1>3. DockStored(c) => DockStored(c)'
  BY <1>1, <1>2 DEF DockStored
<1>4. Unrebuilt(c) => Unrebuilt(c)'
  BY <1>1 DEF Unrebuilt
<1> QED
  BY <1>1, <1>3, <1>4

\* The launch reads the workspace back, or there is none.
LEMMA HydrateKeeps == PersistInv /\ (HydrateFromStorage \/ HydrateNothing) => PersistInv'
<1> SUFFICES ASSUME PersistInv, HydrateFromStorage \/ HydrateNothing PROVE PersistInv'
  OBVIOUS
<1> USE DEF PersistInv
<1>0. ~app.hydrated /\ NothingYet /\ RebuiltOnce /\ app'.hydrated /\ PersistTypeOK
  BY DEF HydrateFromStorage, HydrateNothing, PersistTypeOK
<1>1. CASE HydrateNothing
  <2>1. UNCHANGED <<wtabs, rev, dock, actDock, saves, content, dockLoads, trees, dropped, disk, edits>>
        /\ app' = [app EXCEPT !.hydrated = TRUE]
    BY <1>1 DEF HydrateNothing
  <2>2. PersistTypeOK'
    BY <1>0, <2>1 DEF PersistTypeOK
  <2>3. RebuiltOnce'
    BY <1>0, <2>1 DEF RebuiltOnce, ToRebuild
  <2>4. OpenClusters' = {}
    BY <1>0, <2>1 DEF NothingYet, OpenClusters, ToSet
  <2> QED
    BY <1>0, <2>2, <2>3, <2>4 DEF NothingYet, StoredOrWaits
<1>2. CASE HydrateFromStorage
  <2> DEFINE open == ToSet(disk.open)
  <2>0. open \subseteq SavedClusters /\ disk.open[1] \in SavedClusters
    BY <1>2 DEF HydrateFromStorage, PersistTypeOK, ToSet
  <2>1. /\ wtabs' = disk.open /\ disk' = Pruned(open) /\ UNCHANGED <<dock, actDock, saves, dockLoads, dropped, edits>>
        /\ rev' = [c \in SavedClusters |-> IF c \in open THEN StoredOf(c).rev ELSE 0]
        /\ content' = [c \in SavedClusters |-> IF c \in open THEN disk.snap[c] ELSE NoSnapshot]
        /\ app' = [app EXCEPT !.hydrated = TRUE,
                     !.current = IF disk.current = NoSnapshot THEN disk.open[1] ELSE disk.current]
    BY <1>2 DEF HydrateFromStorage
  <2>2. \A c \in SavedClusters : StoredOf(c) \in Snapshots /\ StoredOf(c).rev \in 0 .. MaxEdits
    BY <1>0, BuildType DEF Snapshots
  <2> HIDE DEF open
  <2>3. disk' \in [open : Seq(SavedClusters), current : MaybeTab,
                   snap : [SavedClusters -> Snapshots \cup {NoSnapshot}], keys : SUBSET SavedClusters]
        /\ disk'.open = disk.open /\ \A c \in open : disk'.snap[c] = disk.snap[c]
    BY <1>0, <2>0, <2>1 DEF PersistTypeOK, Pruned
  <2>4. PersistTypeOK'
    <3>1. app' \in [up : BOOLEAN, hydrated : BOOLEAN, current : MaybeTab, launches : Nat]
      BY <1>0, <2>0, <2>1 DEF PersistTypeOK, MaybeTab
    <3>2. rev' \in [SavedClusters -> 0 .. MaxEdits] /\ content' \in [SavedClusters -> Snapshots \cup {NoSnapshot}]
      BY <1>0, <2>1, <2>2, PersistAssumption DEF PersistTypeOK
    <3> QED
      BY <1>0, <2>1, <2>3, <3>1, <3>2 DEF PersistTypeOK
  <2>5. \A c \in SavedClusters : /\ dock'[c] = {} /\ dropped'[c] = {} /\ dockLoads' = {}
                                 /\ ToRebuild(c)' = {content'[c]} \ {NoSnapshot}
    BY <1>0, <2>1 DEF NothingYet, ToRebuild
  <2>6. RebuiltOnce'
    BY <2>5 DEF RebuiltOnce
  <2>7. ASSUME NEW c \in open
        PROVE StoredOf(c)'.rev = rev'[c] /\ (DockStored(c)' \/ Unrebuilt(c)')
    <3>1. StoredOf(c)' = StoredOf(c) /\ rev'[c] = StoredOf(c).rev /\ content'[c] = disk.snap[c] /\ c \in SavedClusters
      BY <2>0, <2>1, <2>3 DEF StoredOf, NewWorkspace
    <3>2. CASE disk.snap[c] = NoSnapshot
      <4>1. StoredOf(c)'.dock = {} /\ StoredOf(c)'.act = NoSnapshot
        BY <3>1, <3>2 DEF StoredOf, NewWorkspace, Snapshot
      <4>2. actDock'[1] # c
        BY <1>0, <2>1, <3>1, PersistAssumption DEF NothingYet, NoDock
      <4> QED
        BY <2>5, <3>1, <4>1, <4>2 DEF DockStored, BuildTabSnapshot, Snapshot
    <3>3. CASE disk.snap[c] # NoSnapshot
      <4>1. content'[c] \in ToRebuild(c)' /\ StoredOf(c) = content'[c]
        BY <2>5, <3>1, <3>3 DEF StoredOf
      <4> QED
        BY <2>5, <3>1, <4>1 DEF Unrebuilt
    <3> QED
      BY <3>2, <3>3
  <2>8. StoredOrWaits'
    BY <2>1, <2>7 DEF StoredOrWaits, OpenClusters, open
  <2>9. NothingYet'
    BY <1>0 DEF NothingYet
  <2> QED
    BY <2>4, <2>6, <2>8, <2>9
<1> QED
  BY <1>1, <1>2

\* The workspace of a launch that ends is gone, whether it was saved or not.
LEMMA EndKeeps == PersistInv /\ (Launch \/ Quit \/ Crash) => PersistInv'
<1> SUFFICES ASSUME PersistInv, Launch \/ Quit \/ Crash PROVE PersistInv'
  OBVIOUS
<1>1. PersistTypeOK
  BY DEF PersistInv
<1>2. EmptyStore /\ edits' = edits /\ ~app'.hydrated
  <2>1. EmptyStore /\ edits' = edits
    BY DEF Launch, Quit, Crash
  <2>2. ~app'.hydrated
    <3>1. CASE Launch
      BY <3>1 DEF Launch
    <3>2. CASE Quit \/ Crash
      BY <1>1, <3>2 DEF Quit, Crash, PersistTypeOK
    <3> QED
      BY <3>1, <3>2
  <2> QED
    BY <2>1, <2>2
<1>3. disk' \in [open : Seq(SavedClusters), current : MaybeTab,
                 snap : [SavedClusters -> Snapshots \cup {NoSnapshot}], keys : SUBSET SavedClusters]
      /\ disk'.open = disk.open
  <2>1. CASE Quit
    <3>1. \A c \in SavedClusters : BuildTabSnapshot(c) \in Snapshots
      BY <1>1, BuildType
    <3>2. \A c \in SavedClusters : SaveCluster(disk.snap, c)[c] \in Snapshots \cup {NoSnapshot}
      BY <1>1, <3>1 DEF SaveCluster, PersistTypeOK
    <3> QED
      BY <1>1, <2>1, <3>2 DEF Quit, PersistTypeOK
  <2>2. CASE ~Quit
    BY <1>1, <2>2 DEF Launch, Crash, PersistTypeOK
  <2> QED
    BY <2>1, <2>2
<1>4. app' \in [up : BOOLEAN, hydrated : BOOLEAN, current : MaybeTab, launches : Nat]
  <2>1. CASE Launch
    BY <1>1, <2>1 DEF Launch, PersistTypeOK, MaybeTab
  <2>2. CASE Quit \/ Crash
    BY <1>1, <2>2 DEF Quit, Crash, PersistTypeOK
  <2> QED
    BY <2>1, <2>2
<1>5. PersistTypeOK'
  BY <1>1, <1>2, <1>3, <1>4, PersistAssumption DEF PersistTypeOK, EmptyStore, EachOnce, NothingSaved
<1> QED
  BY <1>2, <1>5 DEF PersistInv, NothingYet, RebuiltOnce, StoredOrWaits, EmptyStore, NothingSaved, ToRebuild

\* A save writes what the store holds.
LEMMA SaveKeeps == ASSUME PersistInv, NEW c \in SavedClusters, SaveDue(c) PROVE PersistInv'
<1>1. PersistTypeOK /\ app.hydrated
  BY DEF PersistInv, NothingYet, SaveDue
<1>2. /\ c \in saves /\ saves' = saves \ {c} /\ disk' = [disk EXCEPT !.snap = SaveCluster(@, c)]
      /\ UNCHANGED <<app, wtabs, rev, dock, actDock, content, dockLoads, trees, dropped, edits>>
  BY DEF SaveDue
<1>3. BuildTabSnapshot(c) \in Snapshots
  BY <1>1, BuildType
<1>4. PersistTypeOK'
  BY <1>1, <1>2, <1>3 DEF PersistTypeOK, SaveCluster
<1>5. RebuiltOnce'
  BY <1>2 DEF PersistInv, RebuiltOnce, ToRebuild
<1>6. ASSUME NEW d \in OpenClusters' \ saves'
      PROVE StoredOf(d)'.rev = rev'[d] /\ (DockStored(d)' \/ Unrebuilt(d)')
  <2>0. d \in OpenClusters /\ d \in SavedClusters
    BY <1>1, <1>2, <1>6 DEF OpenClusters, ToSet, PersistTypeOK
  <2>1. CASE d = c
    <3>1. disk'.snap[c] = BuildTabSnapshot(c)
      BY <1>1, <1>2, <2>0, <2>1 DEF PersistTypeOK, SaveCluster
    <3>2. /\ StoredOf(c)'.rev = rev[c] /\ StoredOf(c)'.dock = dock[c]
          /\ StoredOf(c)'.act = BuildTabSnapshot(c).act
      BY <1>1, <3>1, BuildType DEF StoredOf
    <3>3. BuildTabSnapshot(c)' = BuildTabSnapshot(c)
      BY <1>2 DEF BuildTabSnapshot, Snapshot
    <3>4. dropped[c] \cap dock[c] = {}
      BY DEF PersistInv, RebuiltOnce
    <3> QED
      BY <1>2, <2>1, <3>2, <3>3, <3>4 DEF DockStored
  <2>2. CASE d # c
    <3>1. disk'.snap[d] = disk.snap[d]
      BY <1>1, <1>2, <2>0, <2>2 DEF PersistTypeOK, SaveCluster
    <3>2. StoredOf(d).rev = rev[d] /\ (DockStored(d) \/ Unrebuilt(d))
      BY <1>1, <1>2, <1>6, <2>0, <2>2 DEF PersistInv, StoredOrWaits
    <3>3. ToRebuild(d)' = ToRebuild(d)
      BY <1>2 DEF ToRebuild
    <3> QED
      BY <1>2, <2>0, <3>1, <3>2, <3>3, Undisturbed
  <2> QED
    BY <2>1, <2>2
<1>7. NothingYet'
  BY <1>1, <1>2 DEF NothingYet
<1> QED
  BY <1>4, <1>5, <1>6, <1>7 DEF PersistInv, StoredOrWaits

\* The steps that open, close, show and change tabs.
TabStep(c) ==
  LoadClusters(c) \/ TreeLoaded(c) \/ OpenTab(c) \/ CloseTab(c) \/ SetCurrentTab(c) \/ UpdateCurrentTabState
LEMMA TabsKeep == ASSUME PersistInv, NEW c \in SavedClusters, TabStep(c) PROVE PersistInv'
<1> USE DEF TabStep
<1>1. PersistTypeOK
  BY DEF PersistInv
<1>2. UNCHANGED <<dock, actDock, content, dockLoads, dropped>>
  BY DEF LoadClusters, TreeLoaded, OpenTab, CloseTab, SetCurrentTab, UpdateCurrentTabState, Edit
<1>3. app.hydrated /\ app'.hydrated
  <2>1. app.hydrated
    BY DEF LoadClusters, TreeLoaded, OpenTab, CloseTab, SetCurrentTab, UpdateCurrentTabState, Edit, WriteSettled
  <2> QED
    BY <1>1, <2>1 DEF LoadClusters, TreeLoaded, OpenTab, CloseTab, SetCurrentTab, UpdateCurrentTabState,
       PersistTypeOK
<1>4. RebuiltOnce'
  BY <1>2 DEF PersistInv, RebuiltOnce, ToRebuild
\* The tabs stay in order, each once.
<1>5. /\ wtabs' \in Seq(SavedClusters) /\ EachOnce(wtabs')
  <2>1. CASE LoadClusters(c)
    <3>1. wtabs' = <<c>>
      BY <2>1 DEF LoadClusters
    <3> QED
      BY <3>1 DEF EachOnce
  <2>2. CASE OpenTab(c)
    BY <1>1, <2>2, AppendedOnce DEF OpenTab, OpenClusters, PersistTypeOK
  <2>3. CASE CloseTab(c)
    <3>1. PICK i \in DOMAIN wtabs : wtabs[i] = c /\ wtabs' = RemoveAt(wtabs, i)
      BY <2>3 DEF CloseTab
    <3> QED
      BY <1>1, <3>1, RemovedOnce DEF PersistTypeOK
  <2>4. CASE TreeLoaded(c) \/ SetCurrentTab(c) \/ UpdateCurrentTabState
    BY <1>1, <2>4 DEF TreeLoaded, SetCurrentTab, UpdateCurrentTabState, PersistTypeOK
  <2> QED
    BY <2>1, <2>2, <2>3, <2>4
\* What is stored stays, but for a tab that is closed.
<1>6. /\ disk' \in [open : Seq(SavedClusters), current : MaybeTab,
                    snap : [SavedClusters -> Snapshots \cup {NoSnapshot}], keys : SUBSET SavedClusters]
      /\ EachOnce(disk'.open)
      /\ \A d \in SavedClusters : disk'.snap[d] = disk.snap[d] \/ (d = c /\ c \notin OpenClusters')
  <2>1. CASE OpenTab(c)
    <3>1. disk' = [disk EXCEPT !.open = wtabs', !.current = c]
      BY <2>1 DEF OpenTab
    <3> QED
      BY <1>1, <1>5, <3>1 DEF PersistTypeOK, MaybeTab
  <2>2. CASE CloseTab(c)
    <3>1. PICK i \in DOMAIN wtabs :
            LET rest == RemoveAt(wtabs, i)
                cur == IF app.current # c THEN app.current
                       ELSE IF rest = <<>> THEN NoSnapshot ELSE rest[1]
            IN /\ wtabs[i] = c /\ wtabs' = rest
               /\ disk' = [disk EXCEPT !.open = rest, !.current = cur, !.keys = @ \ {c}, !.snap[c] = NoSnapshot]
      BY <2>2 DEF CloseTab
    <3>2. OpenClusters' = OpenClusters \ {c}
      BY <1>1, <3>1, RemovedOnce DEF OpenClusters, PersistTypeOK
    <3>3. wtabs' # <<>> => wtabs'[1] \in SavedClusters
      BY <1>5
    <3> QED
      BY <1>1, <1>5, <3>1, <3>2, <3>3 DEF PersistTypeOK, MaybeTab
  <2>3. CASE UpdateCurrentTabState
    <3>1. app.current \in SavedClusters
      BY <1>1, <2>3 DEF UpdateCurrentTabState, OpenClusters, ToSet, PersistTypeOK
    <3>2. disk' = disk \/ disk' = [disk EXCEPT !.keys = @ \cup {app.current}]
      BY <2>3 DEF UpdateCurrentTabState
    <3>3. CASE disk' = disk
      BY <1>1, <3>3 DEF PersistTypeOK
    <3>4. CASE disk' = [disk EXCEPT !.keys = @ \cup {app.current}]
      <4>1. disk.keys \cup {app.current} \in SUBSET SavedClusters
        BY <1>1, <3>1 DEF PersistTypeOK
      <4> HIDE DEF PersistTypeOK
      <4> QED
        BY <1>1, <3>4, <4>1 DEF PersistTypeOK
    <3> QED
      BY <3>2, <3>3, <3>4
  <2>4. CASE SetCurrentTab(c)
    BY <1>1, <2>4 DEF SetCurrentTab, PersistTypeOK, MaybeTab
  <2>5. CASE LoadClusters(c) \/ TreeLoaded(c)
    BY <1>1, <2>5 DEF LoadClusters, TreeLoaded, PersistTypeOK
  <2> QED
    BY <2>1, <2>2, <2>3, <2>4, <2>5
<1>7. /\ rev' \in [SavedClusters -> 0 .. MaxEdits] /\ edits' \in 0 .. MaxEdits
      /\ app' \in [up : BOOLEAN, hydrated : BOOLEAN, current : MaybeTab, launches : Nat]
  <2>1. edits' = edits \/ (edits < MaxEdits /\ edits' = edits + 1)
    BY DEF LoadClusters, TreeLoaded, OpenTab, CloseTab, SetCurrentTab, UpdateCurrentTabState, Edit
  <2>2. edits' \in 0 .. MaxEdits
    BY <1>1, <2>1, PersistAssumption DEF PersistTypeOK
  <2>3. \/ rev' = rev
        \/ \E r \in 0 .. MaxEdits, d \in SavedClusters : rev' = [rev EXCEPT ![d] = r]
    <3>1. CASE UpdateCurrentTabState
      <4>1. rev' = [rev EXCEPT ![app.current] = edits + 1] /\ edits < MaxEdits /\ app.current \in OpenClusters
        BY <3>1 DEF UpdateCurrentTabState, Edit
      <4>2. edits + 1 \in 0 .. MaxEdits /\ app.current \in SavedClusters
        BY <1>1, <4>1, PersistAssumption DEF PersistTypeOK, OpenClusters, ToSet
      <4> QED
        BY <4>1, <4>2
    <3>2. CASE LoadClusters(c) \/ OpenTab(c)
      <4>1. rev' = [rev EXCEPT ![c] = 0] /\ 0 \in 0 .. MaxEdits
        BY <3>2, PersistAssumption DEF LoadClusters, OpenTab
      <4> QED
        BY <4>1
    <3>3. CASE TreeLoaded(c) \/ CloseTab(c) \/ SetCurrentTab(c)
      BY <3>3 DEF TreeLoaded, CloseTab, SetCurrentTab
    <3> QED
      BY <3>1, <3>2, <3>3
  <2>4. rev' \in [SavedClusters -> 0 .. MaxEdits]
    BY <1>1, <2>3 DEF PersistTypeOK
  <2>5. app' = app \/ \E cur \in MaybeTab : app' = [app EXCEPT !.current = cur]
    <3>1. CASE CloseTab(c)
      <4>1. wtabs' # <<>> => wtabs'[1] \in SavedClusters
        BY <1>5
      <4> QED
        BY <1>1, <3>1, <4>1 DEF CloseTab, PersistTypeOK, MaybeTab
    <3>2. CASE LoadClusters(c) \/ OpenTab(c) \/ SetCurrentTab(c)
      <4>1. app' = [app EXCEPT !.current = c] /\ c \in MaybeTab
        BY <3>2 DEF LoadClusters, OpenTab, SetCurrentTab, MaybeTab
      <4> QED
        BY <4>1
    <3>3. CASE TreeLoaded(c) \/ UpdateCurrentTabState
      BY <3>3 DEF TreeLoaded, UpdateCurrentTabState
    <3> QED
      BY <3>1, <3>2, <3>3
  <2>6. app' \in [up : BOOLEAN, hydrated : BOOLEAN, current : MaybeTab, launches : Nat]
    BY <1>1, <2>5 DEF PersistTypeOK
  <2> QED
    BY <2>2, <2>4, <2>6
\* Whose state is not stored has its save scheduled.
<1>8. ASSUME NEW d \in OpenClusters', d \notin saves'
      PROVE d \in SavedClusters /\ d \in OpenClusters \ saves /\ rev'[d] = rev[d]
  <2>0. d \in SavedClusters
    BY <1>5, <1>8 DEF OpenClusters, ToSet
  <2>1. CASE LoadClusters(c)
    <3>1. d # c
      BY <1>3, <1>8, <2>0, <2>1, ChangedTouches DEF LoadClusters
    <3>2. OpenClusters' = {c}
      BY <2>1 DEF LoadClusters, OpenClusters, ToSet
    <3> QED
      BY <1>8, <3>1, <3>2
  <2>2. CASE OpenTab(c)
    <3>1. d # c /\ d \notin saves
      BY <1>3, <1>8, <2>0, <2>2, ChangedTouches DEF OpenTab
    <3>2. OpenClusters' = OpenClusters \cup {c}
      BY <1>1, <2>2, AppendedOnce DEF OpenTab, OpenClusters, PersistTypeOK
    <3> QED
      BY <1>1, <1>8, <2>0, <2>2, <3>1, <3>2 DEF OpenTab, PersistTypeOK
  <2>3. CASE CloseTab(c)
    <3>1. /\ saves' = saves \ {c} /\ rev' = rev
          /\ \E i \in DOMAIN wtabs : wtabs[i] = c /\ wtabs' = RemoveAt(wtabs, i)
      BY <2>3 DEF CloseTab
    <3>2. OpenClusters' = OpenClusters \ {c}
      BY <1>1, <3>1, RemovedOnce DEF OpenClusters, PersistTypeOK
    <3> QED
      BY <1>8, <2>0, <3>1, <3>2
  <2>4. CASE UpdateCurrentTabState
    <3>1. d # app.current /\ d \notin saves
      BY <1>3, <1>8, <2>0, <2>4, ChangedTouches DEF UpdateCurrentTabState
    <3> QED
      BY <1>1, <1>8, <2>0, <2>4, <3>1 DEF UpdateCurrentTabState, PersistTypeOK, OpenClusters
  <2>5. CASE SetCurrentTab(c)
    BY <1>8, <2>0, <2>5 DEF SetCurrentTab, OpenClusters
  <2>6. CASE TreeLoaded(c)
    <3>1. d \notin saves
      BY <1>3, <1>8, <2>0, <2>6, ChangedTouches DEF TreeLoaded
    <3> QED
      BY <1>8, <2>0, <2>6, <3>1 DEF TreeLoaded, OpenClusters
  <2> QED
    BY <2>1, <2>2, <2>3, <2>4, <2>5, <2>6
<1>9. StoredOrWaits'
  <2> SUFFICES ASSUME NEW d \in OpenClusters' \ saves'
               PROVE StoredOf(d)'.rev = rev'[d] /\ (DockStored(d)' \/ Unrebuilt(d)')
    BY DEF StoredOrWaits
  <2>1. d \in SavedClusters /\ d \in OpenClusters \ saves /\ rev'[d] = rev[d]
    BY <1>8
  <2>2. disk'.snap[d] = disk.snap[d]
    BY <1>6, <2>1
  <2>3. StoredOf(d).rev = rev[d] /\ (DockStored(d) \/ Unrebuilt(d))
    BY <1>3, <2>1 DEF PersistInv, StoredOrWaits
  <2>4. ToRebuild(d)' = ToRebuild(d)
    BY <1>2 DEF ToRebuild
  <2> QED
    BY <1>2, <2>1, <2>2, <2>3, <2>4, Undisturbed
<1>10. PersistTypeOK'
  BY <1>1, <1>2, <1>5, <1>6, <1>7 DEF PersistTypeOK
<1> QED
  BY <1>3, <1>4, <1>9, <1>10 DEF PersistInv, NothingYet

\* A change of a dock, or of which of its tabs is active, is of the clusters
\* whose saves it schedules.
LEMMA DockChangeKeeps ==
  ASSUME PersistInv, NEW dock2 \in [SavedClusters -> SUBSET DockIds], NEW act2,
         act2 = NoDock \/ \E d \in SavedClusters : \E j \in dock2[d] : act2 = <<d, j>>,
         \A d \in SavedClusters : \A j \in dock2[d] \ dock[d] :
            j \notin dropped[d] /\ \A w \in ToRebuild(d) : j \notin w.dock,
         DockChange(dock2, act2)
  PROVE  PersistInv'
<1>1. PersistTypeOK /\ RebuiltOnce
  BY DEF PersistInv
<1>3. /\ dock' = dock2 /\ actDock' = act2 /\ Changed({}, dock2, act2)
      /\ UNCHANGED <<app, wtabs, rev, content, dockLoads, trees, dropped, disk>>
      /\ edits' = edits + 1 /\ edits < MaxEdits /\ app.hydrated
  BY DEF DockChange, Edit, WriteSettled
<1>4. PersistTypeOK'
  <2>1. edits' \in 0 .. MaxEdits
    BY <1>1, <1>3, PersistAssumption DEF PersistTypeOK
  <2> QED
    BY <1>1, <1>3, <2>1 DEF PersistTypeOK
<1>5. RebuiltOnce'
  <2>1. ASSUME NEW d \in SavedClusters
        PROVE ToRebuild(d)' = ToRebuild(d) /\ dropped'[d] = dropped[d] /\ content'[d] = content[d]
    BY <1>3 DEF ToRebuild
  <2>2. ASSUME NEW d \in SavedClusters
        PROVE /\ \A w \in ToRebuild(d) : w.dock \cap dock'[d] = {}
              /\ dropped[d] \cap dock'[d] = {}
    BY <1>1, <1>3 DEF RebuiltOnce
  <2> QED
    BY <1>1, <1>3, <2>1, <2>2 DEF RebuiltOnce
<1>6. StoredOrWaits'
  <2> SUFFICES ASSUME NEW d \in OpenClusters' \ saves'
               PROVE StoredOf(d)'.rev = rev'[d] /\ (DockStored(d)' \/ Unrebuilt(d)')
    BY DEF StoredOrWaits
  <2>0. d \in SavedClusters /\ d \in OpenClusters
    BY <1>1, <1>3 DEF OpenClusters, ToSet, PersistTypeOK
  <2>1. d \notin saves /\ (dock2 # dock \/ act2 # actDock => dock2[d] = {} /\ dock[d] = {})
    BY <1>3, <2>0, ChangedTouches
  <2>2. StoredOf(d).rev = rev[d] /\ (DockStored(d) \/ Unrebuilt(d))
    BY <1>3, <2>0, <2>1 DEF PersistInv, StoredOrWaits
  <2>3. dock'[d] = dock[d]
    BY <1>3, <2>1
  <2>4. actDock'[1] = d \/ actDock[1] = d => actDock' = actDock
    <3>1. ASSUME act2 # actDock PROVE act2[1] # d /\ actDock[1] # d
      <4>1. dock2[d] = {} /\ dock[d] = {}
        BY <2>1, <3>1
      <4>3. actDock = NoDock \/ \E e \in SavedClusters : \E j \in dock[e] : actDock = <<e, j>>
        BY <1>1 DEF PersistTypeOK
      <4>4. NoDock[1] # d
        BY <2>0, PersistAssumption DEF NoDock
      <4> QED
        BY <4>1, <4>3, <4>4
    <3> QED
      BY <1>3, <3>1
  <2>5. ToRebuild(d)' = ToRebuild(d)
    BY <1>3 DEF ToRebuild
  <2> QED
    BY <1>3, <2>0, <2>2, <2>3, <2>4, <2>5, Undisturbed
<1> QED
  BY <1>3, <1>4, <1>5, <1>6 DEF PersistInv, NothingYet

\* What the user does with the tabs of a dock.
LEMMA DocksKeep ==
  ASSUME PersistInv, NEW c \in SavedClusters, NEW i \in DockIds,
         OpenBottomTab(c, i) \/ CloseBottomTab(c, i) \/ SetActiveBottomTab(c, i)
  PROVE  PersistInv'
<1>1. /\ dock \in [SavedClusters -> SUBSET DockIds]
      /\ actDock = NoDock \/ \E d \in SavedClusters : \E j \in dock[d] : actDock = <<d, j>>
  BY DEF PersistInv, PersistTypeOK
<1>2. CASE OpenBottomTab(c, i)
  <2> DEFINE dock2 == [dock EXCEPT ![c] = @ \cup {i}]
  <2>1. DockChange(dock2, <<c, i>>) /\ i \notin StillToRebuild(c) \cup dropped[c]
    BY <1>2 DEF OpenBottomTab
  <2>2. \A w \in ToRebuild(c) : i \notin w.dock
    BY <2>1 DEF StillToRebuild, ToRebuild
  <2>3. dock2 \in [SavedClusters -> SUBSET DockIds] /\ i \in dock2[c]
        /\ \A d \in SavedClusters : dock2[d] \ dock[d] \subseteq (IF d = c THEN {i} ELSE {})
    BY <1>1
  <2> HIDE DEF dock2
  <2> QED
    BY <2>1, <2>2, <2>3, DockChangeKeeps
<1>3. CASE CloseBottomTab(c, i)
  <2> DEFINE dock2 == [dock EXCEPT ![c] = @ \ {i}]
             others == {t \in SavedClusters \X DockIds : t[2] \in dock2[t[1]]}
  <2>1. PICK act2 \in IF actDock # <<c, i>> THEN {actDock}
                      ELSE IF others = {} THEN {NoDock} ELSE others :
           DockChange(dock2, act2)
    BY <1>3 DEF CloseBottomTab
  <2>2. /\ dock2 \in [SavedClusters -> SUBSET DockIds]
        /\ \A d \in SavedClusters : dock2[d] = dock[d] \ (IF d = c THEN {i} ELSE {})
    BY <1>1
  <2>3. act2 = NoDock \/ \E d \in SavedClusters : \E j \in dock2[d] : act2 = <<d, j>>
    <3>1. CASE actDock # <<c, i>>
      BY <1>1, <2>1, <2>2, <3>1
    <3>2. CASE actDock = <<c, i>>
      <4>1. act2 = NoDock \/ act2 \in others
        BY <2>1, <3>2
      <4> QED
        BY <4>1
    <3> QED
      BY <3>1, <3>2
  <2> HIDE DEF dock2, others
  <2> QED
    BY <2>1, <2>2, <2>3, DockChangeKeeps
<1>4. CASE SetActiveBottomTab(c, i)
  BY <1>1, <1>4, DockChangeKeeps DEF SetActiveBottomTab
<1> QED
  BY <1>2, <1>3, <1>4

\* With no tab in its dock no tab of a cluster is the active one.
LEMMA NoTabNoActive ==
  ASSUME PersistTypeOK, NEW c \in SavedClusters, dock[c] = {}
  PROVE  actDock[1] # c /\ BuildTabSnapshot(c).act = NoSnapshot
<1>1. actDock[1] # c
  BY PersistAssumption DEF PersistTypeOK, NoDock
<1> QED
  BY <1>1, BuildType

\* The rebuild of the dock of the cluster shown begins, or it has no tab.
LEMMA RestoreKeeps == PersistInv /\ RestoreWorkspaceContent => PersistInv'
<1> SUFFICES ASSUME PersistInv, RestoreWorkspaceContent PROVE PersistInv'
  OBVIOUS
<1>1. PersistTypeOK /\ RebuiltOnce
  BY DEF PersistInv
<1>2. PICK c \in SavedClusters, w \in Snapshots : c = app.current /\ w = content[c] /\ w # NoSnapshot
  BY <1>1 DEF RestoreWorkspaceContent, PersistTypeOK, MaybeTab
<1> DEFINE more == IF w.dock \subseteq dock[c] THEN {} ELSE {<<c, w>>}
<1>3. /\ app.hydrated /\ content' = [content EXCEPT ![c] = NoSnapshot] /\ dockLoads' = dockLoads \cup more
      /\ UNCHANGED <<app, wtabs, rev, dock, actDock, saves, trees, dropped, disk, edits>>
  BY <1>2 DEF RestoreWorkspaceContent
<1>4. w \in Snapshots /\ w \in ToRebuild(c) /\ w.dock \cap dock[c] = {} /\ \A l \in dockLoads : l[1] # c
  BY <1>1, <1>2 DEF PersistTypeOK, ToRebuild, RebuiltOnce
<1>5. ToRebuild(c) = {w}
  BY <1>2, <1>4 DEF ToRebuild
<1>6. PersistTypeOK'
  BY <1>1, <1>3, <1>4 DEF PersistTypeOK
<1>7. /\ content'[c] = NoSnapshot
      /\ \A d \in SavedClusters \ {c} : content'[d] = content[d]
  BY <1>1, <1>3 DEF PersistTypeOK
<1>8. \/ more = {} /\ w.dock \subseteq dock[c]
      \/ more = {<<c, w>>}
  OBVIOUS
<1> HIDE DEF more
<1>9. /\ \A l \in dockLoads' : l[1] = c => l = <<c, w>> /\ l \in more
      /\ \A d \in SavedClusters \ {c}, l \in dockLoads' : l[1] = d => l \in dockLoads
  BY <1>3, <1>4, <1>8
<1>10. /\ \A d \in SavedClusters \ {c} : ToRebuild(d)' = ToRebuild(d)
      /\ ToRebuild(c)' = IF more = {} THEN {} ELSE {w}
  <2>1. ASSUME NEW d \in SavedClusters \ {c} PROVE ToRebuild(d)' = ToRebuild(d)
    <3>1. {m \in dockLoads : m[1] = d}' = {m \in dockLoads : m[1] = d}
      BY <1>3, <1>9
    <3> QED
      BY <1>7, <3>1 DEF ToRebuild
  <2>2. {m \in dockLoads : m[1] = c}' = more
    BY <1>3, <1>9, <1>8
  <2>3. {l[2] : l \in more} = IF more = {} THEN {} ELSE {w}
    BY <1>8
  <2>4. ToRebuild(c)' = {l[2] : l \in more}
    BY <1>3, <1>7, <2>2 DEF ToRebuild
  <2> QED
    BY <2>1, <2>3, <2>4
<1>11. RebuiltOnce'
  <2> SUFFICES ASSUME NEW d \in SavedClusters
               PROVE  /\ ToRebuild(d)' # {} => dropped'[d] = {}
                      /\ content'[d] # NoSnapshot => \A l \in dockLoads' : l[1] # d
                      /\ \A l, m \in dockLoads' : l[1] = d /\ m[1] = d => l = m
                      /\ \A v \in ToRebuild(d)' : v.dock \cap dock'[d] = {}
                      /\ dropped'[d] \cap dock'[d] = {}
    BY DEF RebuiltOnce
  <2>1. CASE d = c
    <3>1. dropped[c] = {} /\ dropped[c] \cap dock[c] = {}
      BY <1>1, <1>3, <1>5 DEF RebuiltOnce
    <3>2. \A v \in ToRebuild(c)' : v = w
      BY <1>10
    <3> QED
      BY <1>3, <1>4, <1>7, <1>9, <2>1, <3>1, <3>2
  <2>2. CASE d # c
    <3>1. \A l \in dockLoads' : l[1] = d => l \in dockLoads
      BY <1>9, <2>2
    <3> QED
      BY <1>1, <1>3, <1>7, <1>10, <2>2, <3>1 DEF RebuiltOnce
  <2> QED
    BY <2>1, <2>2
<1>12. StoredOrWaits'
  <2> SUFFICES ASSUME NEW d \in OpenClusters' \ saves'
               PROVE StoredOf(d)'.rev = rev'[d] /\ (DockStored(d)' \/ Unrebuilt(d)')
    BY DEF StoredOrWaits
  <2>1. d \in SavedClusters /\ d \in OpenClusters \ saves
    BY <1>1, <1>3 DEF OpenClusters, ToSet, PersistTypeOK
  <2>2. StoredOf(d).rev = rev[d] /\ (DockStored(d) \/ Unrebuilt(d))
    BY <1>3, <2>1 DEF PersistInv, StoredOrWaits
  <2>3. CASE d # c \/ more # {} \/ DockStored(d)
    <3>1. CASE DockStored(d)
      BY <1>3, <2>2, <3>1 DEF DockStored, StoredOf, BuildTabSnapshot, Snapshot, NewWorkspace
    <3>2. CASE d # c \/ more # {}
      <4>1. ToRebuild(d) \subseteq ToRebuild(d)'
        BY <1>5, <1>10, <2>1, <3>2
      <4> QED
        BY <1>3, <2>1, <2>2, <4>1, Undisturbed
    <3> QED
      BY <2>3, <3>1, <3>2
  <2>4. CASE d = c /\ more = {} /\ Unrebuilt(d)
    <3>1. w.dock = {} /\ w.act = NoSnapshot
      BY <1>4, <1>8, <2>4 DEF Snapshots
    <3>2. dock[c] = {} /\ StoredOf(c).dock = {} /\ StoredOf(c).act = NoSnapshot
      BY <1>5, <2>4, <3>1 DEF Unrebuilt
    <3>3. BuildTabSnapshot(c).act = NoSnapshot
      BY <1>1, <3>2, NoTabNoActive
    <3>4. DockStored(c)
      BY <3>2, <3>3 DEF DockStored
    <3> QED
      BY <1>3, <2>2, <2>4, <3>4 DEF DockStored, StoredOf, BuildTabSnapshot, Snapshot, NewWorkspace
  <2> QED
    BY <2>2, <2>3, <2>4
<1> QED
  BY <1>3, <1>6, <1>11, <1>12 DEF PersistInv, NothingYet

\* A rebuild ends: the tabs whose objects were found join the dock.
LEMMA RebuildKeeps ==
  ASSUME PersistInv, NEW l \in dockLoads, NEW found \in SUBSET l[2].dock, RestoreBottomTabs(l, found)
  PROVE  PersistInv'
<1> DEFINE c == l[1]
           w == l[2]
           dock2 == [dock EXCEPT ![c] = @ \cup found]
           act2 == IF actDock = NoDock /\ w.act \in found \ dock[c] THEN <<c, w.act>> ELSE actDock
<1>1. PersistTypeOK /\ RebuiltOnce /\ app.hydrated
  BY DEF PersistInv, NothingYet
<1>2. /\ dockLoads' = dockLoads \ {l}
      /\ IF c \in OpenClusters
         THEN dock' = dock2 /\ actDock' = act2 /\ Changed({}, dock2, act2)
         ELSE UNCHANGED <<dock, actDock, saves>>
      /\ dropped' = [dropped EXCEPT ![c] = @ \cup (w.dock \ found)]
      /\ UNCHANGED <<app, wtabs, rev, content, trees, disk, edits>>
  BY DEF RestoreBottomTabs
<1>3. c \in SavedClusters /\ w \in Snapshots /\ w.dock \in SUBSET DockIds
  BY <1>1 DEF PersistTypeOK, Snapshots
<1>4. /\ ToRebuild(c) = {w} /\ ToRebuild(c)' = {} /\ content[c] = NoSnapshot /\ dropped[c] = {}
      /\ \A m \in dockLoads' : m[1] # c
      /\ w.dock \cap dock[c] = {}
  <2>1. content[c] = NoSnapshot /\ \A m \in dockLoads : m[1] = c => m = l
    BY <1>1, <1>3 DEF RebuiltOnce
  <2>2. ToRebuild(c) = {w}
    BY <2>1 DEF ToRebuild
  <2>3. \A m \in dockLoads' : m[1] # c
    BY <1>2, <2>1
  <2>4. ToRebuild(c)' = {}
    BY <1>2, <2>1, <2>3 DEF ToRebuild
  <2> QED
    BY <1>1, <1>3, <2>1, <2>2, <2>3, <2>4 DEF RebuiltOnce
<1>5. \A d \in SavedClusters \ {c} : ToRebuild(d)' = ToRebuild(d)
  BY <1>2 DEF ToRebuild
<1>6. /\ dropped' \in [SavedClusters -> SUBSET DockIds] /\ dropped'[c] = w.dock \ found
      /\ \A d \in SavedClusters \ {c} : dropped'[d] = dropped[d]
  BY <1>1, <1>2, <1>3, <1>4 DEF PersistTypeOK
<1>7. /\ dock2 \in [SavedClusters -> SUBSET DockIds] /\ dock2[c] = dock[c] \cup found
      /\ \A d \in SavedClusters \ {c} : dock2[d] = dock[d]
  BY <1>1, <1>3 DEF PersistTypeOK
<1>8. act2 = NoDock \/ \E d \in SavedClusters : \E j \in dock2[d] : act2 = <<d, j>>
  <2>1. CASE actDock = NoDock /\ w.act \in found \ dock[c]
    BY <1>3, <1>7, <2>1
  <2>2. CASE ~(actDock = NoDock /\ w.act \in found \ dock[c])
    <3>1. actDock = NoDock \/ \E d \in SavedClusters : \E j \in dock[d] : actDock = <<d, j>>
      BY <1>1 DEF PersistTypeOK
    <3>2. \A d \in SavedClusters : dock[d] \subseteq dock2[d]
      BY <1>7
    <3> QED
      BY <2>2, <3>1, <3>2
  <2> QED
    BY <2>1, <2>2
<1>9. act2 # actDock => act2[1] = c /\ actDock = NoDock /\ found # {}
  OBVIOUS
<1> HIDE DEF dock2, act2, c, w
<1>10. /\ dock' \in [SavedClusters -> SUBSET DockIds] /\ dock[c] \subseteq dock'[c] /\ dock'[c] \subseteq dock[c] \cup found
       /\ \A d \in SavedClusters \ {c} : dock'[d] = dock[d]
       /\ actDock' = NoDock \/ \E d \in SavedClusters : \E j \in dock'[d] : actDock' = <<d, j>>
  <2>1. CASE c \in OpenClusters
    BY <1>2, <1>7, <1>8, <2>1
  <2>2. CASE c \notin OpenClusters
    BY <1>1, <1>2, <2>2 DEF PersistTypeOK
  <2> QED
    BY <2>1, <2>2
<1>11. PersistTypeOK'
  BY <1>1, <1>2, <1>6, <1>10 DEF PersistTypeOK
<1>12. RebuiltOnce'
  <2> SUFFICES ASSUME NEW d \in SavedClusters
               PROVE  /\ ToRebuild(d)' # {} => dropped'[d] = {}
                      /\ content'[d] # NoSnapshot => \A k \in dockLoads' : k[1] # d
                      /\ \A k, m \in dockLoads' : k[1] = d /\ m[1] = d => k = m
                      /\ \A v \in ToRebuild(d)' : v.dock \cap dock'[d] = {}
                      /\ dropped'[d] \cap dock'[d] = {}
    BY DEF RebuiltOnce
  <2>1. CASE d = c
    <3>1. dropped'[c] \cap dock'[c] = {}
      BY <1>4, <1>6, <1>10
    <3> QED
      BY <1>2, <1>4, <2>1, <3>1
  <2>2. CASE d # c
    <3>1. \A k \in dockLoads' : k \in dockLoads
      BY <1>2
    <3> QED
      BY <1>1, <1>2, <1>5, <1>6, <1>10, <2>2, <3>1 DEF RebuiltOnce
  <2> QED
    BY <2>1, <2>2
<1>13. StoredOrWaits'
  <2> SUFFICES ASSUME NEW d \in OpenClusters' \ saves'
               PROVE StoredOf(d)'.rev = rev'[d] /\ (DockStored(d)' \/ Unrebuilt(d)')
    BY DEF StoredOrWaits
  <2>0. d \in SavedClusters /\ d \in OpenClusters
    BY <1>1, <1>2 DEF OpenClusters, ToSet, PersistTypeOK
  <2>1. CASE c \notin OpenClusters
    <3>1. d # c /\ d \notin saves
      BY <1>2, <2>0, <2>1
    <3>2. StoredOf(d).rev = rev[d] /\ (DockStored(d) \/ Unrebuilt(d))
      BY <1>1, <2>0, <3>1 DEF PersistInv, StoredOrWaits
    <3> QED
      BY <1>2, <1>5, <1>6, <2>0, <2>1, <3>1, <3>2, Undisturbed
  <2>2. CASE c \in OpenClusters
    <3>1. d \notin saves /\ (dock2 # dock \/ act2 # actDock => dock2[d] = {} /\ dock[d] = {})
      BY <1>1, <1>2, <2>0, <2>2, ChangedTouches
    <3>2. StoredOf(d).rev = rev[d] /\ (DockStored(d) \/ Unrebuilt(d))
      BY <1>1, <2>0, <3>1 DEF PersistInv, StoredOrWaits
    <3>3. CASE d # c
      <4>1. NoDock[1] # d
        BY <2>0, PersistAssumption DEF NoDock
      <4>2. actDock'[1] = d \/ actDock[1] = d => actDock' = actDock
        BY <1>2, <1>9, <2>2, <3>3, <4>1
      <4> QED
        BY <1>2, <1>5, <1>6, <1>10, <2>0, <3>2, <3>3, <4>2, Undisturbed
    <3>4. CASE d = c
      <4>1. found = {}
        BY <1>4, <1>7, <3>1, <3>4 DEF w
      <4>2. dock'[c] = dock[c] /\ actDock' = actDock /\ dropped'[c] = w.dock
        BY <1>2, <1>6, <1>7, <1>9, <2>2, <4>1
      <4>3. StoredOf(c)' = StoredOf(c) /\ BuildTabSnapshot(c)'.act = BuildTabSnapshot(c).act
        BY <1>2, <4>2 DEF StoredOf, NewWorkspace, BuildTabSnapshot, Snapshot
      <4>4. CASE DockStored(c)
        <5>1. StoredOf(c).dock = dock[c] /\ StoredOf(c).act = BuildTabSnapshot(c).act
          BY <1>4, <4>4 DEF DockStored
        <5> QED
          BY <1>2, <1>4, <3>2, <3>4, <4>2, <4>3, <5>1 DEF DockStored
      <4>5. CASE Unrebuilt(c)
        <5>1. dock[c] = {} /\ StoredOf(c).dock = w.dock /\ StoredOf(c).act = w.act
          BY <1>4, <4>5 DEF Unrebuilt
        <5>2. w.act = NoSnapshot \/ w.act \in w.dock
          BY <1>3 DEF Snapshots
        <5>3. BuildTabSnapshot(c).act = NoSnapshot
          BY <1>1, <1>3, <5>1, NoTabNoActive
        <5>4. DockStored(c)'
          BY <4>2, <4>3, <5>1, <5>2, <5>3 DEF DockStored
        <5> QED
          BY <1>2, <3>2, <3>4, <4>3, <5>4
      <4> QED
        BY <3>2, <3>4, <4>4, <4>5
    <3> QED
      BY <3>3, <3>4
  <2> QED
    BY <2>1, <2>2
<1> QED
  BY <1>1, <1>2, <1>11, <1>12, <1>13 DEF PersistInv, NothingYet

\* Every step of the store keeps it.
LEMMA PersistInvStep == PersistInv /\ [PersistNext]_persistVars => PersistInv'
<1> SUFFICES ASSUME PersistInv, [PersistNext]_persistVars PROVE PersistInv'
  OBVIOUS
<1>1. CASE Launch \/ Quit \/ Crash
  BY <1>1, EndKeeps
<1>2. CASE HydrateFromStorage \/ HydrateNothing
  BY <1>2, HydrateKeeps
<1>3. CASE RestoreWorkspaceContent
  BY <1>3, RestoreKeeps
<1>4. CASE UpdateCurrentTabState
  <2>1. PICK c \in SavedClusters : c = app.current
    BY <1>4 DEF PersistInv, PersistTypeOK, UpdateCurrentTabState, OpenClusters, ToSet
  <2> QED
    BY <1>4, <2>1, TabsKeep DEF TabStep
<1>5. ASSUME NEW c \in SavedClusters,
             SaveDue(c) \/ LoadClusters(c) \/ TreeLoaded(c) \/ OpenTab(c) \/ CloseTab(c) \/ SetCurrentTab(c)
      PROVE PersistInv'
  BY <1>5, SaveKeeps, TabsKeep DEF TabStep
<1>6. ASSUME NEW c \in SavedClusters, NEW i \in DockIds,
             OpenBottomTab(c, i) \/ CloseBottomTab(c, i) \/ SetActiveBottomTab(c, i)
      PROVE PersistInv'
  BY <1>6, DocksKeep
<1>7. ASSUME NEW l \in dockLoads, NEW found \in SUBSET l[2].dock, RestoreBottomTabs(l, found)
      PROVE PersistInv'
  BY <1>7, RebuildKeeps
<1>8. CASE UNCHANGED persistVars
  <2>1. UNCHANGED persistVars /\ PersistTypeOK' /\ NothingYet'
    BY <1>8 DEF persistVars, PersistInv, PersistTypeOK, NothingYet
  <2>2. RebuiltOnce'
    BY <2>1 DEF persistVars, PersistInv, RebuiltOnce, ToRebuild
  <2>3. StoredOrWaits'
    <3> SUFFICES ASSUME app'.hydrated, NEW c \in OpenClusters' \ saves'
                 PROVE StoredOf(c)'.rev = rev'[c] /\ (DockStored(c)' \/ Unrebuilt(c)')
      BY DEF StoredOrWaits
    <3>1. c \in OpenClusters \ saves /\ app.hydrated /\ c \in SavedClusters
      BY <2>1 DEF persistVars, OpenClusters, ToSet, PersistTypeOK, PersistInv
    <3>2. StoredOf(c).rev = rev[c] /\ (DockStored(c) \/ Unrebuilt(c)) /\ ToRebuild(c)' = ToRebuild(c)
      BY <2>1, <3>1 DEF persistVars, PersistInv, StoredOrWaits, ToRebuild
    <3> QED
      BY <2>1, <3>1, <3>2, Undisturbed DEF persistVars
  <2> QED
    BY <2>1, <2>2, <2>3 DEF PersistInv
<1> QED
  BY <1>1, <1>2, <1>3, <1>4, <1>5, <1>6, <1>7, <1>8 DEF PersistNext

\* What waits to be rebuilt waits in content or in a load.
LEMMA InvKeepsSaved == PersistInv => SavedOrPending
<1> SUFFICES ASSUME PersistInv, app.hydrated, NEW c \in OpenClusters \ saves
             PROVE  LET s == StoredOf(c) IN
                    /\ s.rev = rev[c]
                    /\ \/ /\ s.dock \ dropped[c] = dock[c]
                          /\ s.act \in {BuildTabSnapshot(c).act} \cup dropped[c]
                       \/ content[c] # NoSnapshot
                       \/ \E l \in dockLoads : l[1] = c
  BY DEF SavedOrPending
<1>1. StoredOf(c).rev = rev[c] /\ (DockStored(c) \/ Unrebuilt(c))
  BY DEF PersistInv, StoredOrWaits
<1>2. Unrebuilt(c) => content[c] # NoSnapshot \/ \E l \in dockLoads : l[1] = c
  BY DEF Unrebuilt, ToRebuild
<1> QED
  BY <1>1, <1>2 DEF DockStored

\* No step writes of a cluster whose tab is closed.
LEMMA NothingOfClosed == PersistInv /\ [PersistNext]_persistVars => ClosedStaysForgotten
<1> SUFFICES ASSUME PersistInv, [PersistNext]_persistVars, NEW d \in SavedClusters, d \notin OpenClusters
             PROVE  /\ disk'.snap[d] \in {disk.snap[d], NoSnapshot}
                    /\ d \in disk'.keys => d \in disk.keys
  BY DEF ClosedStaysForgotten
<1>0. PersistTypeOK
  BY DEF PersistInv
<1>1. CASE disk' = disk
  BY <1>1
<1>2. CASE HydrateFromStorage
  BY <1>0, <1>2 DEF HydrateFromStorage, Pruned, PersistTypeOK
<1>3. CASE Quit
  BY <1>0, <1>3 DEF Quit, SaveCluster, PersistTypeOK
<1>4. ASSUME NEW c \in SavedClusters, SaveDue(c)
      PROVE disk'.snap[d] = disk.snap[d] /\ disk'.keys = disk.keys
  BY <1>0, <1>4 DEF SaveDue, SaveCluster, PersistTypeOK
<1>5. ASSUME NEW c \in SavedClusters, OpenTab(c) \/ SetCurrentTab(c)
      PROVE disk'.snap[d] = disk.snap[d] /\ disk'.keys = disk.keys
  BY <1>0, <1>5 DEF OpenTab, SetCurrentTab, PersistTypeOK
<1>6. ASSUME NEW c \in SavedClusters, CloseTab(c)
      PROVE disk'.snap[d] \in {disk.snap[d], NoSnapshot} /\ disk'.keys \subseteq disk.keys
  <2>1. PICK i \in DOMAIN wtabs :
          LET rest == RemoveAt(wtabs, i)
              cur == IF app.current # c THEN app.current
                     ELSE IF rest = <<>> THEN NoSnapshot ELSE rest[1]
          IN disk' = [disk EXCEPT !.open = rest, !.current = cur, !.keys = @ \ {c}, !.snap[c] = NoSnapshot]
    BY <1>6 DEF CloseTab
  <2> QED
    BY <1>0, <2>1 DEF PersistTypeOK
<1>7. CASE UpdateCurrentTabState
  <2>1. app.current # d
    BY <1>7 DEF UpdateCurrentTabState
  <2>2. disk' = disk \/ disk' = [disk EXCEPT !.keys = @ \cup {app.current}]
    BY <1>7 DEF UpdateCurrentTabState
  <2>3. CASE disk' = [disk EXCEPT !.keys = @ \cup {app.current}]
    <3>1. disk'.snap = disk.snap /\ disk'.keys = disk.keys \cup {app.current}
      BY <1>0, <2>3 DEF PersistTypeOK
    <3> QED
      BY <2>1, <3>1
  <2> QED
    BY <1>1, <2>2, <2>3
<1>8. CASE \/ Launch \/ HydrateNothing \/ Crash \/ RestoreWorkspaceContent \/ UNCHANGED persistVars
           \/ \E c \in SavedClusters :
                 \/ LoadClusters(c) \/ TreeLoaded(c)
                 \/ \E i \in DockIds : \/ OpenBottomTab(c, i) \/ CloseBottomTab(c, i)
                                       \/ SetActiveBottomTab(c, i)
           \/ \E l \in dockLoads : \E found \in SUBSET l[2].dock : RestoreBottomTabs(l, found)
  <2>1. ASSUME Launch \/ HydrateNothing \/ Crash \/ RestoreWorkspaceContent \/ UNCHANGED persistVars
        PROVE disk' = disk
    BY <2>1 DEF persistVars, Launch, HydrateNothing, Crash, RestoreWorkspaceContent
  <2>2. ASSUME NEW c \in SavedClusters, LoadClusters(c) \/ TreeLoaded(c) PROVE disk' = disk
    BY <2>2 DEF LoadClusters, TreeLoaded
  <2>3. ASSUME NEW c \in SavedClusters, NEW i \in DockIds,
               OpenBottomTab(c, i) \/ CloseBottomTab(c, i) \/ SetActiveBottomTab(c, i)
        PROVE disk' = disk
    BY <2>3 DEF OpenBottomTab, CloseBottomTab, SetActiveBottomTab, DockChange
  <2>4. ASSUME NEW l \in dockLoads, NEW found \in SUBSET l[2].dock, RestoreBottomTabs(l, found)
        PROVE disk' = disk
    BY <2>4 DEF RestoreBottomTabs
  <2> QED
    BY <1>1, <1>8, <2>1, <2>2, <2>3, <2>4
<1> QED
  BY <1>2, <1>3, <1>4, <1>5, <1>6, <1>7, <1>8 DEF PersistNext

(* What is stored of an open cluster is what the store holds of it, unless *)
(* a save is scheduled or its dock is still to be rebuilt from it, and     *)
(* nothing is written of a cluster whose tab is closed (persistence.ts     *)
(* installPersistence, saveCluster, flushPendingSnapshots).                *)
THEOREM WorkspaceStaysKept == PersistSpec => WorkspaceIsKept
<1>1. PersistInv /\ PersistInv' /\ [PersistNext]_persistVars
        => [SavedOrPending' /\ ClosedStaysForgotten]_persistVars
  <2>1. PersistInv' => SavedOrPending'
    BY InvKeepsSaved, PTL
  <2> QED
    BY <2>1, NothingOfClosed
<1> QED
  BY <1>1, PersistInvInit, PersistInvStep, PTL DEF PersistSpec, WorkspaceIsKept

(***************************************************************************)
(* The resource tree and its counts (Sidebar).                             *)
(***************************************************************************)
Counts == {Count(c, n) : c \in SideClusters, n \in 0 .. MaxCount} \cup {NoCount}
TreeNodes == [there : BOOLEAN, exp : BOOLEAN, kids : BOOLEAN, count : Counts, off : BOOLEAN]
FetchRecord == [c : SideClusters, k : Categories,
                what : {"counts", "click", "load", "again", "retry", "detect"}]
LoadRecord == [c : SideClusters, step : {"cats", "expand", "wait"}, todo : SUBSET Categories]
Retries == {"none", "timer", "running"}

SideTypeOK ==
  /\ opened \subseteq SideClusters /\ front \in opened
  /\ nodes \in [SideClusters -> [Categories -> TreeNodes]]
  /\ expanded \in [SideClusters -> SUBSET Categories]
  /\ loads \subseteq LoadRecord /\ fetches \subseteq FetchRecord
  /\ retry \in [SideClusters -> [Categories -> Retries]]
  /\ pushed \in [Categories -> Counts] /\ present \subseteq Categories
  /\ backend \in [SideClusters -> [n : 0 .. MaxCount, up : BOOLEAN, served : BOOLEAN]]

\* A closed tab leaves no tree behind.
ClosedIsEmpty ==
  \A c \in SideClusters \ opened : expanded[c] = {} /\ \A k \in Categories : nodes[c][k] = NoNode

\* Only a category of the tree has children.
ChildrenAreShown ==
  \A c \in SideClusters, k \in Categories :
     LET n == nodes[c][k] IN (n.kids => n.there) /\ (n.there => k \in present)

\* The number of a category is on its way: an answer that sets it or asks
\* again is awaited, or the timer runs, or there will never be one.
OnItsWay(c, k) ==
  \/ Fetch(c, k, "counts") \in fetches \/ Fetch(c, k, "retry") \in fetches
  \/ retry[c][k] = "timer"
  \/ ~backend[c].served
  \/ <<c, k>> \in lapsed
NumbersComeBack ==
  \A c \in SideClusters, k \in Categories :
     nodes[c][k].kids /\ nodes[c][k].count = NoCount => OnItsWay(c, k)

SideInv == SideTypeOK /\ ClosedIsEmpty /\ ChildrenAreShown /\ ExpansionAgrees /\ NumbersComeBack

\* What a step must see to, of one category.
NodeKept(c, k) ==
  LET n == nodes[c][k]
      m == nodes'[c][k]
  IN /\ IF c \in opened' THEN m.there => (m.exp <=> k \in expanded'[c])
                         ELSE k \notin expanded'[c] /\ m = NoNode
     /\ (m.kids => m.there) /\ (m.there => k \in present')
     /\ m.kids /\ m.count = NoCount => OnItsWay(c, k)'
     /\ n.kids /\ m.kids /\ n.count # NoCount /\ m.count = NoCount
           => backend[c].up /\ ~backend[c].served
NodesKept == \A c \in SideClusters, k \in Categories : NodeKept(c, k)

\* The tree of a launch is the one that is being loaded.
LEMMA SideInvInit == SideInit => SideInv
<1> SUFFICES ASSUME SideInit PROVE SideInv
  OBVIOUS
<1>1. front \in SideClusters /\ opened = {front}
  BY SideAssumption DEF SideInit
<1>2. PICK e \in SUBSET present :
         /\ expanded = [c \in SideClusters |-> IF c = front THEN e ELSE {}]
         /\ loads = {[c |-> front, step |-> "cats", todo |-> e]}
  BY DEF SideInit
<1>3. present \subseteq Categories
  BY DEF SideInit, Categories
<1>4. NoNode \in TreeNodes
  BY DEF NoNode, TreeNodes, Counts
<1>5. loads \subseteq LoadRecord
  BY <1>1, <1>2, <1>3 DEF LoadRecord
<1>6. /\ retry \in [SideClusters -> [Categories -> Retries]] /\ pushed \in [Categories -> Counts]
      /\ backend \in [SideClusters -> [n : 0 .. MaxCount, up : BOOLEAN, served : BOOLEAN]]
  BY SideAssumption DEF SideInit, Retries, Counts
<1>7. SideTypeOK
  BY <1>1, <1>2, <1>3, <1>4, <1>5, <1>6 DEF SideTypeOK, SideInit
<1>8. /\ \A c \in SideClusters, k \in Categories : nodes[c][k] = NoNode
      /\ \A c \in SideClusters \ opened : expanded[c] = {}
  BY <1>1, <1>2 DEF SideInit
<1>9. ~NoNode.there /\ ~NoNode.kids
  BY DEF NoNode
<1> QED
  BY <1>1, <1>7, <1>8, <1>9 DEF SideInv, ClosedIsEmpty, ChildrenAreShown, ExpansionAgrees, NumbersComeBack

\* What a step sees to of every category makes the invariant.
LEMMA NodesMake == ASSUME SideTypeOK', NodesKept PROVE SideInv' /\ KnownCountsStay
<1>1. /\ \A c \in SideClusters, k \in Categories : NodeKept(c, k)
      /\ opened' \subseteq SideClusters /\ expanded' \in [SideClusters -> SUBSET Categories]
  BY DEF NodesKept, SideTypeOK
<1>2. ClosedIsEmpty'
  BY <1>1 DEF ClosedIsEmpty, NodeKept
<1>3. ChildrenAreShown' /\ ExpansionAgrees' /\ NumbersComeBack'
  BY <1>1 DEF ChildrenAreShown, ExpansionAgrees, NumbersComeBack, NodeKept
<1>4. KnownCountsStay
  BY <1>1 DEF KnownCountsStay, NodeKept
<1> QED
  BY <1>2, <1>3, <1>4 DEF SideInv

\* A category a step does not touch.
LEMMA NodeUntouched ==
  ASSUME SideInv, NEW c \in SideClusters, NEW k \in Categories,
         nodes'[c][k] = nodes[c][k], k \in expanded'[c] <=> k \in expanded[c],
         c \in opened' <=> c \in opened, present' = present,
         OnItsWay(c, k) => OnItsWay(c, k)'
  PROVE  NodeKept(c, k)
<1>1. CASE c \in opened
  BY <1>1 DEF SideInv, ChildrenAreShown, ExpansionAgrees, NumbersComeBack, NodeKept
<1>2. CASE c \notin opened
  BY <1>2 DEF SideInv, ClosedIsEmpty, ChildrenAreShown, NumbersComeBack, NodeKept
<1> QED
  BY <1>1, <1>2

\* What is asked for of one category takes nothing from another.
LEMMA StillOnItsWay ==
  ASSUME NEW c \in SideClusters, NEW k \in Categories,
         \A f \in fetches \ fetches' : f.c # c \/ f.k # k \/ f.what \notin {"counts", "retry"},
         retry[c][k] = "timer" => retry'[c][k] = "timer",
         backend'[c].served => backend[c].served, lapsed \subseteq lapsed'
  PROVE  OnItsWay(c, k) => OnItsWay(c, k)'
<1>1. ASSUME NEW w \in {"counts", "retry"}, Fetch(c, k, w) \in fetches
      PROVE Fetch(c, k, w) \in fetches'
  <2>1. Fetch(c, k, w).c = c /\ Fetch(c, k, w).k = k /\ Fetch(c, k, w).what = w
    BY DEF Fetch
  <2> QED
    BY <1>1, <2>1
<1> QED
  BY <1>1 DEF OnItsWay

\* A node is laid out, if it is there.
LEMMA LaidNode ==
  ASSUME NEW n \in TreeNodes, NEW k, NEW es, NEW new \in Counts, NEW counted
  PROVE  LET m == Laid(n, k, es, new, counted) IN
         /\ m \in TreeNodes /\ m.there = n.there
         /\ ~n.there => m = n
         /\ n.there => m.kids /\ (m.exp <=> k \in es) /\ m.count = KeepKnownCounts(n.count, new, counted)
<1>1. KeepKnownCounts(n.count, new, counted) \in Counts
  BY DEF KeepKnownCounts, TreeNodes
<1> DEFINE e == k \in es
<1>2. e \in BOOLEAN
  OBVIOUS
<1>3. ASSUME n.there
      PROVE Laid(n, k, es, new, counted)
              = [n EXCEPT !.kids = TRUE, !.exp = e, !.count = KeepKnownCounts(n.count, new, counted)]
  BY <1>3 DEF Laid
<1>4. ~n.there => Laid(n, k, es, new, counted) = n
  BY DEF Laid
<1> HIDE DEF e
<1>5. ASSUME n.there
      PROVE  LET m == Laid(n, k, es, new, counted) IN
             /\ m \in TreeNodes /\ m.there = n.there
             /\ m.kids /\ m.exp = e /\ m.count = KeepKnownCounts(n.count, new, counted)
  BY <1>1, <1>2, <1>3, <1>5 DEF TreeNodes
<1> QED
  BY <1>4, <1>5 DEF e

\* So it is without a new number.
LEMMA LaidBlank ==
  ASSUME NEW n \in TreeNodes, NEW k, NEW es
  PROVE  LET m == Laid(n, k, es, NoCount, FALSE) IN
         /\ m \in TreeNodes /\ m.there = n.there
         /\ ~n.there => m = n
         /\ n.there => m.kids /\ (m.exp <=> k \in es) /\ m.count = n.count
<1> DEFINE e == k \in es
<1>1. e \in BOOLEAN
  OBVIOUS
<1>2. ASSUME n.there
      PROVE Laid(n, k, es, NoCount, FALSE) = [n EXCEPT !.kids = TRUE, !.exp = e, !.count = n.count]
  BY <1>2 DEF Laid, KeepKnownCounts
<1>3. ~n.there => Laid(n, k, es, NoCount, FALSE) = n
  BY DEF Laid
<1> HIDE DEF e
<1>4. ASSUME n.there
      PROVE  LET m == Laid(n, k, es, NoCount, FALSE) IN
             /\ m \in TreeNodes /\ m.there = n.there
             /\ m.kids /\ m.exp = e /\ m.count = n.count
  BY <1>1, <1>2, <1>4 DEF TreeNodes
<1> QED
  BY <1>3, <1>4 DEF e

\* One category changes, the others keep what they have.
LEMMA OneChanges ==
  ASSUME SideInv, NEW c \in SideClusters, NEW k \in Categories, NEW v \in TreeNodes,
         nodes' = [nodes EXCEPT ![c][k] = v], opened' = opened, present' = present,
         \A d \in SideClusters, j \in Categories :
            d # c \/ j # k => /\ j \in expanded'[d] <=> j \in expanded[d]
                              /\ OnItsWay(d, j) => OnItsWay(d, j)',
         IF c \in opened THEN v.there => (v.exp <=> k \in expanded'[c])
                         ELSE k \notin expanded'[c] /\ v = NoNode,
         (v.kids => v.there) /\ (v.there => k \in present),
         v.kids /\ v.count = NoCount =>
            OnItsWay(c, k)' /\ (nodes[c][k].kids /\ nodes[c][k].count # NoCount
                                  => backend[c].up /\ ~backend[c].served)
  PROVE  nodes' \in [SideClusters -> [Categories -> TreeNodes]] /\ NodesKept
<1>1. /\ nodes' \in [SideClusters -> [Categories -> TreeNodes]] /\ nodes'[c][k] = v
      /\ \A d \in SideClusters, j \in Categories : d # c \/ j # k => nodes'[d][j] = nodes[d][j]
  <2>1. nodes \in [SideClusters -> [Categories -> TreeNodes]]
    BY DEF SideInv, SideTypeOK
  <2> QED
    BY <2>1
<1>2. ASSUME NEW d \in SideClusters, NEW j \in Categories, d # c \/ j # k PROVE NodeKept(d, j)
  BY <1>1, <1>2, NodeUntouched
<1>3. NodeKept(c, k)
  BY <1>1 DEF NodeKept
<1> QED
  BY <1>1, <1>2, <1>3 DEF NodesKept

\* So it is when a category is laid out: it keeps the number it has, or gets
\* the new one.
LEMMA LaidKeeps ==
  ASSUME SideInv, NEW c \in opened, NEW k \in Categories, NEW v \in TreeNodes,
         nodes' = [nodes EXCEPT ![c][k] = v], opened' = opened, present' = present,
         \A d \in SideClusters, j \in Categories :
            d # c \/ j # k => /\ j \in expanded'[d] <=> j \in expanded[d]
                              /\ OnItsWay(d, j) => OnItsWay(d, j)',
         v.there = nodes[c][k].there, ~v.there => v = nodes[c][k],
         v.there => v.kids /\ (v.exp <=> k \in expanded'[c]),
         v.there /\ v.count = NoCount =>
            OnItsWay(c, k)' /\ (nodes[c][k].count # NoCount => backend[c].up /\ ~backend[c].served)
  PROVE  nodes' \in [SideClusters -> [Categories -> TreeNodes]] /\ NodesKept
<1>1. PICK n \in TreeNodes : n = nodes[c][k]
  BY DEF SideInv, SideTypeOK
<1>2. (n.kids => n.there) /\ (n.there => k \in present) /\ c \in SideClusters
  BY <1>1 DEF SideInv, SideTypeOK, ChildrenAreShown
<1>3. /\ v.there => (v.exp <=> k \in expanded'[c])
      /\ (v.kids => v.there) /\ (v.there => k \in present)
      /\ v.kids /\ v.count = NoCount =>
            OnItsWay(c, k)' /\ (n.kids /\ n.count # NoCount => backend[c].up /\ ~backend[c].served)
  BY <1>1, <1>2
<1> QED
  BY <1>1, <1>2, <1>3, OneChanges

\* A category is expanded and laid out without a new number.
LaysOut(c, k) ==
  /\ expanded' = [expanded EXCEPT ![c] = expanded[c] \cup {k}]
  /\ nodes' = [nodes EXCEPT ![c][k] = Laid(@, k, expanded[c] \cup {k}, NoCount, FALSE)]
LEMMA LaysOutKeeps ==
  ASSUME SideInv, NEW c \in opened, NEW k \in Categories, LaysOut(c, k),
         opened' = opened, present' = present, OnItsWay(c, k)',
         \A d \in SideClusters, j \in Categories :
            d # c \/ j # k => (OnItsWay(d, j) => OnItsWay(d, j)')
  PROVE  /\ nodes' \in [SideClusters -> [Categories -> TreeNodes]]
         /\ expanded' \in [SideClusters -> SUBSET Categories]
         /\ NodesKept
<1>0. c \in SideClusters /\ SideTypeOK
  BY DEF SideInv, SideTypeOK
<1>1. PICK n \in TreeNodes, es \in SUBSET Categories : n = nodes[c][k] /\ es = expanded[c] \cup {k}
  BY <1>0 DEF SideTypeOK
<1> DEFINE v == Laid(n, k, es, NoCount, FALSE)
<1>2. expanded' = [expanded EXCEPT ![c] = es] /\ nodes' = [nodes EXCEPT ![c][k] = v]
  BY <1>1 DEF LaysOut
<1>3. /\ v \in TreeNodes /\ v.there = n.there /\ (~n.there => v = n)
      /\ n.there => v.kids /\ (v.exp <=> k \in es) /\ v.count = n.count
  BY LaidBlank
<1> HIDE DEF v
<1>4. /\ expanded' \in [SideClusters -> SUBSET Categories] /\ expanded'[c] = es
      /\ \A d \in SideClusters, j \in Categories :
            d # c \/ j # k => (j \in expanded'[d] <=> j \in expanded[d])
  BY <1>0, <1>1, <1>2 DEF SideTypeOK
<1>5. v.there = nodes[c][k].there /\ (~v.there => v = nodes[c][k]) /\ nodes' = [nodes EXCEPT ![c][k] = v]
      /\ (v.there => v.kids /\ (v.exp <=> k \in expanded'[c]))
      /\ (v.there /\ v.count = NoCount => OnItsWay(c, k)' /\ nodes[c][k].count = NoCount)
  BY <1>1, <1>2, <1>3, <1>4
<1>6. nodes' \in [SideClusters -> [Categories -> TreeNodes]] /\ NodesKept
  BY <1>3, <1>4, <1>5, LaidKeeps
<1> QED
  BY <1>4, <1>6

\* A category is laid out and counted.
LEMMA PlaceholdersKeep ==
  ASSUME SideInv, NEW c \in opened, NEW k \in Categories, Placeholders(c, k),
         opened' = opened, present' = present, backend' = backend, lapsed' = lapsed,
         \A d \in SideClusters, j \in Categories : d # c \/ j # k => retry'[d][j] = retry[d][j]
  PROVE  /\ nodes' \in [SideClusters -> [Categories -> TreeNodes]]
         /\ expanded' \in [SideClusters -> SUBSET Categories]
         /\ fetches' \subseteq FetchRecord
         /\ NodesKept
<1>0. c \in SideClusters /\ SideTypeOK
  BY DEF SideInv, SideTypeOK
<1>1. LaysOut(c, k) /\ fetches' = fetches \cup {Fetch(c, k, "counts")}
  BY DEF Placeholders, LaysOut
<1>2. fetches' \subseteq FetchRecord
  BY <1>0, <1>1 DEF SideTypeOK, FetchRecord, Fetch
<1>3. OnItsWay(c, k)'
  BY <1>1 DEF OnItsWay
<1>4. ASSUME NEW d \in SideClusters, NEW j \in Categories, d # c \/ j # k
      PROVE OnItsWay(d, j) => OnItsWay(d, j)'
  BY <1>1, <1>4, StillOnItsWay
<1> QED
  BY <1>1, <1>2, <1>3, <1>4, LaysOutKeeps

\* Only the requests grow.
LEMMA AskedMore ==
  ASSUME SideInv, UNCHANGED <<nodes, expanded>>, opened' = opened, present' = present,
         \A c \in SideClusters, k \in Categories :
            nodes[c][k].kids /\ nodes[c][k].count = NoCount /\ OnItsWay(c, k) => OnItsWay(c, k)'
  PROVE  NodesKept
<1> SUFFICES ASSUME NEW c \in SideClusters, NEW k \in Categories PROVE NodeKept(c, k)
  BY DEF NodesKept
<1>1. CASE c \in opened
  BY <1>1 DEF SideInv, ChildrenAreShown, ExpansionAgrees, NumbersComeBack, NodeKept
<1>2. CASE c \notin opened
  BY <1>2 DEF SideInv, ClosedIsEmpty, ChildrenAreShown, NumbersComeBack, NodeKept
<1> QED
  BY <1>1, <1>2

\* A category is expanded, for a click, a load or a retry.
LEMMA ExpandKeeps ==
  ASSUME SideInv, NEW c \in opened, NEW k \in Categories,
         NEW for \in {"click", "load", "again", "retry"}, ExpandNode(c, k, for),
         opened' = opened, present' = present, backend' = backend, lapsed' = lapsed,
         \A d \in SideClusters, j \in Categories : d # c \/ j # k => retry'[d][j] = retry[d][j],
         for = "retry" \/ retry' = retry
  PROVE  /\ nodes' \in [SideClusters -> [Categories -> TreeNodes]]
         /\ expanded' \in [SideClusters -> SUBSET Categories]
         /\ fetches' \subseteq FetchRecord
         /\ NodesKept
<1>1. CASE k \in Predefined
  BY <1>1, PlaceholdersKeep DEF ExpandNode
<1>2. CASE k \notin Predefined
  <2>0. c \in SideClusters /\ SideTypeOK
    BY DEF SideInv, SideTypeOK
  <2>1. fetches' = fetches \cup {Fetch(c, k, for)} /\ UNCHANGED <<nodes, expanded>>
    BY <1>2 DEF ExpandNode, treeVars
  <2>2. fetches' \subseteq FetchRecord
    BY <2>0, <2>1 DEF SideTypeOK, FetchRecord, Fetch
  <2>3. ASSUME NEW d \in SideClusters, NEW j \in Categories PROVE OnItsWay(d, j) => OnItsWay(d, j)'
    <3>1. CASE d = c /\ j = k /\ for = "retry"
      BY <2>1, <3>1 DEF OnItsWay
    <3>2. CASE ~(d = c /\ j = k /\ for = "retry")
      BY <2>1, <3>2, StillOnItsWay
    <3> QED
      BY <3>1, <3>2
  <2>4. NodesKept
    BY <2>1, <2>3, AskedMore
  <2> QED
    BY <2>0, <2>1, <2>2, <2>4 DEF SideTypeOK
<1> QED
  BY <1>1, <1>2

\* What the user does with a category.
LEMMA ClickKeeps == ASSUME SideInv, NEW k \in present, ClickNode(k) PROVE SideTypeOK' /\ NodesKept
<1>0. SideTypeOK /\ k \in Categories /\ front \in opened /\ front \in SideClusters
  BY DEF SideInv, SideTypeOK
<1>1. PICK n \in TreeNodes : n = nodes[front][k] /\ n.there
  BY <1>0 DEF ClickNode, SideTypeOK
<1>2. UNCHANGED <<opened, front, loads, joined, retry, pushTimer, backend, present, pushed, lapsed>>
  BY DEF ClickNode, SideClick
<1>3. CASE Placeholders(front, k)
  BY <1>0, <1>2, <1>3, PlaceholdersKeep DEF SideTypeOK
<1>4. CASE ~Placeholders(front, k)
  <2>1. Toggled(k) /\ (fetches' = fetches \/ fetches' = fetches \cup {Fetch(front, k, "click")})
    BY <1>4 DEF ClickNode
  <2>2. PICK c \in opened : c = front
    BY <1>0
  <2> DEFINE v == [n EXCEPT !.exp = ~@]
             e == IF k \in expanded[c] THEN expanded[c] \ {k} ELSE expanded[c] \cup {k}
  <2>3. nodes' = [nodes EXCEPT ![c][k] = v] /\ expanded' = [expanded EXCEPT ![c] = e]
    <3>1. /\ nodes' = [nodes EXCEPT ![c][k].exp = ~@]
          /\ expanded' = [expanded EXCEPT ![c] = IF k \in @ THEN @ \ {k} ELSE @ \cup {k}]
      BY <2>1, <2>2 DEF Toggled
    <3> QED
      BY <1>1, <2>2, <3>1
  <2>4. v \in TreeNodes /\ v.there = n.there /\ v.kids = n.kids /\ v.count = n.count /\ (v.exp <=> ~n.exp)
    BY <1>1 DEF TreeNodes
  <2>5. c \in SideClusters /\ e \in SUBSET Categories
    BY <1>0, <2>2 DEF SideTypeOK
  <2>6. k \in e <=> k \notin expanded[c]
    OBVIOUS
  <2>7. \A j \in Categories \ {k} : j \in e <=> j \in expanded[c]
    OBVIOUS
  <2> HIDE DEF v, e
  <2>8. /\ expanded' \in [SideClusters -> SUBSET Categories] /\ expanded'[c] = e
        /\ \A d \in SideClusters, j \in Categories :
              d # c \/ j # k => (j \in expanded'[d] <=> j \in expanded[d])
    BY <1>0, <2>3, <2>5, <2>7 DEF SideTypeOK
  <2>9. ASSUME NEW d \in SideClusters, NEW j \in Categories PROVE OnItsWay(d, j) => OnItsWay(d, j)'
    BY <1>2, <2>1, StillOnItsWay
  <2>10. /\ n.exp <=> k \in expanded[c]
         /\ (n.kids => n.there) /\ (n.there => k \in present)
         /\ n.kids /\ n.count = NoCount => OnItsWay(c, k)
    BY <1>0, <1>1, <2>2, <2>5 DEF SideInv, ExpansionAgrees, ChildrenAreShown, NumbersComeBack
  <2>11. nodes' \in [SideClusters -> [Categories -> TreeNodes]] /\ NodesKept
    <3>1. /\ v.there => (v.exp <=> k \in expanded'[c])
          /\ (v.kids => v.there) /\ (v.there => k \in present)
          /\ v.kids /\ v.count = NoCount => OnItsWay(c, k)' /\ nodes[c][k].count = NoCount
      BY <1>0, <1>1, <2>2, <2>4, <2>5, <2>6, <2>8, <2>9, <2>10
    <3>2. \A d \in SideClusters, j \in Categories :
             d # c \/ j # k => /\ j \in expanded'[d] <=> j \in expanded[d]
                               /\ OnItsWay(d, j) => OnItsWay(d, j)'
      BY <2>8, <2>9
    <3>3. /\ IF c \in opened THEN v.there => (v.exp <=> k \in expanded'[c])
                              ELSE k \notin expanded'[c] /\ v = NoNode
          /\ v.kids /\ v.count = NoCount =>
               OnItsWay(c, k)' /\ (nodes[c][k].kids /\ nodes[c][k].count # NoCount
                                     => backend[c].up /\ ~backend[c].served)
      BY <2>2, <3>1
    <3>4. opened' = opened /\ present' = present /\ nodes' = [nodes EXCEPT ![c][k] = v]
      BY <1>2, <2>3
    <3> QED
      BY <1>0, <2>4, <2>5, <3>1, <3>2, <3>3, <3>4, OneChanges
  <2>12. fetches' \subseteq FetchRecord
    BY <1>0, <2>1 DEF SideTypeOK, FetchRecord, Fetch
  <2> QED
    BY <1>0, <1>2, <2>8, <2>11, <2>12 DEF SideTypeOK
<1> QED
  BY <1>3, <1>4

\* A load begins, or the one under way is joined.
LEMMA LoadType ==
  ASSUME SideTypeOK, NEW c \in SideClusters,
         LoadTree(c) \/ loads' = loads \cup {[c |-> c, step |-> "cats", todo |-> expanded[c]]}
  PROVE  loads' \subseteq LoadRecord
<1>1. [c |-> c, step |-> "cats", todo |-> expanded[c]] \in LoadRecord
  BY DEF SideTypeOK, LoadRecord
<1> QED
  BY <1>1 DEF LoadTree, SideTypeOK

\* Another cluster is shown, opened or closed, or its tree loaded again.
LEMMA TabsKeepTree ==
  ASSUME SideInv, NEW c \in SideClusters,
         ShowCluster(c) \/ RetryTree(c) \/ OpenClusterTab(c) \/ CloseCluster(c)
  PROVE  SideTypeOK' /\ NodesKept
<1>0. SideTypeOK
  BY DEF SideInv
<1>1. UNCHANGED <<fetches, retry, pushed, backend, present, lapsed>>
  BY DEF ShowCluster, RetryTree, OpenClusterTab, CloseCluster, SideClick
<1>2. \A d \in SideClusters, j \in Categories : OnItsWay(d, j) => OnItsWay(d, j)'
  BY <1>1 DEF OnItsWay
<1>3. CASE ShowCluster(c) \/ RetryTree(c)
  <2>1. UNCHANGED <<opened, nodes, expanded>> /\ front' \in opened
    BY <1>0, <1>3 DEF ShowCluster, RetryTree, SideTypeOK
  <2>2. loads' \subseteq LoadRecord
    BY <1>0, <1>3, LoadType DEF ShowCluster, RetryTree
  <2>3. NodesKept
    BY <1>1, <1>2, <2>1, AskedMore
  <2> QED
    BY <1>0, <1>1, <2>1, <2>2, <2>3 DEF SideTypeOK
<1>4. CASE OpenClusterTab(c)
  <2>1. UNCHANGED <<nodes, expanded>> /\ opened' = opened \cup {c} /\ front' = c /\ c \notin opened
    BY <1>4 DEF OpenClusterTab
  <2>2. loads' \subseteq LoadRecord
    BY <1>0, <1>4, LoadType DEF OpenClusterTab
  <2>3. ASSUME NEW d \in SideClusters, NEW j \in Categories PROVE NodeKept(d, j)
    <3>1. CASE d # c
      BY <1>1, <1>2, <2>1, <3>1, NodeUntouched
    <3>2. CASE d = c
      <4>1. nodes'[c][j] = NoNode /\ ~NoNode.there /\ ~NoNode.kids
        BY <2>1 DEF SideInv, ClosedIsEmpty, NoNode
      <4> QED
        BY <2>1, <3>2, <4>1 DEF NodeKept
    <3> QED
      BY <3>1, <3>2
  <2> QED
    BY <1>0, <1>1, <2>1, <2>2, <2>3 DEF SideTypeOK, NodesKept
<1>5. CASE CloseCluster(c)
  <2>1. /\ c \in opened \ {front} /\ opened' = opened \ {c} /\ UNCHANGED <<front, loads>>
        /\ nodes' = [nodes EXCEPT ![c] = [k \in Categories |-> NoNode]]
        /\ expanded' = [expanded EXCEPT ![c] = {}]
    BY <1>5 DEF CloseCluster
  <2>2. NoNode \in TreeNodes /\ ~NoNode.there /\ ~NoNode.kids
    BY DEF NoNode, TreeNodes, Counts
  <2>3. /\ nodes' \in [SideClusters -> [Categories -> TreeNodes]]
        /\ expanded' \in [SideClusters -> SUBSET Categories]
        /\ expanded'[c] = {} /\ \A j \in Categories : nodes'[c][j] = NoNode
        /\ \A d \in SideClusters \ {c} : nodes'[d] = nodes[d] /\ expanded'[d] = expanded[d]
    BY <1>0, <2>1, <2>2 DEF SideTypeOK
  <2>4. ASSUME NEW d \in SideClusters, NEW j \in Categories PROVE NodeKept(d, j)
    <3>1. CASE d # c
      BY <1>1, <1>2, <2>1, <2>3, <3>1, NodeUntouched
    <3>2. CASE d = c
      BY <2>1, <2>2, <2>3, <3>2 DEF NodeKept
    <3> QED
      BY <3>1, <3>2
  <2> QED
    BY <1>0, <1>1, <2>1, <2>3, <2>4 DEF SideTypeOK, NodesKept
<1> QED
  BY <1>3, <1>4, <1>5

\* A node laid out anew with its category.
LEMMA RelaidNode ==
  ASSUME NEW n \in TreeNodes, NEW k, NEW es
  PROVE  LET m == Relaid(n, k, es) IN
         /\ m \in TreeNodes /\ (m.there <=> k \in present) /\ (m.exp <=> k \in es)
         /\ m.kids <=> (k \in es /\ n.kids)
         /\ m.kids => m.count = n.count
<1> DEFINE p == k \in present
           e == k \in es
           q == k \in es /\ n.kids
           x == IF q THEN n.count ELSE NoCount
<1>1. p \in BOOLEAN /\ e \in BOOLEAN /\ q \in BOOLEAN /\ x \in Counts
  BY DEF TreeNodes, Counts
<1>2. Relaid(n, k, es) = [NoNode EXCEPT !.there = p, !.exp = e, !.kids = q, !.count = x]
  BY DEF Relaid
<1>3. q => x = n.count
  OBVIOUS
<1> HIDE DEF p, e, q, x
<1>4. LET m == Relaid(n, k, es) IN
      /\ m \in TreeNodes /\ m.there = p /\ m.exp = e /\ m.kids = q /\ m.count = x
  BY <1>1, <1>2 DEF TreeNodes, NoNode
<1> QED
  BY <1>3, <1>4 DEF p, e, q

\* A load goes on.
LEMMA LoadsKeep ==
  ASSUME SideInv, NEW l \in loads,
         CategoriesArrive(l) \/ CategoriesFail(l) \/ LoadDone(l) \/ \E k \in l.todo : ExpandNext(l, k)
  PROVE  SideTypeOK' /\ NodesKept
<1>0. SideTypeOK /\ l \in LoadRecord /\ l.c \in SideClusters
  BY DEF SideInv, SideTypeOK, LoadRecord
<1>1. UNCHANGED <<opened, front, retry, pushed, backend, present, lapsed>>
  BY DEF CategoriesArrive, CategoriesFail, LoadDone, ExpandNext, worldVars
<1>2. ASSUME fetches \subseteq fetches', NEW d \in SideClusters, NEW j \in Categories
      PROVE OnItsWay(d, j) => OnItsWay(d, j)'
  BY <1>1, <1>2, StillOnItsWay
<1>3. CASE CategoriesFail(l) \/ LoadDone(l)
  <2>1. UNCHANGED <<nodes, expanded, fetches>> /\ loads' \subseteq loads
    BY <1>3 DEF CategoriesFail, LoadDone, EndLoad
  <2>2. NodesKept
    BY <1>1, <1>2, <2>1, AskedMore
  <2> QED
    BY <1>0, <1>1, <2>1, <2>2 DEF SideTypeOK
<1>4. CASE CategoriesArrive(l)
  <2>1. loads' \subseteq LoadRecord /\ expanded' = expanded
    BY <1>0, <1>4 DEF CategoriesArrive, SideTypeOK, LoadRecord
  <2>2. CASE l.c \notin opened
    <3>1. UNCHANGED <<nodes, fetches>>
      BY <1>4, <2>2 DEF CategoriesArrive
    <3>2. NodesKept
      BY <1>1, <1>2, <2>1, <3>1, AskedMore
    <3> QED
      BY <1>0, <1>1, <2>1, <3>1, <3>2 DEF SideTypeOK
  <2>3. CASE l.c \in opened
    <3>1. PICK c \in SideClusters, es \in SUBSET Categories : c = l.c /\ es = expanded[c]
      BY <1>0 DEF SideTypeOK
    <3>2. /\ nodes' = [nodes EXCEPT ![c] = [k \in Categories |-> Relaid(nodes[c][k], k, es)]]
          /\ fetches' = fetches \cup {Fetch(c, k, "detect") : k \in Listed \cap present}
      BY <1>4, <2>3, <3>1 DEF CategoriesArrive
    <3>3. fetches' \subseteq FetchRecord
      BY <1>0, <3>2 DEF SideTypeOK, FetchRecord, Fetch, Categories
    <3>4. \A k \in Categories : nodes[c][k] \in TreeNodes
      BY <1>0 DEF SideTypeOK
    <3>5. \A k \in Categories : Relaid(nodes[c][k], k, es) \in TreeNodes
      BY <3>4, RelaidNode
    <3>6. /\ nodes' \in [SideClusters -> [Categories -> TreeNodes]]
          /\ \A k \in Categories : nodes'[c][k] = Relaid(nodes[c][k], k, es)
          /\ \A d \in SideClusters \ {c} : nodes'[d] = nodes[d]
      BY <1>0, <3>2, <3>5 DEF SideTypeOK
    <3>7. ASSUME NEW d \in SideClusters, NEW j \in Categories PROVE NodeKept(d, j)
      <4>1. CASE d # c
        BY <1>1, <1>2, <2>1, <3>2, <3>6, <4>1, NodeUntouched
      <4>2. CASE d = c
        <5>1. PICK n \in TreeNodes, m \in TreeNodes : n = nodes[c][j] /\ m = Relaid(n, j, es)
          BY <3>4, <3>5
        <5>2. /\ (m.there <=> j \in present) /\ (m.exp <=> j \in es)
              /\ m.kids => n.kids /\ m.count = n.count
          BY <5>1, RelaidNode
        <5>3. n.kids => j \in present
          BY <5>1 DEF SideInv, ChildrenAreShown
        <5>4. n.kids /\ n.count = NoCount => OnItsWay(c, j)'
          BY <1>2, <3>2, <5>1 DEF SideInv, NumbersComeBack
        <5> QED
          BY <1>1, <2>1, <2>3, <3>1, <3>6, <4>2, <5>1, <5>2, <5>3, <5>4 DEF NodeKept
      <4> QED
        BY <4>1, <4>2
    <3> QED
      BY <1>0, <1>1, <2>1, <3>3, <3>6, <3>7 DEF SideTypeOK, NodesKept
  <2> QED
    BY <2>2, <2>3
<1>5. ASSUME NEW k \in l.todo, ExpandNext(l, k) PROVE SideTypeOK' /\ NodesKept
  <2> DEFINE rest == [l EXCEPT !.todo = @ \ {k}]
  <2>0. k \in Categories
    BY <1>0 DEF LoadRecord
  <2>1. rest \in LoadRecord /\ [rest EXCEPT !.step = "wait"] \in LoadRecord
    BY <1>0 DEF LoadRecord
  <2>2. loads' \subseteq LoadRecord
    BY <1>0, <1>5, <2>1 DEF ExpandNext, EndLoad, SideTypeOK
  <2> HIDE DEF rest
  <2>3. CASE UNCHANGED <<nodes, expanded, fetches>>
    <3>1. NodesKept
      BY <1>1, <1>2, <2>3, AskedMore
    <3> QED
      BY <1>0, <1>1, <2>2, <2>3, <3>1 DEF SideTypeOK
  <2>4. CASE ~UNCHANGED <<nodes, expanded, fetches>>
    <3>1. l.c \in opened /\ (ExpandNode(l.c, k, "again") \/ ExpandNode(l.c, k, "load"))
      BY <1>5, <2>4 DEF ExpandNext
    <3>2. /\ nodes' \in [SideClusters -> [Categories -> TreeNodes]]
          /\ expanded' \in [SideClusters -> SUBSET Categories]
          /\ fetches' \subseteq FetchRecord /\ NodesKept
      BY <1>1, <2>0, <3>1, ExpandKeeps
    <3> QED
      BY <1>0, <1>1, <2>2, <3>2 DEF SideTypeOK
  <2> QED
    BY <2>3, <2>4
<1> QED
  BY <1>3, <1>4, <1>5

\* The integrations are looked for.
LEMMA DetectKeeps == ASSUME SideInv, NEW f \in fetches, Detected(f) PROVE SideTypeOK' /\ NodesKept
<1>0. SideTypeOK
  BY DEF SideInv
<1>1. PICK c \in SideClusters, k \in Categories, n \in TreeNodes : c = f.c /\ k = f.k /\ n = nodes[c][k]
  BY <1>0 DEF SideTypeOK, FetchRecord
<1>2. UNCHANGED <<opened, front, expanded, loads, retry, pushed, backend, present, lapsed>>
      /\ fetches' = fetches \ {f} /\ f.what = "detect"
  BY DEF Detected, worldVars
<1> DEFINE b == n.there /\ ~(backend[c].up /\ backend[c].n > 0)
           v == [n EXCEPT !.off = b]
<1>3. b \in BOOLEAN /\ (~n.there => b = FALSE)
  OBVIOUS
<1>4. nodes' = [nodes EXCEPT ![c][k] = v]
  <2>1. nodes' = [nodes EXCEPT ![c][k].off = nodes[c][k].there /\ ~(backend[c].up /\ backend[c].n > 0)]
    BY <1>1 DEF Detected
  <2> QED
    BY <1>1, <2>1
<1> HIDE DEF b
<1>5. /\ v \in TreeNodes /\ v.there = n.there /\ v.kids = n.kids /\ v.count = n.count /\ v.exp = n.exp
      /\ n = NoNode => v = NoNode
  <2>1. /\ v \in TreeNodes /\ v.there = n.there /\ v.kids = n.kids /\ v.count = n.count /\ v.exp = n.exp
    BY <1>3 DEF TreeNodes
  <2>2. ASSUME n = NoNode PROVE v = NoNode
    <3>1. b = FALSE
      BY <1>3, <2>2 DEF NoNode
    <3>2. n.off = FALSE
      BY <2>2 DEF NoNode
    <3>3. v = n
      BY <3>1, <3>2 DEF TreeNodes
    <3> QED
      BY <2>2, <3>3
  <2> QED
    BY <2>1, <2>2
<1> HIDE DEF v
<1>6. \A d \in SideClusters, j \in Categories : /\ j \in expanded'[d] <=> j \in expanded[d]
                                                /\ OnItsWay(d, j) => OnItsWay(d, j)'
  <2>1. ASSUME NEW d \in SideClusters, NEW j \in Categories PROVE OnItsWay(d, j) => OnItsWay(d, j)'
    BY <1>2, StillOnItsWay
  <2> QED
    BY <1>2, <2>1
<1>7. /\ (v.kids => v.there) /\ (v.there => k \in present)
      /\ v.kids /\ v.count = NoCount => OnItsWay(c, k)' /\ nodes[c][k].count = NoCount
  BY <1>1, <1>5, <1>6 DEF SideInv, ChildrenAreShown, NumbersComeBack
<1>8. IF c \in opened THEN v.there => (v.exp <=> k \in expanded'[c])
                      ELSE k \notin expanded'[c] /\ v = NoNode
  BY <1>1, <1>2, <1>5 DEF SideInv, ExpansionAgrees, ClosedIsEmpty
<1>9. nodes' \in [SideClusters -> [Categories -> TreeNodes]] /\ NodesKept
  BY <1>2, <1>4, <1>5, <1>6, <1>7, <1>8, OneChanges
<1> QED
  BY <1>0, <1>2, <1>9 DEF SideTypeOK

\* The resources of a listed category arrive, or cannot be read.
LEMMA ResourcesKeep ==
  ASSUME SideInv, NEW f \in fetches, ResourcesArrive(f) \/ ResourcesFail(f)
  PROVE  SideTypeOK' /\ NodesKept
<1>0. SideTypeOK
  BY DEF SideInv
<1>1. PICK c \in SideClusters, k \in Categories : c = f.c /\ k = f.k
  BY <1>0 DEF SideTypeOK, FetchRecord
<1>2. UNCHANGED <<opened, front, pushed, backend, present, lapsed>>
      /\ f.what \in {"click", "load", "again", "retry"}
  BY DEF ResourcesArrive, ResourcesFail, worldVars
<1>3. loads' \subseteq LoadRecord
  <2>1. \A l \in Waiting(f) : [l EXCEPT !.step = "expand"] \in LoadRecord
    BY <1>0 DEF SideTypeOK, Waiting, LoadRecord
  <2>2. \/ loads' \subseteq loads
        \/ loads' = (loads \ Waiting(f)) \cup {[l EXCEPT !.step = "expand"] : l \in Waiting(f)}
    BY DEF ResourcesArrive, ResourcesFail
  <2> QED
    BY <1>0, <2>1, <2>2 DEF SideTypeOK
<1>4. CASE ResourcesArrive(f) /\ c \in opened
  <2>1. LaysOut(c, k) /\ fetches' = (fetches \ {f}) \cup {Fetch(c, k, "counts")} /\ retry' = retry
    BY <1>1, <1>4 DEF ResourcesArrive, LaysOut
  <2>2. fetches' \subseteq FetchRecord
    BY <1>0, <2>1 DEF SideTypeOK, FetchRecord, Fetch
  <2>3. OnItsWay(c, k)'
    BY <2>1 DEF OnItsWay
  <2>4. ASSUME NEW d \in SideClusters, NEW j \in Categories, d # c \/ j # k
        PROVE OnItsWay(d, j) => OnItsWay(d, j)'
    BY <1>1, <1>2, <2>1, <2>4, StillOnItsWay
  <2>5. /\ nodes' \in [SideClusters -> [Categories -> TreeNodes]]
        /\ expanded' \in [SideClusters -> SUBSET Categories] /\ NodesKept
    BY <1>2, <1>4, <2>1, <2>3, <2>4, LaysOutKeeps
  <2> QED
    BY <1>0, <1>2, <1>3, <2>1, <2>2, <2>5 DEF SideTypeOK
<1>5. CASE ResourcesArrive(f) /\ c \notin opened
  <2>1. UNCHANGED <<nodes, expanded, retry>> /\ fetches' = fetches \ {f}
    BY <1>1, <1>5 DEF ResourcesArrive, treeVars
  <2>2. ASSUME NEW d \in SideClusters, NEW j \in Categories, nodes[d][j].kids
        PROVE OnItsWay(d, j) => OnItsWay(d, j)'
    <3>1. ~NoNode.kids
      BY DEF NoNode
    <3>2. d # c
      BY <1>5, <2>2, <3>1 DEF SideInv, ClosedIsEmpty
    <3> QED
      BY <1>1, <1>2, <2>1, <3>2, StillOnItsWay
  <2>3. NodesKept
    BY <1>2, <2>1, <2>2, AskedMore
  <2> QED
    BY <1>0, <1>2, <1>3, <2>1, <2>3 DEF SideTypeOK
<1>6. CASE ResourcesFail(f)
  <2>1. UNCHANGED <<nodes, expanded>> /\ fetches' = fetches \ {f}
        /\ (f.what # "retry" => retry' = retry)
        /\ (f.what = "retry" => retry' = [retry EXCEPT ![c][k] = "timer"])
    BY <1>1, <1>6 DEF ResourcesFail, Settle
  <2>2. /\ retry' \in [SideClusters -> [Categories -> Retries]]
        /\ f.what = "retry" => retry'[c][k] = "timer"
        /\ \A d \in SideClusters, j \in Categories : d # c \/ j # k => retry'[d][j] = retry[d][j]
    <3>1. CASE f.what = "retry"
      <4>1. PICK r \in Retries : r = "timer" /\ retry' = [retry EXCEPT ![c][k] = r]
        BY <2>1, <3>1 DEF Retries
      <4> QED
        BY <1>0, <4>1 DEF SideTypeOK
    <3>2. CASE f.what # "retry"
      BY <1>0, <2>1, <3>2 DEF SideTypeOK
    <3> QED
      BY <3>1, <3>2
  <2>3. ASSUME NEW d \in SideClusters, NEW j \in Categories PROVE OnItsWay(d, j) => OnItsWay(d, j)'
    <3>1. CASE d = c /\ j = k /\ f.what = "retry"
      BY <2>2, <3>1 DEF OnItsWay
    <3>2. CASE ~(d = c /\ j = k /\ f.what = "retry")
      <4>1. retry[d][j] = "timer" => retry'[d][j] = "timer"
        BY <2>1, <2>2, <3>2
      <4> QED
        BY <1>1, <1>2, <2>1, <3>2, <4>1, StillOnItsWay
    <3> QED
      BY <3>1, <3>2
  <2>4. NodesKept
    BY <1>2, <2>1, <2>3, AskedMore
  <2> QED
    BY <1>0, <1>2, <1>3, <2>1, <2>2, <2>4 DEF SideTypeOK
<1> QED
  BY <1>4, <1>5, <1>6

\* The counts arrive, or the request for them fails.
LEMMA CountsKeep ==
  ASSUME SideInv, NEW f \in fetches, CountsArrive(f) \/ CountsFail(f)
  PROVE  SideTypeOK' /\ NodesKept
<1>0. SideTypeOK
  BY DEF SideInv
<1>1. PICK c \in SideClusters, k \in Categories : c = f.c /\ k = f.k
  BY <1>0 DEF SideTypeOK, FetchRecord
<1>2. UNCHANGED <<opened, front, expanded, loads, pushed, backend, present, lapsed>>
      /\ fetches' = fetches \ {f}
  BY DEF CountsArrive, CountsFail, worldVars
<1>3. /\ retry' \in [SideClusters -> [Categories -> Retries]]
      /\ \A d \in SideClusters, j \in Categories : d # c \/ j # k => retry'[d][j] = retry[d][j]
      /\ CountsFail(f) \/ (c \in opened /\ ~backend[c].up) => retry'[c][k] = "timer"
  <2>1. CASE retry' = retry
    <3>1. ~(CountsFail(f) \/ (c \in opened /\ ~backend[c].up)) \/ retry' = [retry EXCEPT ![c][k] = "timer"]
      BY <1>1 DEF CountsArrive, CountsFail, Settle
    <3>2. CASE retry' = [retry EXCEPT ![c][k] = "timer"]
      BY <1>0, <3>2 DEF SideTypeOK, Retries
    <3> QED
      BY <1>0, <2>1, <3>1, <3>2 DEF SideTypeOK
  <2>2. CASE retry' # retry
    <3>1. PICK r \in Retries : /\ retry' = [retry EXCEPT ![c][k] = r]
                               /\ CountsFail(f) \/ ~backend[c].up => r = "timer"
      BY <1>1, <2>2 DEF CountsArrive, CountsFail, Settle, Retries
    <3> QED
      BY <1>0, <3>1 DEF SideTypeOK
  <2> QED
    BY <2>1, <2>2
<1>4. \A d \in SideClusters, j \in Categories : d # c \/ j # k => (OnItsWay(d, j) => OnItsWay(d, j)')
  <2> SUFFICES ASSUME NEW d \in SideClusters, NEW j \in Categories, d # c \/ j # k
               PROVE OnItsWay(d, j) => OnItsWay(d, j)'
    OBVIOUS
  <2> QED
    BY <1>1, <1>2, <1>3, StillOnItsWay
<1>5. CASE CountsArrive(f) /\ c \in opened
  <2>1. PICK n \in TreeNodes, es \in SUBSET Categories, new \in Counts :
           /\ n = nodes[c][k] /\ es = expanded[c]
           /\ new = IF backend[c].up /\ backend[c].served THEN Count(c, backend[c].n) ELSE NoCount
    BY <1>0 DEF SideTypeOK, Counts
  <2>3. /\ backend[c].up \in BOOLEAN /\ backend[c].served \in BOOLEAN
        /\ backend[c].up /\ backend[c].served => new # NoCount
    BY <1>0, <2>1, SideAssumption DEF SideTypeOK, Count
  <2> DEFINE v == Laid(n, k, es, new, backend[c].up)
  <2>2. nodes' = [nodes EXCEPT ![c][k] = v]
    BY <1>1, <1>5, <2>1 DEF CountsArrive
  <2>4. /\ v \in TreeNodes /\ v.there = n.there /\ (~n.there => v = n)
        /\ n.there => v.kids /\ (v.exp <=> k \in es) /\ v.count = KeepKnownCounts(n.count, new, backend[c].up)
    BY LaidNode
  <2> HIDE DEF v
  <2>5. v.there /\ v.count = NoCount =>
            OnItsWay(c, k)' /\ (n.count # NoCount => backend[c].up /\ ~backend[c].served)
    <3>1. CASE backend[c].up
      BY <1>2, <2>3, <2>4, <3>1 DEF KeepKnownCounts, OnItsWay
    <3>2. CASE ~backend[c].up
      <4>1. OnItsWay(c, k)'
        BY <1>3, <1>5, <3>2 DEF OnItsWay
      <4>2. new = NoCount
        BY <2>1, <3>2
      <4> QED
        BY <2>4, <3>2, <4>1, <4>2 DEF KeepKnownCounts
    <3> QED
      BY <3>1, <3>2
  <2>6. /\ v.there = nodes[c][k].there /\ (~v.there => v = nodes[c][k])
        /\ v.there => v.kids /\ (v.exp <=> k \in expanded'[c])
    BY <1>2, <2>1, <2>4
  <2>7. nodes' \in [SideClusters -> [Categories -> TreeNodes]] /\ NodesKept
    BY <1>2, <1>4, <1>5, <2>1, <2>2, <2>4, <2>5, <2>6, LaidKeeps
  <2> QED
    BY <1>0, <1>2, <1>3, <2>7 DEF SideTypeOK
<1>6. CASE CountsFail(f) \/ c \notin opened
  <2>1. nodes' = nodes
    BY <1>1, <1>6 DEF CountsArrive, CountsFail
  <2>2. ASSUME NEW d \in SideClusters, NEW j \in Categories, nodes[d][j].kids
        PROVE OnItsWay(d, j) => OnItsWay(d, j)'
    <3>1. CASE CountsFail(f)
      <4>1. OnItsWay(c, k)'
        BY <1>3, <3>1 DEF OnItsWay
      <4> QED
        BY <1>4, <4>1
    <3>2. CASE c \notin opened
      <4>1. ~NoNode.kids
        BY DEF NoNode
      <4>2. d # c
        BY <2>2, <3>2, <4>1 DEF SideInv, ClosedIsEmpty
      <4> QED
        BY <1>4, <4>2
    <3> QED
      BY <1>6, <3>1, <3>2
  <2>3. NodesKept
    BY <1>2, <2>1, <2>2, AskedMore
  <2> QED
    BY <1>0, <1>2, <1>3, <2>1, <2>3 DEF SideTypeOK
<1> QED
  BY <1>5, <1>6

\* A retry is due.
LEMMA RetryKeeps ==
  ASSUME SideInv, NEW c \in SideClusters, NEW k \in Categories, FireRetry(c, k)
  PROVE  SideTypeOK' /\ NodesKept
<1>0. SideTypeOK
  BY DEF SideInv
<1>1. UNCHANGED <<opened, front, loads, pushed, backend, present>>
  BY DEF FireRetry, worldVars
<1>2. PICK r \in Retries : retry' = [retry EXCEPT ![c][k] = r]
  BY DEF FireRetry, Settle, Retries
<1>3. /\ retry' \in [SideClusters -> [Categories -> Retries]]
      /\ \A d \in SideClusters, j \in Categories : d # c \/ j # k => retry'[d][j] = retry[d][j]
  BY <1>0, <1>2 DEF SideTypeOK
<1>4. CASE c \in opened /\ k \in expanded[c]
  <2>1. ExpandNode(c, k, "retry") /\ lapsed' = lapsed
    BY <1>4 DEF FireRetry
  <2>2. /\ nodes' \in [SideClusters -> [Categories -> TreeNodes]]
        /\ expanded' \in [SideClusters -> SUBSET Categories]
        /\ fetches' \subseteq FetchRecord /\ NodesKept
    BY <1>1, <1>3, <1>4, <2>1, ExpandKeeps
  <2> QED
    BY <1>0, <1>1, <1>3, <2>2 DEF SideTypeOK
<1>5. CASE ~(c \in opened /\ k \in expanded[c])
  <2>1. UNCHANGED <<nodes, expanded, fetches>> /\ lapsed' = lapsed \cup {<<c, k>>}
    BY <1>5 DEF FireRetry
  <2>2. ASSUME NEW d \in SideClusters, NEW j \in Categories PROVE OnItsWay(d, j) => OnItsWay(d, j)'
    <3>1. CASE d = c /\ j = k
      BY <2>1, <3>1 DEF OnItsWay
    <3>2. CASE ~(d = c /\ j = k)
      BY <1>1, <1>3, <2>1, <3>2, StillOnItsWay
    <3> QED
      BY <3>1, <3>2
  <2>3. NodesKept
    BY <1>1, <2>1, <2>2, AskedMore
  <2> QED
    BY <1>0, <1>1, <1>3, <2>1, <2>3 DEF SideTypeOK
<1> QED
  BY <1>4, <1>5

\* The backend pushes a count, or changes.
LEMMA WorldKeeps ==
  ASSUME SideInv, (\E k \in present : PushCount(k)) \/ \E c \in SideClusters : ChangeBackend(c)
  PROVE  SideTypeOK' /\ NodesKept
<1>0. SideTypeOK
  BY DEF SideInv
<1>1. UNCHANGED <<opened, front, nodes, expanded, loads, fetches, retry, present, lapsed>>
  BY DEF PushCount, ChangeBackend, worldVars
<1>2. CASE \E k \in present : PushCount(k)
  <2>1. PICK k \in present : PushCount(k)
    BY <1>2
  <2>2. backend' = backend /\ pushed' = [pushed EXCEPT ![k] = Count(front, backend[front].n)]
    BY <2>1 DEF PushCount, worldVars
  <2>3. front \in SideClusters /\ Count(front, backend[front].n) \in Counts
    BY <1>0 DEF SideTypeOK, Counts
  <2>4. pushed' \in [Categories -> Counts]
    BY <1>0, <2>2, <2>3 DEF SideTypeOK
  <2>5. \A d \in SideClusters, j \in Categories : OnItsWay(d, j) => OnItsWay(d, j)'
    BY <1>1, <2>2 DEF OnItsWay
  <2>6. NodesKept
    BY <1>1, <2>5, AskedMore
  <2> QED
    BY <1>0, <1>1, <2>2, <2>4, <2>6 DEF SideTypeOK
<1>3. CASE \E c \in SideClusters : ChangeBackend(c)
  <2>1. PICK c \in SideClusters, b \in [n : 0 .. MaxCount, up : BOOLEAN, served : BOOLEAN] :
           (b.served => backend[c].served) /\ backend' = [backend EXCEPT ![c] = b] /\ pushed' = pushed
    BY <1>3 DEF ChangeBackend
  <2>2. /\ backend' \in [SideClusters -> [n : 0 .. MaxCount, up : BOOLEAN, served : BOOLEAN]]
        /\ \A d \in SideClusters : backend'[d].served => backend[d].served
    BY <1>0, <2>1 DEF SideTypeOK
  <2>3. \A d \in SideClusters, j \in Categories : OnItsWay(d, j) => OnItsWay(d, j)'
    BY <1>1, <2>2 DEF OnItsWay
  <2>4. NodesKept
    BY <1>1, <2>3, AskedMore
  <2> QED
    BY <1>0, <1>1, <2>1, <2>2, <2>4 DEF SideTypeOK
<1> QED
  BY <1>2, <1>3

\* The pushed counts are put on the tree on screen.
LEMMA PushedKeep == SideInv /\ ApplyPushed => SideTypeOK' /\ NodesKept
<1> SUFFICES ASSUME SideInv, ApplyPushed PROVE SideTypeOK' /\ NodesKept
  OBVIOUS
<1>0. SideTypeOK
  BY DEF SideInv
<1>1. PICK c \in SideClusters, es \in SUBSET Categories : c = front /\ c \in opened /\ es = expanded[front]
  BY <1>0 DEF SideTypeOK
<1> DEFINE New(k) == WithPushed(nodes[c][k], k, es, pushed[k])
<1>2. /\ nodes' = [nodes EXCEPT ![c] = [k \in Categories |-> New(k)]]
      /\ UNCHANGED <<opened, front, expanded, loads, fetches, retry, backend, present, lapsed>>
      /\ pushed' = [k \in Categories |-> NoCount]
  BY <1>1 DEF ApplyPushed, worldVars
<1>3. ASSUME NEW k \in Categories
      PROVE  /\ New(k) \in TreeNodes /\ New(k).there = nodes[c][k].there /\ New(k).kids = nodes[c][k].kids
             /\ ~New(k).there => New(k) = nodes[c][k]
             /\ New(k).there => (New(k).exp <=> nodes[c][k].exp \/ k \in es)
             /\ New(k).kids /\ New(k).count = NoCount => nodes[c][k].count = NoCount
  <2>1. PICK n \in TreeNodes, q \in Counts : n = nodes[c][k] /\ q = pushed[k]
    BY <1>0 DEF SideTypeOK
  <2> DEFINE e == n.exp \/ k \in es
             x == IF n.kids /\ q # NoCount THEN q ELSE n.count
             v == [n EXCEPT !.exp = e, !.count = x]
  <2>2. New(k) = IF ~n.there THEN n ELSE v
    BY <2>1 DEF WithPushed
  <2>3. e \in BOOLEAN /\ x \in Counts /\ (x = NoCount => n.count = NoCount)
    BY DEF TreeNodes
  <2> HIDE DEF e, x
  <2>4. v \in TreeNodes /\ v.there = n.there /\ v.kids = n.kids /\ v.exp = e /\ v.count = x
    BY <2>3 DEF TreeNodes
  <2> HIDE DEF v, New
  <2>5. e <=> n.exp \/ k \in es
    BY DEF e
  <2> QED
    BY <2>1, <2>2, <2>3, <2>4, <2>5
<1> HIDE DEF New
<1>4. /\ nodes' \in [SideClusters -> [Categories -> TreeNodes]]
      /\ \A k \in Categories : nodes'[c][k] = New(k)
      /\ \A d \in SideClusters \ {c} : nodes'[d] = nodes[d]
  BY <1>0, <1>2, <1>3 DEF SideTypeOK
<1>5. pushed' \in [Categories -> Counts]
  BY <1>2 DEF Counts
<1>6. \A d \in SideClusters, j \in Categories : OnItsWay(d, j) => OnItsWay(d, j)'
  BY <1>2 DEF OnItsWay
<1>7. ASSUME NEW d \in SideClusters, NEW j \in Categories PROVE NodeKept(d, j)
  <2>1. CASE d # c
    BY <1>2, <1>4, <1>6, <2>1, NodeUntouched
  <2>2. CASE d = c
    <3>1. PICK n \in TreeNodes, m \in TreeNodes : n = nodes[c][j] /\ m = nodes'[c][j] /\ m = New(j)
      BY <1>0, <1>3, <1>4 DEF SideTypeOK
    <3>2. /\ (n.kids => n.there) /\ (n.there => j \in present) /\ (n.there => (n.exp <=> j \in es))
          /\ n.kids /\ n.count = NoCount => OnItsWay(c, j)
      BY <1>1, <3>1 DEF SideInv, ChildrenAreShown, ExpansionAgrees, NumbersComeBack
    <3>3. /\ m.there = n.there /\ m.kids = n.kids /\ (m.there => (m.exp <=> j \in es))
          /\ m.kids /\ m.count = NoCount => n.count = NoCount
      BY <1>3, <3>1, <3>2
    <3> QED
      BY <1>1, <1>2, <1>6, <2>2, <3>1, <3>2, <3>3 DEF NodeKept
  <2> QED
    BY <2>1, <2>2
<1> QED
  BY <1>0, <1>2, <1>4, <1>5, <1>7 DEF SideTypeOK, NodesKept

\* Every step of the sidebar sees to every category.
LEMMA SideInvStep == SideInv /\ [SideNext]_sideVars => SideInv' /\ KnownCountsStay
<1> SUFFICES ASSUME SideInv, [SideNext]_sideVars PROVE SideTypeOK' /\ NodesKept
  BY NodesMake
<1>0. present \subseteq Categories
  BY DEF SideInv, SideTypeOK
<1>1. ASSUME NEW k \in present, ClickNode(k) PROVE SideTypeOK' /\ NodesKept
  BY <1>1, ClickKeeps
<1>2. CASE (\E k \in present : PushCount(k)) \/ \E c \in SideClusters : ChangeBackend(c)
  BY <1>2, WorldKeeps
<1>3. ASSUME NEW c \in SideClusters, ShowCluster(c) \/ RetryTree(c) \/ CloseCluster(c) \/ OpenClusterTab(c)
      PROVE SideTypeOK' /\ NodesKept
  BY <1>3, TabsKeepTree
<1>4. ASSUME NEW l \in loads,
             CategoriesArrive(l) \/ CategoriesFail(l) \/ LoadDone(l) \/ \E k \in l.todo : ExpandNext(l, k)
      PROVE SideTypeOK' /\ NodesKept
  BY <1>4, LoadsKeep
<1>5. ASSUME NEW f \in fetches,
             Detected(f) \/ ResourcesArrive(f) \/ ResourcesFail(f) \/ CountsArrive(f) \/ CountsFail(f)
      PROVE SideTypeOK' /\ NodesKept
  BY <1>5, DetectKeeps, ResourcesKeep, CountsKeep
<1>6. ASSUME NEW c \in SideClusters, NEW k \in Categories, FireRetry(c, k) PROVE SideTypeOK' /\ NodesKept
  BY <1>6, RetryKeeps
<1>7. CASE ApplyPushed
  BY <1>7, PushedKeep
<1>8. CASE UNCHANGED sideVars
  <2>1. NodesKept
    BY <1>8, AskedMore DEF sideVars, OnItsWay
  <2> QED
    BY <1>8, <2>1 DEF sideVars, SideInv, SideTypeOK
<1> QED
  BY <1>1, <1>2, <1>3, <1>4, <1>5, <1>6, <1>7, <1>8 DEF SideNext

\* What is on its way is asked for or will be.
LEMMA SideInvTells == SideInv => PendingIsRetried /\ ExpansionAgrees
<1> SUFFICES ASSUME SideInv PROVE PendingIsRetried
  BY DEF SideInv
<1> SUFFICES ASSUME NEW c \in SideClusters, NEW k \in Categories,
                    nodes[c][k].kids, nodes[c][k].count = NoCount, <<c, k>> \notin lapsed
             PROVE  \/ \E f \in fetches : f.c = c /\ f.k = k /\ f.what # "detect"
                    \/ retry[c][k] = "timer"
                    \/ ~backend[c].served \/ c \notin opened
  BY DEF PendingIsRetried
<1>1. OnItsWay(c, k)
  BY DEF SideInv, NumbersComeBack
<1>2. \A w : Fetch(c, k, w).c = c /\ Fetch(c, k, w).k = k /\ Fetch(c, k, w).what = w
  BY DEF Fetch
<1> QED
  BY <1>1, <1>2 DEF OnItsWay

(* A number beside a resource goes blank only when there is none, one that *)
(* is missing is asked for or will be, and the tree and the set of         *)
(* expanded categories agree, whatever of the loads, clicks, answers,      *)
(* retries and pushed counts overtakes what (resourceSlice.ts,             *)
(* countRefetch.ts, TreeSidebar.tsx).                                      *)
THEOREM TreeStaysTrue == SideSpec => TreeIsTrue
<1>1. SideInv /\ SideInv' /\ [SideNext]_sideVars
        => [KnownCountsStay /\ PendingIsRetried' /\ ExpansionAgrees']_sideVars
  <2>1. SideInv' => PendingIsRetried' /\ ExpansionAgrees'
    BY SideInvTells, PTL
  <2> QED
    BY <2>1, SideInvStep
<1> QED
  BY <1>1, SideInvInit, SideInvStep, PTL DEF SideSpec, TreeIsTrue
=============================================================================

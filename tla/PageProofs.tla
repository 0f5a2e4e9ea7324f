----------------------------- MODULE PageProofs -----------------------------
(***************************************************************************)
(* What is proved of the pages and panels opened from the lists: the pages *)
(* that ask one question (QueryPages), the Argo CD pages (GitOps), the     *)
(* inspector and the YAML editor (Inspector), cloud identities             *)
(* (CloudAccess), the AI chats and the settings of the AI agents           *)
(* (Assistant).  Each part has its own invariant; they share nothing.      *)
(***************************************************************************)
EXTENDS QueryPages, GitOps, Inspector, CloudAccess, Assistant,
        FiniteSetTheorems, SequenceTheorems, TLAPS

(***************************************************************************)
(* What the pages that ask one question draw, for any set of questions and *)
(* any number of clicks: whatever is drawn as an answer answers the        *)
(* question it stands under, and a page that says it is loading has a load *)
(* under way.                                                              *)
(*                                                                         *)
(* The argument is about one loader at a time: the request of its last     *)
(* load, if it is still out, asks the question on screen.  A load begun,   *)
(* an answer heard and a failure establish or keep that for their loader   *)
(* and leave the other loaders as they are; the lemmas up to WorldFields   *)
(* say so of each operator, and every page then has one lemma.             *)
(***************************************************************************)

\* The types the proofs need.  A world is loaders and requests under way; no
\* request is of a load its loader has not begun.
Loads == UNION {LoadersOf[p] : p \in DOMAIN LoadersOf}
LoaderRecords == [shown : Questions \cup {0}, of : Nat, busy : BOOLEAN,
                  failed : BOOLEAN, seq : Nat]
Requests(S) == [l : S, q : Questions \cup {0}, n : Nat]
Worlds(S) ==
  {w \in [ld : [S -> LoaderRecords], fl : SUBSET Requests(S)] :
     \A f \in w.fl : f.n <= w.ld[f.l].seq}

\* The views of each page.
ModesOf == [access |-> {"who-can", "mine"}, section |-> {"open", "closed"},
            image |-> {"overview", "files"}, network |-> {"path", "coverage", "traffic"},
            certs |-> {"-"}, compare |-> {"-"}, upgrade |-> {"-"}, path |-> {"-"}]

\* The requests a loader would still take the answer of.
Heard(w, l) == {f \in w.fl : f.l = l /\ f.n = w.ld[l].seq}

\* A loader answers a question: its load asks it, is really out while the loader
\* says so, and what is shown once it is over is the answer.
AnswersTo(w, l, q) ==
  /\ \A f \in Heard(w, l) : f.q = q
  /\ w.ld[l].busy => Heard(w, l) # {}
  /\ (w.ld[l].shown # 0 /\ ~w.ld[l].busy /\ ~w.ld[l].failed) => w.ld[l].shown = q

\* A loader has something to draw.
Tells(w, l) == w.ld[l].busy \/ w.ld[l].failed \/ w.ld[l].shown # 0

\* A loader stands under a question, unless there is nothing to ask.
Stands(w, l, q) == q # 0 => AnswersTo(w, l, q) /\ Tells(w, l)

\* The inductive invariant: the types, and for each page the loaders of what is
\* on screen.  The closed section keeps answering, so that it can be opened as it
\* is; the file chosen is forgotten wherever the files are not drawn.
PagesType ==
  /\ page \in DOMAIN LoadersOf
  /\ mode \in ModesOf[page]
  /\ {typed, asked} \subseteq Questions \cup {0}
  /\ World \in Worlds(LoadersOf[page])

AccessInv == page = "access" => IF mode = "mine" THEN Stands(World, "mine", asked)
                                ELSE Stands(World, "who", asked) /\ Stands(World, "can", asked)
SectionInv == page = "section" =>
    /\ asked # 0 /\ AnswersTo(World, "matrix", asked)
    /\ mode = "open" => Tells(World, "matrix")
CertsInv == page = "certs" => asked # 0 /\ Stands(World, "certs", asked)
CompareInv == page = "compare" => Stands(World, "cmp", asked)
ImageInv == page = "image" =>
    /\ asked # 0 /\ Stands(World, "info", asked)
    /\ FilesDrawn => Stands(World, "dir", asked) /\ Stands(World, "file", typed)
    /\ ~FilesDrawn => typed = 0
UpgradeInv == page = "upgrade" => Stands(World, "upg", asked)
PathInv == page = "path" =>
    /\ loaders["path"].busy => Heard(World, "path") # {}
    /\ (loaders["path"].shown # 0 /\ ~loaders["path"].busy /\ ~loaders["path"].failed)
         => loaders["path"].of = loaders["path"].seq
NetworkInv == page = "network" => (mode # "path" => Stands(World, mode, asked))

PagesInv ==
  /\ PagesType
  /\ AccessInv /\ SectionInv /\ CertsInv /\ CompareInv /\ ImageInv
  /\ UpgradeInv /\ PathInv /\ NetworkInv

\* A load of another loader, as far as it counts, is the same in two worlds.
SameLoad(v, w, l) == v.ld[l] = w.ld[l] /\ Heard(v, l) = Heard(w, l)

\* A loader that is the same in two worlds stands in the one as in the other.
LEMMA SameLoadStands ==
  ASSUME NEW v, NEW w, NEW l, NEW q, SameLoad(v, w, l)
  PROVE  /\ AnswersTo(w, l, q) => AnswersTo(v, l, q)
         /\ Tells(w, l) => Tells(v, l)
         /\ Stands(w, l, q) => Stands(v, l, q)
  BY DEF SameLoad, AnswersTo, Tells, Stands

\* The loaders and requests once a load began.
LEMMA BegunFields ==
  ASSUME NEW S, NEW w \in Worlds(S), NEW l \in S, NEW q \in Questions \cup {0}, NEW keep
  PROVE  /\ Begun(w, l, q, keep).fl = w.fl \cup {[l |-> l, q |-> q, n |-> w.ld[l].seq + 1]}
         /\ Begun(w, l, q, keep).ld =
              [w.ld EXCEPT ![l] = [shown |-> IF keep THEN w.ld[l].shown ELSE 0,
                                   of |-> w.ld[l].of, busy |-> TRUE, failed |-> FALSE,
                                   seq |-> w.ld[l].seq + 1]]
         /\ Begun(w, l, q, keep) = [ld |-> Begun(w, l, q, keep).ld, fl |-> Begun(w, l, q, keep).fl]
  BY DEF Begun, Worlds, LoaderRecords

\* A load begun for a question: its loader is busy with that question and no
\* earlier request is heard; the other loaders are as they were.
LEMMA BegunStands ==
  ASSUME NEW S, NEW w \in Worlds(S), NEW l \in S, NEW q \in Questions \cup {0}, NEW keep
  PROVE  LET v == Begun(w, l, q, keep) IN
         /\ v \in Worlds(S)
         /\ v.ld[l].busy /\ ~v.ld[l].failed
         /\ v.ld[l].shown = IF keep THEN w.ld[l].shown ELSE 0
         /\ AnswersTo(v, l, q) /\ Tells(v, l) /\ Stands(v, l, q)
         /\ \A m \in S \ {l} : SameLoad(v, w, m)
<1> DEFINE n == w.ld[l].seq + 1
           f0 == [l |-> l, q |-> q, n |-> n]
           r == [shown |-> IF keep THEN w.ld[l].shown ELSE 0, of |-> w.ld[l].of,
                 busy |-> TRUE, failed |-> FALSE, seq |-> n]
           v == Begun(w, l, q, keep)
<1>w. /\ w.ld \in [S -> LoaderRecords] /\ w.fl \in SUBSET Requests(S)
      /\ \A f \in w.fl : f.n <= w.ld[f.l].seq
  BY DEF Worlds
<1>a. w.ld[l] \in LoaderRecords
  BY <1>w
<1>n. n \in Nat /\ w.ld[l].shown \in Questions \cup {0} /\ w.ld[l].of \in Nat
  BY <1>a DEF LoaderRecords
<1>r. r \in LoaderRecords
  BY <1>n DEF LoaderRecords
<1>f. f0 \in Requests(S) /\ f0.l = l /\ f0.q = q /\ f0.n = n
  BY <1>n DEF Requests
<1>1. /\ v.fl = w.fl \cup {f0} /\ v.ld = [w.ld EXCEPT ![l] = r]
      /\ v = [ld |-> v.ld, fl |-> v.fl]
  BY BegunFields
<1>2. r.shown = (IF keep THEN w.ld[l].shown ELSE 0) /\ r.busy /\ ~r.failed /\ r.seq = n
  OBVIOUS
<1> HIDE DEF n, f0, r, v
<1>3. v.ld \in [S -> LoaderRecords] /\ v.ld[l] = r /\ \A m \in S \ {l} : v.ld[m] = w.ld[m]
  BY <1>1, <1>r, <1>w
<1>4. v.fl \in SUBSET Requests(S)
  BY <1>1, <1>f, <1>w
<1>5. ASSUME NEW f \in w.fl
      PROVE  /\ f.l \in S /\ f.n \in Nat /\ f.n <= w.ld[f.l].seq
             /\ f.l = l => f.n < n
  <2>1. f.l \in S /\ f.n \in Nat /\ f.n <= w.ld[f.l].seq
    BY <1>w DEF Requests
  <2>2. w.ld[l].seq \in Nat
    BY <1>a DEF LoaderRecords
  <2> QED
    BY <2>1, <2>2 DEF n
<1>6. ASSUME NEW f \in v.fl
      PROVE  f.n <= v.ld[f.l].seq
  <2>1. CASE f = f0
    BY <2>1, <1>3, <1>f, <1>2, <1>n
  <2>2. CASE f \in w.fl /\ f.l = l
    BY <2>2, <1>5, <1>3, <1>2, <1>n
  <2>3. CASE f \in w.fl /\ f.l # l
    BY <2>3, <1>5, <1>3
  <2> QED
    BY <2>1, <2>2, <2>3, <1>1
<1>7. v \in Worlds(S)
  BY <1>1, <1>3, <1>4, <1>6 DEF Worlds
<1>8. Heard(v, l) = {f0}
  <2>1. ASSUME NEW f \in w.fl, f.l = l
        PROVE  f.n # n
    BY <2>1, <1>5, <1>n
  <2> QED
    BY <2>1, <1>1, <1>3, <1>2, <1>f DEF Heard
<1>9. ASSUME NEW m \in S \ {l}
      PROVE  SameLoad(v, w, m)
  BY <1>1, <1>3, <1>f DEF SameLoad, Heard
<1>10. AnswersTo(v, l, q) /\ Tells(v, l)
  BY <1>8, <1>f, <1>3, <1>2 DEF AnswersTo, Tells
<1> QED
  BY <1>7, <1>9, <1>10, <1>3, <1>2 DEF Stands, v

\* A loader cleared with nothing to ask leaves the others as they were.
LEMMA ClearedKeeps ==
  ASSUME NEW S, NEW w \in Worlds(S), NEW l \in S
  PROVE  /\ Cleared(w, l) \in Worlds(S)
         /\ \A m \in S \ {l} : SameLoad(Cleared(w, l), w, m)
<1> DEFINE v == Cleared(w, l)
           r == [w.ld[l] EXCEPT !.shown = 0, !.busy = FALSE, !.failed = FALSE]
<1>w. /\ w.ld \in [S -> LoaderRecords] /\ w.fl \in SUBSET Requests(S)
      /\ \A f \in w.fl : f.n <= w.ld[f.l].seq
      /\ w \in [ld : [S -> LoaderRecords], fl : SUBSET Requests(S)]
  BY DEF Worlds
<1>r. r \in LoaderRecords /\ r.seq = w.ld[l].seq
  BY <1>w DEF LoaderRecords
<1>1. /\ v.fl = w.fl /\ v.ld = [w.ld EXCEPT ![l] = r]
      /\ v = [ld |-> v.ld, fl |-> v.fl]
  BY <1>w DEF Cleared
<1> HIDE DEF r, v
<1>3. v.ld \in [S -> LoaderRecords] /\ v.ld[l] = r /\ \A m \in S \ {l} : v.ld[m] = w.ld[m]
  BY <1>1, <1>r, <1>w
<1>6. ASSUME NEW f \in v.fl
      PROVE  f.n <= v.ld[f.l].seq
  <2>1. f.l \in S
    BY <1>1, <1>w DEF Requests
  <2> QED
    BY <2>1, <1>1, <1>3, <1>r, <1>w
<1>7. v \in Worlds(S)
  BY <1>1, <1>3, <1>6, <1>w DEF Worlds
<1>9. ASSUME NEW m \in S \ {l}
      PROVE  SameLoad(v, w, m)
  BY <1>1, <1>3 DEF SameLoad, Heard
<1> QED
  BY <1>7, <1>9 DEF v

\* A loader whose effect was cleaned up hears nothing any more, and the others are
\* as they were.
LEMMA DroppedKeeps ==
  ASSUME NEW S, NEW w \in Worlds(S), NEW l \in S
  PROVE  /\ Dropped(w, l) \in Worlds(S)
         /\ \A q : AnswersTo(Dropped(w, l), l, q)
         /\ \A m \in S \ {l} : SameLoad(Dropped(w, l), w, m)
<1> DEFINE v == Dropped(w, l)
           r == [Idle EXCEPT !.seq = w.ld[l].seq + 1]
<1>w. /\ w.ld \in [S -> LoaderRecords] /\ w.fl \in SUBSET Requests(S)
      /\ \A f \in w.fl : f.n <= w.ld[f.l].seq
      /\ w \in [ld : [S -> LoaderRecords], fl : SUBSET Requests(S)]
  BY DEF Worlds
<1>s. w.ld[l].seq \in Nat
  BY <1>w DEF LoaderRecords
<1>i. Idle \in LoaderRecords /\ Idle.shown = 0 /\ ~Idle.busy
  BY DEF Idle, LoaderRecords
<1>r. /\ r \in LoaderRecords /\ r.seq = w.ld[l].seq + 1
      /\ r.shown = 0 /\ ~r.busy
  BY <1>s, <1>i DEF LoaderRecords
<1>1. /\ v.fl = w.fl /\ v.ld = [w.ld EXCEPT ![l] = r]
      /\ v = [ld |-> v.ld, fl |-> v.fl]
  BY <1>w DEF Dropped
<1> HIDE DEF r, v
<1>3. v.ld \in [S -> LoaderRecords] /\ v.ld[l] = r /\ \A m \in S \ {l} : v.ld[m] = w.ld[m]
  BY <1>1, <1>r, <1>w
<1>4. ASSUME NEW f \in w.fl
      PROVE  f.l \in S /\ f.n \in Nat /\ f.n <= w.ld[f.l].seq
  BY <1>w DEF Requests
<1>6. ASSUME NEW f \in v.fl
      PROVE  f.n <= v.ld[f.l].seq /\ (f.l = l => f.n # v.ld[l].seq)
  BY <1>1, <1>3, <1>4, <1>r, <1>s
<1>7. v \in Worlds(S)
  BY <1>1, <1>3, <1>6, <1>w DEF Worlds
<1>8. Heard(v, l) = {}
  BY <1>6 DEF Heard
<1>9. ASSUME NEW m \in S \ {l}
      PROVE  SameLoad(v, w, m)
  BY <1>1, <1>3 DEF SameLoad, Heard
<1>10. ASSUME NEW q
       PROVE  AnswersTo(v, l, q)
  BY <1>8, <1>3, <1>r DEF AnswersTo
<1> QED
  BY <1>7, <1>9, <1>10 DEF v

\* A request that leaves with its loader settled: no other loader is touched, and
\* nothing is heard that was not before.
LEMMA SettledKeeps ==
  ASSUME NEW S, NEW w \in Worlds(S), NEW f \in w.fl, NEW r \in LoaderRecords,
         r.seq = w.ld[f.l].seq, ~r.busy,
         NEW v, v = [ld |-> [w.ld EXCEPT ![f.l] = r], fl |-> w.fl \ {f}]
  PROVE  /\ v \in Worlds(S)
         /\ \A m \in S \ {f.l} : SameLoad(v, w, m)
         /\ Heard(v, f.l) \subseteq Heard(w, f.l)
<1>w. /\ w.ld \in [S -> LoaderRecords] /\ w.fl \in SUBSET Requests(S)
      /\ \A g \in w.fl : g.n <= w.ld[g.l].seq
  BY DEF Worlds
<1>f. f.l \in S
  BY <1>w DEF Requests
<1>1. v.ld = [w.ld EXCEPT ![f.l] = r] /\ v.fl = w.fl \ {f}
  OBVIOUS
<1>3. v.ld \in [S -> LoaderRecords] /\ v.ld[f.l] = r /\ \A m \in S \ {f.l} : v.ld[m] = w.ld[m]
  BY <1>1, <1>w, <1>f
<1>6. ASSUME NEW g \in v.fl
      PROVE  g.n <= v.ld[g.l].seq
  <2>1. g.l \in S
    BY <1>1, <1>w DEF Requests
  <2> QED
    BY <2>1, <1>1, <1>3, <1>w
<1>7. v \in Worlds(S)
  BY <1>1, <1>3, <1>6, <1>w DEF Worlds
<1>8. Heard(v, f.l) \subseteq Heard(w, f.l)
  BY <1>1, <1>3 DEF Heard
<1>9. ASSUME NEW m \in S \ {f.l}
      PROVE  SameLoad(v, w, m)
  BY <1>1, <1>3 DEF SameLoad, Heard
<1> QED
  BY <1>7, <1>8, <1>9

\* A request that is not heard leaves: every loader is as it was.
LEMMA StaleKeeps ==
  ASSUME NEW S, NEW w \in Worlds(S), NEW f \in w.fl, w.ld[f.l].seq # f.n,
         NEW v, v = [ld |-> w.ld, fl |-> w.fl \ {f}]
  PROVE  /\ v \in Worlds(S)
         /\ \A m \in S : SameLoad(v, w, m)
<1>1. v.ld = w.ld /\ v.fl = w.fl \ {f}
  OBVIOUS
<1>2. v \in Worlds(S)
  BY <1>1 DEF Worlds
<1>3. ASSUME NEW m \in S
      PROVE  SameLoad(v, w, m)
  BY <1>1 DEF SameLoad, Heard
<1> QED
  BY <1>2, <1>3

\* A loader is set to another record, of the same load or a later one: the others
\* are as they were.
LEMMA RecordSet ==
  ASSUME NEW S, NEW w \in Worlds(S), NEW l \in S, NEW r \in LoaderRecords,
         r.seq >= w.ld[l].seq,
         NEW v, v = [ld |-> [w.ld EXCEPT ![l] = r], fl |-> w.fl]
  PROVE  /\ v \in Worlds(S) /\ v.ld[l] = r
         /\ \A m \in S \ {l} : SameLoad(v, w, m)
<1>w. /\ w.ld \in [S -> LoaderRecords] /\ w.fl \in SUBSET Requests(S)
      /\ \A f \in w.fl : f.n <= w.ld[f.l].seq
  BY DEF Worlds
<1>1. v.ld = [w.ld EXCEPT ![l] = r] /\ v.fl = w.fl
  OBVIOUS
<1>2. w.ld[l].seq \in Nat /\ r.seq \in Nat
  BY <1>w DEF LoaderRecords
<1>3. v.ld \in [S -> LoaderRecords] /\ v.ld[l] = r /\ \A m \in S \ {l} : v.ld[m] = w.ld[m]
  BY <1>1, <1>w
<1>4. ASSUME NEW f \in v.fl
      PROVE  f.n <= v.ld[f.l].seq
  <2>1. f.l \in S /\ f.n \in Nat /\ f.n <= w.ld[f.l].seq
    BY <1>1, <1>w DEF Requests
  <2> QED
    BY <2>1, <1>1, <1>2, <1>3
<1>5. v \in Worlds(S)
  BY <1>1, <1>3, <1>4, <1>w DEF Worlds
<1>6. ASSUME NEW m \in S \ {l}
      PROVE  SameLoad(v, w, m)
  BY <1>1, <1>3 DEF SameLoad, Heard
<1> QED
  BY <1>3, <1>5, <1>6

\* A loader of the same load hears the same requests.
LEMMA RecordSetHeard ==
  ASSUME NEW w, NEW l, NEW v, v.fl = w.fl, v.ld[l].seq = w.ld[l].seq
  PROVE  Heard(v, l) = Heard(w, l)
  BY DEF Heard

\* The next loaders and flights are the world that was set.
LEMMA WorldSet ==
  ASSUME NEW S, NEW v \in Worlds(S), SetLoader(v)
  PROVE  World' = v
<1>1. v = [ld |-> v.ld, fl |-> v.fl]
  BY DEF Worlds
<1> QED
  BY <1>1 DEF SetLoader, World

\* The world is the loaders and the requests.
LEMMA WorldFields == World.ld = loaders /\ World.fl = flights
  BY DEF World

-----------------------------------------------------------------------------
(* One lemma a page, then answers and failures *)

\* The loads of the access page that are begun stand under the question asked, the
\* ones that are not are as they were.
LEMMA AskAllStands ==
  ASSUME NEW w \in Worlds({"who", "can", "mine"}), asked' \in Questions \cup {0},
         NEW who \in BOOLEAN, NEW can \in BOOLEAN, NEW mine \in BOOLEAN
  PROVE  LET v == AskAll(w, who, can, mine) IN
         /\ v \in Worlds({"who", "can", "mine"})
         /\ IF who THEN Stands(v, "who", asked') ELSE SameLoad(v, w, "who")
         /\ IF can THEN Stands(v, "can", asked') ELSE SameLoad(v, w, "can")
         /\ IF mine THEN Stands(v, "mine", asked') ELSE SameLoad(v, w, "mine")
<1> DEFINE S == {"who", "can", "mine"}
           a == IF who THEN Begun(w, "who", asked', TRUE) ELSE w
           b == IF can THEN Begun(a, "can", asked', TRUE) ELSE a
           v == IF mine THEN Begun(b, "mine", asked', TRUE) ELSE b
<1>0. AskAll(w, who, can, mine) = v
  BY DEF AskAll
<1>s. /\ "who" \in S /\ "can" \in S /\ "mine" \in S
      /\ "can" # "who" /\ "mine" # "who" /\ "mine" # "can"
  OBVIOUS
<1>t. ASSUME NEW m, NEW x, NEW y, NEW z, SameLoad(x, y, m), SameLoad(y, z, m)
      PROVE  SameLoad(x, z, m)
  BY <1>t DEF SameLoad
<1>i. \A m, x : SameLoad(x, x, m)
  BY DEF SameLoad
<1> HIDE DEF S
<1>1. /\ a \in Worlds(S)
      /\ IF who THEN Stands(a, "who", asked') ELSE SameLoad(a, w, "who")
      /\ SameLoad(a, w, "can") /\ SameLoad(a, w, "mine")
  BY <1>s, <1>i, BegunStands DEF S
<1> HIDE DEF a
<1>2. /\ b \in Worlds(S)
      /\ SameLoad(b, a, "who") /\ SameLoad(b, a, "mine")
      /\ IF can THEN Stands(b, "can", asked') ELSE SameLoad(b, a, "can")
  BY <1>1, <1>s, <1>i, BegunStands
<1> HIDE DEF b
<1>3. /\ v \in Worlds(S)
      /\ SameLoad(v, b, "who") /\ SameLoad(v, b, "can")
      /\ IF mine THEN Stands(v, "mine", asked') ELSE SameLoad(v, b, "mine")
  BY <1>2, <1>s, <1>i, BegunStands
<1> HIDE DEF v
<1>4. IF who THEN Stands(v, "who", asked') ELSE SameLoad(v, w, "who")
  BY <1>1, <1>2, <1>3, <1>t, SameLoadStands
<1>5. IF can THEN Stands(v, "can", asked') ELSE SameLoad(v, w, "can")
  BY <1>1, <1>2, <1>3, <1>t, SameLoadStands
<1>6. IF mine THEN Stands(v, "mine", asked') ELSE SameLoad(v, w, "mine")
  BY <1>1, <1>2, <1>3, <1>t, SameLoadStands
<1> QED
  BY <1>0, <1>3, <1>4, <1>5, <1>6 DEF S

\* After useLoad's effects, the loaders of the mode chosen stand under its question.
LEMMA AccessEffectsStand ==
  ASSUME World \in Worlds({"who", "can", "mine"}), asked' \in Questions \cup {0},
         mode' \in {"who-can", "mine"}, AccessEffects
  PROVE  /\ World' \in Worlds({"who", "can", "mine"})
         /\ IF mode' = "mine" THEN Stands(World', "mine", asked')
            ELSE Stands(World', "who", asked') /\ Stands(World', "can", asked')
<1> DEFINE S == {"who", "can", "mine"}
           on == mode' = "who-can" /\ asked' # 0
           c == Cleared(Cleared(World, "who"), "can")
           off == IF on THEN World ELSE c
           quiet == IF mode' = "mine" THEN off ELSE Cleared(off, "mine")
           v == AskAll(quiet, on, on, mode' = "mine")
<1>0. SetLoader(v)
  BY DEF AccessEffects
<1>s. "who" \in S /\ "can" \in S /\ "mine" \in S
  OBVIOUS
<1> HIDE DEF S
<1>1. c \in Worlds(S)
  BY <1>s, ClearedKeeps DEF S
<1> HIDE DEF c
<1>2. quiet \in Worlds(S)
  BY <1>1, <1>s, ClearedKeeps DEF S
<1> HIDE DEF quiet
<1>3. /\ v \in Worlds(S)
      /\ on => Stands(v, "who", asked') /\ Stands(v, "can", asked')
      /\ mode' = "mine" => Stands(v, "mine", asked')
  BY <1>2, AskAllStands DEF S
<1> HIDE DEF v
<1>4. World' = v
  BY <1>0, <1>3, WorldSet
<1> QED
  BY <1>3, <1>4 DEF S, Stands

\* What the behaviour of the access page keeps.
LEMMA AccessKeeps ==
  ASSUME PagesAssumption, PagesInv, page = "access",
         \/ \E q \in Questions \cup {0} : AccessType(q)
         \/ \E q \in Questions : \E m \in {"who-can", "mine"} : AccessMode(m, q)
         \/ AccessDebounce \/ AccessRefresh \/ AccessRefreshed
         \/ \E l \in {"who", "mine"} : AccessRetry(l)
  PROVE  PagesInv'
<1> DEFINE S == {"who", "can", "mine"}
           Fine == IF mode = "mine" THEN Stands(World, "mine", asked)
                   ELSE Stands(World, "who", asked) /\ Stands(World, "can", asked)
<1>s. LoadersOf["access"] = S /\ ModesOf["access"] = {"who-can", "mine"}
  BY DEF LoadersOf, ModesOf
<1>h. /\ mode \in {"who-can", "mine"} /\ asked \in Questions \cup {0}
      /\ typed \in Questions \cup {0} /\ World \in Worlds(S) /\ Fine
  BY <1>s DEF PagesInv, PagesType, AccessInv
<1>q. SUFFICES /\ page' = "access" /\ mode' \in {"who-can", "mine"}
               /\ asked' \in Questions \cup {0} /\ typed' \in Questions \cup {0}
               /\ World' \in Worlds(S)
               /\ IF mode' = "mine" THEN Stands(World', "mine", asked')
                  ELSE Stands(World', "who", asked') /\ Stands(World', "can", asked')
  <2>1. page' = "access" /\ page' \in DOMAIN LoadersOf
    BY DEF LoadersOf
  <2>2. PagesType'
    BY <1>s, <2>1 DEF PagesType
  <2>3. AccessInv'
    BY DEF AccessInv
  <2> QED
    BY <2>1, <2>2, <2>3 DEF PagesInv, SectionInv, CertsInv, CompareInv, ImageInv, UpgradeInv,
       PathInv, NetworkInv
<1>1. ASSUME NEW q \in Questions \cup {0}, AccessType(q)
      PROVE  /\ page' = "access" /\ mode' = mode /\ asked' = asked /\ typed' = q /\ World' = World
  BY <1>1 DEF AccessType, On, World
<1>2. ASSUME page' = "access", mode' \in {"who-can", "mine"}, asked' \in Questions \cup {0},
             AccessEffects
      PROVE  /\ World' \in Worlds(S)
             /\ IF mode' = "mine" THEN Stands(World', "mine", asked')
                ELSE Stands(World', "who", asked') /\ Stands(World', "can", asked')
  BY <1>2, <1>h, AccessEffectsStand
<1>3. ASSUME NEW q \in Questions, NEW m \in {"who-can", "mine"}, AccessMode(m, q)
      PROVE  /\ page' = "access" /\ mode' = m /\ asked' \in Questions \cup {0}
             /\ typed' = typed /\ AccessEffects
  BY <1>3, <1>h DEF AccessMode, On
<1>4. ASSUME AccessDebounce
      PROVE  /\ page' = "access" /\ mode' = mode /\ asked' = typed /\ typed' = typed
             /\ AccessEffects
  BY <1>4 DEF AccessDebounce, On
<1>5. ASSUME AccessRefresh
      PROVE  page' = "access" /\ mode' = mode /\ asked' = asked /\ typed' = typed /\ World' = World
  BY <1>5 DEF AccessRefresh, On, World
<1>6. ASSUME AccessRefreshed
      PROVE  /\ page' = "access" /\ mode' = mode /\ asked' = asked /\ typed' = typed
             /\ World' \in Worlds(S)
             /\ IF mode = "mine" THEN Stands(World', "mine", asked)
                ELSE Stands(World', "who", asked) /\ Stands(World', "can", asked)
  <2> DEFINE on == mode = "who-can" /\ asked # 0
             v == AskAll(World, on, FALSE, mode = "mine")
  <2>1. /\ page' = "access" /\ mode' = mode /\ asked' = asked /\ typed' = typed /\ SetLoader(v)
    BY <1>6 DEF AccessRefreshed, On
  <2>2. /\ v \in Worlds(S)
        /\ on => Stands(v, "who", asked')
        /\ SameLoad(v, World, "can")
        /\ mode = "mine" => Stands(v, "mine", asked')
    BY <1>h, <2>1, AskAllStands
  <2> HIDE DEF v
  <2>3. World' = v
    BY <2>1, <2>2, WorldSet
  <2>4. mode # "mine" => Stands(v, "can", asked)
    BY <2>2, <1>h, SameLoadStands
  <2>5. mode # "mine" => Stands(v, "who", asked)
    BY <2>1, <2>2, <1>h DEF Stands
  <2> QED
    BY <2>1, <2>2, <2>3, <2>4, <2>5
<1>7. ASSUME NEW l \in {"who", "mine"}, AccessRetry(l)
      PROVE  /\ page' = "access" /\ mode' = mode /\ asked' = asked /\ typed' = typed
             /\ World' \in Worlds(S)
             /\ IF mode = "mine" THEN Stands(World', "mine", asked)
                ELSE Stands(World', "who", asked) /\ Stands(World', "can", asked)
  <2> DEFINE v == Begun(World, l, asked, TRUE)
  <2>1. /\ page' = "access" /\ mode' = mode /\ asked' = asked /\ typed' = typed /\ SetLoader(v)
    BY <1>7 DEF AccessRetry, On
  <2>0. l \in S /\ World \in Worlds(S) /\ asked \in Questions \cup {0}
    BY <1>h
  <2> HIDE DEF S
  <2>2. v \in Worlds(S) /\ Stands(v, l, asked) /\ \A m \in S \ {l} : SameLoad(v, World, m)
    BY <2>0, BegunStands
  <2> HIDE DEF v
  <2>3. World' = v
    BY <2>1, <2>2, WorldSet
  <2>4. ASSUME NEW m \in S, Stands(World, m, asked)
        PROVE  Stands(v, m, asked)
    BY <2>2, <2>4, SameLoadStands
  <2> QED
    BY <2>1, <2>2, <2>3, <2>4, <1>h DEF S
<1> QED
  BY <1>1, <1>2, <1>3, <1>4, <1>5, <1>6, <1>7, <1>h

\* What the permissions section keeps: shown, opened, closed.
LEMMA SectionKeeps ==
  ASSUME PagesAssumption, PagesInv, page = "section",
         (\E q \in Questions : SectionShow(q)) \/ SectionToggle
  PROVE  PagesInv'
<1> DEFINE S == {"matrix"}
           d == Dropped(World, "matrix")
           v == IF mode' = "open" THEN Begun(d, "matrix", asked', FALSE) ELSE d
<1>s. LoadersOf["section"] = S /\ ModesOf["section"] = {"open", "closed"}
  BY DEF LoadersOf, ModesOf
<1>h. /\ mode \in {"open", "closed"} /\ asked \in Questions
      /\ typed \in Questions \cup {0} /\ World \in Worlds(S)
      /\ AnswersTo(World, "matrix", asked) /\ (mode = "open" => Tells(World, "matrix"))
  BY <1>s DEF PagesInv, PagesType, SectionInv
<1>q. SUFFICES /\ page' = "section" /\ mode' \in {"open", "closed"}
               /\ asked' \in Questions /\ typed' \in Questions \cup {0}
               /\ World' \in Worlds(S)
               /\ AnswersTo(World', "matrix", asked') /\ (mode' = "open" => Tells(World', "matrix"))
  <2>1. page' = "section" /\ page' \in DOMAIN LoadersOf
    BY DEF LoadersOf
  <2>2. PagesType'
    BY <1>s, <2>1 DEF PagesType
  <2>3. SectionInv'
    BY PagesAssumption DEF SectionInv
  <2> QED
    BY <2>1, <2>2, <2>3 DEF PagesInv, AccessInv, CertsInv, CompareInv, ImageInv, UpgradeInv,
       PathInv, NetworkInv
<1>l. ASSUME SetLoader(v), mode' \in {"open", "closed"}, asked' \in Questions
      PROVE  /\ World' \in Worlds(S) /\ AnswersTo(World', "matrix", asked')
             /\ (mode' = "open" => Tells(World', "matrix"))
  <2>1. d \in Worlds(S) /\ AnswersTo(d, "matrix", asked')
    BY <1>h, DroppedKeeps
  <2> HIDE DEF d
  <2>2. /\ v \in Worlds(S) /\ AnswersTo(v, "matrix", asked')
        /\ (mode' = "open" => Tells(v, "matrix"))
    BY <2>1, <1>l, BegunStands
  <2> QED
    BY <2>2, <1>l, WorldSet
<1>1. ASSUME NEW q \in Questions, SectionShow(q)
      PROVE  page' = "section" /\ mode' = mode /\ asked' = q /\ typed' = typed /\ SetLoader(v)
  BY <1>1 DEF SectionShow, SectionLoads, On
<1>2. ASSUME SectionToggle
      PROVE  /\ page' = "section" /\ mode' \in {"open", "closed"} /\ asked' = asked
             /\ typed' = typed
             /\ SetLoader(v) \/ (World' = World /\ Tells(World, "matrix"))
  <2>1. CASE loaders["matrix"].shown # 0 \/ loaders["matrix"].failed
    <3>1. page' = "section" /\ mode' \in {"open", "closed"} /\ asked' = asked /\ typed' = typed
          /\ SetLoader(World)
      BY <1>2, <2>1 DEF SectionToggle, On
    <3> QED
      BY <3>1, <2>1, <1>h, WorldSet DEF Tells, World
  <2>2. CASE ~(loaders["matrix"].shown # 0 \/ loaders["matrix"].failed)
    <3>1. page' = "section" /\ mode' \in {"open", "closed"} /\ asked' = asked /\ typed' = typed
      BY <1>2 DEF SectionToggle, On
    <3>2. SetLoader(SectionLoads(Dropped(World, "matrix")))
      BY <1>2, <2>2 DEF SectionToggle
    <3>3. SectionLoads(Dropped(World, "matrix")) = v
      BY DEF SectionLoads
    <3> HIDE DEF v
    <3> QED
      BY <3>1, <3>2, <3>3
  <2> QED
    BY <2>1, <2>2
<1> HIDE DEF v
<1> QED
  BY <1>1, <1>2, <1>l, <1>h

\* What the certificates page keeps when it loads again.
LEMMA CertsKeeps ==
  ASSUME PagesAssumption, PagesInv, page = "certs", CertsLoad
  PROVE  PagesInv'
<1> DEFINE S == {"certs"}
           b == Begun(World, "certs", asked', TRUE)
           r == [b.ld["certs"] EXCEPT !.failed = loaders["certs"].failed]
           v == [b EXCEPT !.ld["certs"].failed = loaders["certs"].failed]
<1>s. LoadersOf["certs"] = S /\ ModesOf["certs"] = {"-"}
  BY DEF LoadersOf, ModesOf
<1>h. mode = "-" /\ typed \in Questions \cup {0} /\ World \in Worlds(S)
  BY <1>s DEF PagesInv, PagesType, CertsInv
<1>1. /\ page' = "certs" /\ mode' = "-" /\ typed' = typed /\ asked' \in Questions
      /\ SetLoader(v)
  BY <1>h DEF CertsLoad, On
<1>2. b \in Worlds(S) /\ b.ld["certs"].busy /\ AnswersTo(b, "certs", asked')
  BY <1>1, <1>h, BegunStands
<1> HIDE DEF b
<1>3. b.ld["certs"] \in LoaderRecords /\ loaders["certs"].failed \in BOOLEAN
  BY <1>2, <1>h DEF World, Worlds, LoaderRecords
<1>4. /\ r \in LoaderRecords /\ r.busy
      /\ r.seq = b.ld["certs"].seq /\ r.seq >= b.ld["certs"].seq
  BY <1>2, <1>3 DEF LoaderRecords
<1>5. v = [ld |-> [b.ld EXCEPT !["certs"] = r], fl |-> b.fl]
  BY <1>2 DEF Worlds
<1> HIDE DEF r, v
<1>6. "certs" \in S
  OBVIOUS
<1> HIDE DEF S
<1>7. v \in Worlds(S)
  BY <1>2, <1>4, <1>5, <1>6, RecordSet
<1>8. b.ld \in [S -> LoaderRecords]
  BY <1>2 DEF Worlds
<1>9. v.fl = b.fl /\ v.ld["certs"] = r
  BY <1>5, <1>6, <1>8
<1>10. v \in Worlds(S) /\ v.ld["certs"] = r /\ Heard(v, "certs") = Heard(b, "certs")
  BY <1>7, <1>9, <1>4, RecordSetHeard
<1>11. Stands(v, "certs", asked')
  BY <1>10, <1>4, <1>2 DEF Stands, AnswersTo, Tells
<1>12. World' = v
  BY <1>1, <1>10, WorldSet
<1>13. page' \in DOMAIN LoadersOf
  BY <1>1 DEF LoadersOf
<1>14. PagesType'
  BY <1>s, <1>1, <1>h, <1>10, <1>12, <1>13 DEF PagesType
<1>15. CertsInv'
  BY <1>1, <1>11, <1>12, PagesAssumption DEF CertsInv
<1> QED
  BY <1>1, <1>14, <1>15 DEF PagesInv, AccessInv, SectionInv, CompareInv, ImageInv, UpgradeInv,
     PathInv, NetworkInv

\* What the comparison page keeps when a side changes or it is run again.
LEMMA CompareKeeps ==
  ASSUME PagesAssumption, PagesInv, page = "compare",
         (\E q \in Questions \cup {0} : CompareAsk(q)) \/ CompareReload
  PROVE  PagesInv'
<1> DEFINE S == {"cmp"}
<1>s. LoadersOf["compare"] = S /\ ModesOf["compare"] = {"-"}
  BY DEF LoadersOf, ModesOf
<1>h. /\ mode = "-" /\ typed \in Questions \cup {0} /\ asked \in Questions \cup {0}
      /\ World \in Worlds(S)
  BY <1>s DEF PagesInv, PagesType
<1>1. /\ page' = "compare" /\ mode' = "-" /\ typed' = typed /\ asked' \in Questions \cup {0}
      /\ CompareEffect
  BY <1>h DEF CompareAsk, CompareReload, On
<1>2. World' \in Worlds(S) /\ Stands(World', "cmp", asked')
  <2>1. CASE asked' # 0
    <3> DEFINE v == Begun(World, "cmp", asked', TRUE)
    <3>1. SetLoader(v)
      BY <1>1, <2>1 DEF CompareEffect
    <3>2. v \in Worlds(S) /\ Stands(v, "cmp", asked')
      BY <1>1, <1>h, BegunStands
    <3> QED
      BY <3>1, <3>2, WorldSet
  <2>2. CASE asked' = 0
    <3> DEFINE d == Dropped(World, "cmp")
               r == [d.ld["cmp"] EXCEPT !.busy = loaders["cmp"].busy]
               v == [d EXCEPT !.ld["cmp"].busy = loaders["cmp"].busy]
    <3>1. SetLoader(v)
      BY <1>1, <2>2 DEF CompareEffect
    <3>2. d \in Worlds(S)
      BY <1>h, DroppedKeeps
    <3> HIDE DEF d
    <3>3. d.ld["cmp"] \in LoaderRecords /\ loaders["cmp"].busy \in BOOLEAN
      BY <3>2, <1>h DEF World, Worlds, LoaderRecords
    <3>4. r \in LoaderRecords /\ r.seq = d.ld["cmp"].seq /\ r.seq >= d.ld["cmp"].seq
      BY <3>3 DEF LoaderRecords
    <3>5. v = [ld |-> [d.ld EXCEPT !["cmp"] = r], fl |-> d.fl]
      BY <3>2 DEF Worlds
    <3> HIDE DEF r, v
    <3>6. v \in Worlds(S)
      BY <3>2, <3>4, <3>5, RecordSet
    <3> QED
      BY <3>1, <3>6, <2>2, WorldSet DEF Stands
  <2> QED
    BY <2>1, <2>2
<1>3. PagesType'
  BY <1>s, <1>1, <1>2, <1>h DEF PagesType, LoadersOf
<1>4. CompareInv'
  BY <1>2 DEF CompareInv
<1> QED
  BY <1>1, <1>3, <1>4 DEF PagesInv, AccessInv, SectionInv, CertsInv, ImageInv, UpgradeInv,
     PathInv, NetworkInv

\* What the upgrade page keeps when a target is chosen or it is checked again.
LEMMA UpgradeKeeps ==
  ASSUME PagesAssumption, PagesInv, page = "upgrade",
         (\E q \in Questions : UpgradeTarget(q)) \/ UpgradeRecheck
  PROVE  PagesInv'
<1> DEFINE S == {"upg"}
           v == Begun(World, "upg", asked', TRUE)
<1>s. LoadersOf["upgrade"] = S /\ ModesOf["upgrade"] = {"-"}
  BY DEF LoadersOf, ModesOf
<1>h. /\ mode = "-" /\ typed \in Questions \cup {0} /\ asked \in Questions \cup {0}
      /\ World \in Worlds(S)
  BY <1>s DEF PagesInv, PagesType
<1>1. /\ page' = "upgrade" /\ mode' = "-" /\ typed' = typed /\ asked' \in Questions \cup {0}
      /\ SetLoader(v)
  BY <1>h DEF UpgradeTarget, UpgradeRecheck, On
<1>2. v \in Worlds(S) /\ Stands(v, "upg", asked')
  BY <1>1, <1>h, BegunStands
<1> HIDE DEF v
<1>3. World' = v
  BY <1>1, <1>2, WorldSet
<1>4. PagesType'
  BY <1>s, <1>1, <1>2, <1>3, <1>h DEF PagesType, LoadersOf
<1>5. UpgradeInv'
  BY <1>2, <1>3 DEF UpgradeInv
<1> QED
  BY <1>1, <1>4, <1>5 DEF PagesInv, AccessInv, SectionInv, CertsInv, CompareInv, ImageInv,
     PathInv, NetworkInv

\* The image page, in a world, under a view, an image and a file.
ImageFine(w, m, a, t) ==
  /\ a # 0 /\ Stands(w, "info", a)
  /\ IF m = "files" /\ w.ld["info"].shown # 0
     THEN Stands(w, "dir", a) /\ Stands(w, "file", t)
     ELSE t = 0

\* What the image inspector keeps: image, view and file chosen, and the retry.
LEMMA ImageKeeps ==
  ASSUME PagesAssumption, PagesInv, page = "image",
         \/ \E q \in Questions : ImageAsk(q) \/ OpenFile(q)
         \/ \E m \in {"overview", "files"} : ImageView(m)
         \/ FilesRetry
  PROVE  PagesInv'
<1> DEFINE S == {"info", "dir", "file"}
           d1 == Dropped(World, "dir")
           d2 == Dropped(d1, "file")
           Goal == /\ page' = "image" /\ mode' \in {"overview", "files"}
                   /\ typed' \in Questions \cup {0} /\ asked' \in Questions \cup {0}
                   /\ World' \in Worlds(S) /\ ImageFine(World', mode', asked', typed')
<1>s. LoadersOf["image"] = S /\ ModesOf["image"] = {"overview", "files"}
  BY DEF LoadersOf, ModesOf
<1>h. /\ mode \in {"overview", "files"} /\ typed \in Questions \cup {0}
      /\ asked \in Questions \cup {0}
      /\ World \in Worlds(S) /\ ImageFine(World, mode, asked, typed)
  BY <1>s DEF PagesInv, PagesType, ImageInv, ImageFine, FilesDrawn, World
<1>q. SUFFICES Goal
  <2>1. PagesType'
    BY <1>s DEF PagesType, LoadersOf
  <2>2. ImageInv'
    BY DEF ImageInv, ImageFine, FilesDrawn, World
  <2> QED
    BY <2>1, <2>2 DEF PagesInv, AccessInv, SectionInv, CertsInv, CompareInv, UpgradeInv,
       PathInv, NetworkInv
<1>e. /\ "info" \in S /\ "dir" \in S /\ "file" \in S
      /\ "info" # "dir" /\ "info" # "file" /\ "dir" # "file"
  OBVIOUS
<1> HIDE DEF S
<1>f. FilesUnmounted(World) = d2
  BY DEF FilesUnmounted
<1>u. d2 \in Worlds(S) /\ SameLoad(d2, World, "info")
  <2>1. d1 \in Worlds(S) /\ SameLoad(d1, World, "info")
    BY <1>h, <1>e, DroppedKeeps
  <2> HIDE DEF d1
  <2>2. d2 \in Worlds(S) /\ SameLoad(d2, d1, "info")
    BY <2>1, <1>e, DroppedKeeps
  <2> QED
    BY <2>1, <2>2 DEF SameLoad
<1> HIDE DEF d1, d2
<1>i. Stands(World, "info", asked) /\ asked # 0
  BY <1>h DEF ImageFine
<1>j. Stands(d2, "info", asked) /\ d2.ld["info"] = World.ld["info"]
  BY <1>u, <1>i, SameLoadStands DEF SameLoad
<1>1. ASSUME NEW q \in Questions, ImageAsk(q)
      PROVE  Goal
  <2> DEFINE v == Begun(d2, "info", q, FALSE)
  <2>1. page' = "image" /\ asked' = q /\ typed' = 0 /\ mode' = mode /\ SetLoader(v)
    BY <1>1, <1>f DEF ImageAsk, On
  <2>2. v \in Worlds(S) /\ Stands(v, "info", q) /\ v.ld["info"].shown = 0
    BY <1>u, <1>e, BegunStands
  <2> HIDE DEF v
  <2>3. World' = v
    BY <2>1, <2>2, WorldSet
  <2>4. q # 0
    BY PagesAssumption
  <2> QED
    BY <2>1, <2>2, <2>3, <2>4, <1>h DEF ImageFine
<1>2. ASSUME NEW m \in {"overview", "files"}, ImageView(m)
      PROVE  Goal
  <2>1. /\ page' = "image" /\ asked' = asked /\ typed' = 0 /\ mode' = m
        /\ SetLoader(IF loaders["info"].shown = 0 THEN World
                     ELSE IF m = "files" THEN FilesMounted(World) ELSE d2)
    BY <1>2, <1>f DEF ImageView, On
  <2>2. CASE loaders["info"].shown = 0
    <3>1. World' = World
      BY <2>1, <2>2, <1>h, WorldSet
    <3> QED
      BY <3>1, <2>1, <2>2, <1>h, <1>i DEF ImageFine, World
  <2>3. CASE loaders["info"].shown # 0 /\ m = "files"
    <3> DEFINE v == Begun(d2, "dir", asked, FALSE)
    <3>1. SetLoader(v)
      BY <2>1, <2>3, <1>f DEF FilesMounted
    <3>2. v \in Worlds(S) /\ Stands(v, "dir", asked) /\ SameLoad(v, d2, "info")
      BY <1>u, <1>h, <1>e, BegunStands
    <3> HIDE DEF v
    <3>3. World' = v
      BY <3>1, <3>2, WorldSet
    <3>4. Stands(v, "info", asked) /\ v.ld["info"].shown # 0
      BY <3>2, <1>j, <2>3, SameLoadStands DEF SameLoad, World
    <3> QED
      BY <2>1, <3>2, <3>3, <3>4, <1>i, <1>h DEF ImageFine, Stands
  <2>4. CASE loaders["info"].shown # 0 /\ m # "files"
    <3>1. SetLoader(d2)
      BY <2>1, <2>4
    <3>2. World' = d2
      BY <3>1, <1>u, WorldSet
    <3> QED
      BY <3>2, <2>1, <2>4, <1>u, <1>j, <1>i, <1>h DEF ImageFine
  <2> QED
    BY <2>2, <2>3, <2>4
<1>3. ASSUME NEW q \in Questions, OpenFile(q)
      PROVE  Goal
  <2> DEFINE v == Begun(World, "file", q, TRUE)
  <2>1. /\ page' = "image" /\ asked' = asked /\ typed' = q /\ mode' = mode /\ mode = "files"
        /\ World.ld["info"].shown # 0 /\ SetLoader(v)
    BY <1>3 DEF OpenFile, On, FilesDrawn, World
  <2>2. /\ v \in Worlds(S) /\ Stands(v, "file", q)
        /\ SameLoad(v, World, "info") /\ SameLoad(v, World, "dir")
    BY <1>h, <1>e, BegunStands
  <2> HIDE DEF v
  <2>3. World' = v
    BY <2>1, <2>2, WorldSet
  <2>4. Stands(v, "info", asked) /\ Stands(v, "dir", asked) /\ v.ld["info"].shown # 0
    BY <2>1, <2>2, <1>h, SameLoadStands DEF ImageFine, SameLoad
  <2> QED
    BY <2>1, <2>2, <2>3, <2>4, <1>i, <1>h DEF ImageFine
<1>4. ASSUME FilesRetry
      PROVE  Goal
  <2> DEFINE v == Begun(World, "dir", asked, FALSE)
  <2>1. /\ page' = "image" /\ asked' = asked /\ typed' = typed /\ mode' = mode /\ mode = "files"
        /\ World.ld["info"].shown # 0 /\ SetLoader(v)
    BY <1>4 DEF FilesRetry, On, FilesDrawn, World
  <2>2. /\ v \in Worlds(S) /\ Stands(v, "dir", asked)
        /\ SameLoad(v, World, "info") /\ SameLoad(v, World, "file")
    BY <1>h, <1>e, BegunStands
  <2> HIDE DEF v
  <2>3. World' = v
    BY <2>1, <2>2, WorldSet
  <2>4. Stands(v, "info", asked) /\ Stands(v, "file", typed) /\ v.ld["info"].shown # 0
    BY <2>1, <2>2, <1>h, SameLoadStands DEF ImageFine, SameLoad
  <2> QED
    BY <2>1, <2>2, <2>3, <2>4, <1>i, <1>h DEF ImageFine
<1> HIDE DEF Goal
<1> QED
  BY <1>1, <1>2, <1>3, <1>4

\* The path page, in a world.
PathFine(w) ==
  /\ w.ld["path"].busy => Heard(w, "path") # {}
  /\ (w.ld["path"].shown # 0 /\ ~w.ld["path"].busy /\ ~w.ld["path"].failed)
       => w.ld["path"].of = w.ld["path"].seq

\* The path's loader, the same in two worlds, is fine in both.
LEMMA SamePathFine ==
  ASSUME NEW v, NEW w, SameLoad(v, w, "path"), PathFine(w)
  PROVE  PathFine(v)
  BY DEF SameLoad, PathFine

\* An answer on show is taken away: the record that leaves.
LEMMA ShownGone ==
  ASSUME NEW S, NEW w \in Worlds(S), NEW l \in S
  PROVE  LET r == [w.ld[l] EXCEPT !.shown = 0] IN
         /\ [w EXCEPT !.ld[l].shown = 0] = [ld |-> [w.ld EXCEPT ![l] = r], fl |-> w.fl]
         /\ r \in LoaderRecords /\ r.seq = w.ld[l].seq /\ r.seq >= w.ld[l].seq
         /\ r.shown = 0 /\ r.busy = w.ld[l].busy
<1>1. w.ld \in [S -> LoaderRecords] /\ w \in [ld : [S -> LoaderRecords], fl : SUBSET Requests(S)]
  BY DEF Worlds
<1>2. w.ld[l] \in LoaderRecords
  BY <1>1
<1> QED
  BY <1>1, <1>2 DEF LoaderRecords

\* An answer and its error are taken away: the other loaders are as they were.
LEMMA ProbeReset ==
  ASSUME NEW S, NEW w \in Worlds(S), NEW l \in S
  PROVE  LET r == [w.ld[l] EXCEPT !.shown = 0, !.failed = FALSE]
             v == [w EXCEPT !.ld[l] = r] IN
         v \in Worlds(S) /\ \A m \in S \ {l} : SameLoad(v, w, m)
<1> DEFINE r == [w.ld[l] EXCEPT !.shown = 0, !.failed = FALSE]
           v == [w EXCEPT !.ld[l] = r]
<1>1. /\ w.ld \in [S -> LoaderRecords]
      /\ w \in [ld : [S -> LoaderRecords], fl : SUBSET Requests(S)]
  BY DEF Worlds
<1>2. r \in LoaderRecords /\ r.seq = w.ld[l].seq /\ w.ld[l].seq \in Nat
  BY <1>1 DEF LoaderRecords
<1>3. v = [ld |-> [w.ld EXCEPT ![l] = r], fl |-> w.fl] /\ r.seq >= w.ld[l].seq
  BY <1>1, <1>2
<1> HIDE DEF r, v
<1>4. v \in Worlds(S) /\ \A m \in S \ {l} : SameLoad(v, w, m)
  BY <1>2, <1>3, RecordSet
<1> QED
  BY <1>4 DEF r, v

\* A check is started in a world: the probe's answer goes with it.
LEMMA PathRunsFine ==
  ASSUME NEW w \in Worlds({"path", "probe"}), NEW q \in Questions \cup {0},
         LET b == Begun(w, "path", q, TRUE) IN
         SetLoader([b EXCEPT !.ld["probe"] = [@ EXCEPT !.shown = 0, !.failed = FALSE]])
  PROVE  World' \in Worlds({"path", "probe"}) /\ PathFine(World')
<1> DEFINE S == {"path", "probe"}
           b == Begun(w, "path", q, TRUE)
           v == [b EXCEPT !.ld["probe"] = [b.ld["probe"] EXCEPT !.shown = 0, !.failed = FALSE]]
<1>e. "path" \in S /\ "probe" \in S /\ "path" # "probe" /\ w \in Worlds(S)
  OBVIOUS
<1>s. SetLoader(v)
  OBVIOUS
<1> HIDE DEF S
<1>1. b \in Worlds(S) /\ b.ld["path"].busy /\ AnswersTo(b, "path", q)
  BY <1>e, BegunStands
<1> HIDE DEF b
<1>2. PathFine(b)
  BY <1>1 DEF PathFine, AnswersTo
<1>3. v \in Worlds(S) /\ SameLoad(v, b, "path")
  BY <1>1, <1>e, ProbeReset
<1> HIDE DEF v
<1>4. World' = v
  BY <1>3, <1>s, WorldSet
<1>5. PathFine(v)
  BY <1>2, <1>3, SamePathFine
<1> QED
  BY <1>3, <1>4, <1>5 DEF S

\* What the path checker keeps: ends picked, a check run or asked for by the
\* palette, a probe.
LEMMA PathKeeps ==
  ASSUME PagesAssumption, PagesInv, page = "path",
         \/ \E q \in Questions : PathPick(q) \/ PathIntent(q)
         \/ PathRun \/ PathProbe
  PROVE  PagesInv'
<1> DEFINE S == {"path", "probe"}
           p == [World EXCEPT !.ld["path"].shown = 0]
           r == [World.ld["path"] EXCEPT !.shown = 0]
           Goal == /\ page' = "path" /\ mode' = "-"
                   /\ typed' \in Questions \cup {0} /\ asked' \in Questions \cup {0}
                   /\ World' \in Worlds(S) /\ PathFine(World')
<1>s. LoadersOf["path"] = S /\ ModesOf["path"] = {"-"}
  BY DEF LoadersOf, ModesOf
<1>h. /\ mode = "-" /\ typed \in Questions \cup {0} /\ asked \in Questions \cup {0}
      /\ World \in Worlds(S) /\ PathFine(World)
  BY <1>s DEF PagesInv, PagesType, PathInv, PathFine, World
<1>q. SUFFICES Goal
  <2>1. PagesType'
    BY <1>s DEF PagesType, LoadersOf
  <2>2. PathInv'
    BY DEF PathInv, PathFine, World
  <2> QED
    BY <2>1, <2>2 DEF PagesInv, AccessInv, SectionInv, CertsInv, CompareInv, ImageInv,
       UpgradeInv, NetworkInv
<1>e. "path" \in S /\ "probe" \in S /\ "path" # "probe"
  OBVIOUS
<1> HIDE DEF S
<1>p. p \in Worlds(S) /\ PathFine(p)
  <2>1. /\ p = [ld |-> [World.ld EXCEPT !["path"] = r], fl |-> World.fl]
        /\ r \in LoaderRecords /\ r.seq = World.ld["path"].seq /\ r.seq >= World.ld["path"].seq
        /\ r.shown = 0 /\ r.busy = World.ld["path"].busy
    BY <1>h, <1>e, ShownGone
  <2> HIDE DEF p, r
  <2>6. World.ld \in [S -> LoaderRecords]
    BY <1>h DEF Worlds
  <2>4. p.fl = World.fl /\ p.ld["path"] = r
    BY <2>1, <2>6, <1>e
  <2>5. p \in Worlds(S)
    BY <2>1, <1>h, <1>e, RecordSet
  <2>2. p \in Worlds(S) /\ p.ld["path"] = r /\ p.fl = World.fl
    BY <2>4, <2>5
  <2>3. Heard(p, "path") = Heard(World, "path")
    BY <2>1, <2>2, RecordSetHeard
  <2> QED
    BY <2>1, <2>2, <2>3, <1>h DEF PathFine
<1>1. ASSUME NEW q \in Questions, PathPick(q)
      PROVE  Goal
  <2>1. page' = "path" /\ mode' = mode /\ typed' = q /\ asked' = asked /\ SetLoader(p)
    BY <1>1 DEF PathPick, On
  <2> HIDE DEF p
  <2> QED
    BY <2>1, <1>p, <1>h, WorldSet
<1>2. ASSUME NEW q \in Questions, PathIntent(q)
      PROVE  Goal
  <2> DEFINE b == Begun(p, "path", q, TRUE)
  <2>1. /\ page' = "path" /\ mode' = mode /\ typed' = q /\ asked' = q
        /\ SetLoader([b EXCEPT !.ld["probe"] = [@ EXCEPT !.shown = 0, !.failed = FALSE]])
    BY <1>2 DEF PathIntent, On
  <2> HIDE DEF p
  <2>2. World' \in Worlds(S) /\ PathFine(World')
    BY <2>1, <1>p, PathRunsFine DEF S
  <2> QED
    BY <2>1, <2>2, <1>h
<1>3. ASSUME PathRun
      PROVE  Goal
  <2> DEFINE b == Begun(World, "path", typed, TRUE)
  <2>1. /\ page' = "path" /\ mode' = mode /\ typed' = typed /\ asked' = typed
        /\ SetLoader([b EXCEPT !.ld["probe"] = [@ EXCEPT !.shown = 0, !.failed = FALSE]])
    BY <1>3 DEF PathRun, PathRuns, On
  <2>2. World' \in Worlds(S) /\ PathFine(World')
    BY <2>1, <1>h, PathRunsFine DEF S
  <2> QED
    BY <2>1, <2>2, <1>h
<1>4. ASSUME PathProbe
      PROVE  Goal
  <2> DEFINE v == Begun(World, "probe", typed, TRUE)
  <2>1. page' = "path" /\ mode' = mode /\ typed' = typed /\ asked' = asked /\ SetLoader(v)
    BY <1>4 DEF PathProbe, On
  <2>2. v \in Worlds(S) /\ SameLoad(v, World, "path")
    BY <1>h, <1>e, BegunStands
  <2> HIDE DEF v
  <2> QED
    BY <2>1, <2>2, <1>h, WorldSet, SamePathFine
<1> HIDE DEF Goal
<1> QED
  BY <1>1, <1>2, <1>3, <1>4

\* What the network page keeps when a view is entered or it is asked again.
LEMMA NetworkKeeps ==
  ASSUME PagesAssumption, PagesInv, page = "network",
         \/ \E m \in {"path", "coverage", "traffic"} : NetworkView(m)
         \/ \E q \in Questions : NetworkAsk(q)
  PROVE  PagesInv'
<1> DEFINE S == {"coverage", "traffic"}
           n == NetworkLeft
           Goal == /\ page' = "network" /\ mode' \in S \cup {"path"}
                   /\ typed' \in Questions \cup {0} /\ asked' \in Questions \cup {0}
                   /\ World' \in Worlds(S)
                   /\ mode' # "path" => Stands(World', mode', asked')
<1>s. LoadersOf["network"] = S /\ ModesOf["network"] = S \cup {"path"}
  BY DEF LoadersOf, ModesOf
<1>h. /\ mode \in S \cup {"path"} /\ typed \in Questions \cup {0} /\ asked \in Questions \cup {0}
      /\ World \in Worlds(S)
  BY <1>s DEF PagesInv, PagesType
<1>q. SUFFICES Goal
  <2>1. PagesType'
    BY <1>s DEF PagesType, LoadersOf
  <2>2. NetworkInv'
    BY DEF NetworkInv
  <2> QED
    BY <2>1, <2>2 DEF PagesInv, AccessInv, SectionInv, CertsInv, CompareInv, ImageInv,
       UpgradeInv, PathInv
<1>l. ASSUME NEW w \in Worlds(S), SetLoader(NetworkLoads(w)), mode' \in S \cup {"path"},
             asked' \in Questions \cup {0}
      PROVE  World' \in Worlds(S) /\ (mode' # "path" => Stands(World', mode', asked'))
  <2>1. CASE mode' = "path"
    <3>1. NetworkLoads(w) = w
      BY <2>1 DEF NetworkLoads
    <3> QED
      BY <3>1, <2>1, <1>l, WorldSet
  <2>2. CASE mode' # "path"
    <3> DEFINE v == Begun(w, mode', asked', TRUE)
    <3>1. NetworkLoads(w) = v
      BY <2>2 DEF NetworkLoads
    <3>2. mode' \in S
      BY <2>2, <1>l
    <3> HIDE DEF S
    <3>3. v \in Worlds(S) /\ Stands(v, mode', asked')
      BY <3>2, <1>l, BegunStands
    <3> HIDE DEF v
    <3> QED
      BY <3>1, <3>3, <1>l, WorldSet
  <2> QED
    BY <2>1, <2>2
<1>n. n \in Worlds(S)
  <2>1. CASE mode = "path"
    BY <2>1, <1>h DEF NetworkLeft
  <2>2. CASE mode # "path"
    <3> DEFINE r == [World.ld[mode] EXCEPT !.seq = World.ld[mode].seq + 1]
    <3>1. mode \in S
      BY <2>2, <1>h
    <3> HIDE DEF S
    <3>2. /\ World.ld[mode] \in LoaderRecords
          /\ World \in [ld : [S -> LoaderRecords], fl : SUBSET Requests(S)]
      BY <1>h, <3>1 DEF Worlds
    <3>3. n = [ld |-> [World.ld EXCEPT ![mode] = r], fl |-> World.fl]
      BY <2>2, <3>1, <3>2 DEF NetworkLeft
    <3>4. r \in LoaderRecords /\ r.seq >= World.ld[mode].seq
      BY <3>2 DEF LoaderRecords
    <3> HIDE DEF n, r
    <3> QED
      BY <3>1, <3>3, <3>4, <1>h, RecordSet
  <2> QED
    BY <2>1, <2>2
<1>1. ASSUME NEW m \in {"path", "coverage", "traffic"}, NetworkView(m)
      PROVE  Goal
  <2>1. /\ page' = "network" /\ mode' = m /\ typed' = typed /\ asked' = asked
        /\ SetLoader(NetworkLoads(n))
    BY <1>1 DEF NetworkView, On
  <2> HIDE DEF n
  <2> QED
    BY <2>1, <1>n, <1>h, <1>l
<1>2. ASSUME NEW q \in Questions, NetworkAsk(q)
      PROVE  Goal
  <2>1. /\ page' = "network" /\ mode' = mode /\ typed' = typed /\ asked' = q
        /\ SetLoader(NetworkLoads(World))
    BY <1>2 DEF NetworkAsk, On
  <2> QED
    BY <2>1, <1>h, <1>l
<1> HIDE DEF Goal
<1> QED
  BY <1>1, <1>2

\* A step of the loads alone that answers no other question than before, and
\* leaves a page that showed something showing something.
LEMMA LoadsKeep ==
  ASSUME PagesAssumption, PagesInv, page' = page, mode' = mode, typed' = typed, asked' = asked,
         World' \in Worlds(LoadersOf[page]),
         \A m \in LoadersOf[page] : \A a \in Questions : AnswersTo(World, m, a) =>
             AnswersTo(World', m, a) /\ (Tells(World, m) => Tells(World', m)),
         page = "path" => PathFine(World'),
         page = "image" /\ mode = "files" =>
             (World'.ld["info"].shown # 0 <=> World.ld["info"].shown # 0)
  PROVE  PagesInv'
<1>1. ASSUME NEW m \in LoadersOf[page], NEW a \in Questions \cup {0}, Stands(World, m, a)
      PROVE  Stands(World', m, a)
  BY <1>1 DEF Stands
<1>t. asked \in Questions \cup {0} /\ typed \in Questions \cup {0}
  BY DEF PagesInv, PagesType
<1>2. PagesType'
  BY DEF PagesInv, PagesType
<1>3. AccessInv'
  <2>1. page = "access" => {"who", "can", "mine"} \subseteq LoadersOf[page]
    BY DEF LoadersOf
  <2> QED
    BY <2>1, <1>1, <1>t DEF PagesInv, AccessInv
<1>4. SectionInv'
  <2>1. page = "section" => "matrix" \in LoadersOf[page]
    BY DEF LoadersOf
  <2> QED
    BY <2>1, <1>t DEF PagesInv, SectionInv
<1>5. CertsInv'
  <2>1. page = "certs" => "certs" \in LoadersOf[page]
    BY DEF LoadersOf
  <2> QED
    BY <2>1, <1>1, <1>t DEF PagesInv, CertsInv
<1>6. CompareInv'
  <2>1. page = "compare" => "cmp" \in LoadersOf[page]
    BY DEF LoadersOf
  <2> QED
    BY <2>1, <1>1, <1>t DEF PagesInv, CompareInv
<1>7. ImageInv'
  <2> SUFFICES ASSUME page = "image"
               PROVE  ImageInv'
    BY DEF ImageInv
  <2>1. "info" \in LoadersOf[page] /\ "dir" \in LoadersOf[page] /\ "file" \in LoadersOf[page]
    BY DEF LoadersOf
  <2>2. FilesDrawn' <=> FilesDrawn
    BY DEF FilesDrawn, World
  <2>3. /\ asked # 0 /\ Stands(World, "info", asked)
        /\ FilesDrawn => Stands(World, "dir", asked) /\ Stands(World, "file", typed)
        /\ ~FilesDrawn => typed = 0
    BY DEF PagesInv, ImageInv
  <2> QED
    BY <2>1, <2>2, <2>3, <1>1, <1>t DEF ImageInv
<1>8. UpgradeInv'
  <2>1. page = "upgrade" => "upg" \in LoadersOf[page]
    BY DEF LoadersOf
  <2> QED
    BY <2>1, <1>1, <1>t DEF PagesInv, UpgradeInv
<1>9. PathInv'
  BY DEF PathInv, PathFine, World
<1>10. NetworkInv'
  <2>1. page = "network" => (mode # "path" => mode \in LoadersOf[page])
    BY DEF PagesInv, PagesType, LoadersOf, ModesOf
  <2> QED
    BY <2>1, <1>1, <1>t DEF PagesInv, NetworkInv
<1> QED
  BY <1>2, <1>3, <1>4, <1>5, <1>6, <1>7, <1>8, <1>9, <1>10 DEF PagesInv

\* What a loader holds once an answer was heard, and under the question it is
\* shown for.
Heeded(f) == [loaders[f.l] EXCEPT !.shown = f.q, !.of = f.n, !.busy = FALSE, !.failed = FALSE]
Replied(f, q) == [Heeded(f) EXCEPT !.shown = q]

\* The record an answer leaves: of the same load, neither busy nor failed.
LEMMA RepliedRecord ==
  ASSUME NEW f, loaders[f.l] \in LoaderRecords, f.n \in Nat, f.q \in Questions \cup {0},
         NEW q \in Questions \cup {0}
  PROVE  /\ Replied(f, q) \in LoaderRecords
         /\ Replied(f, q).seq = loaders[f.l].seq /\ ~Replied(f, q).busy
         /\ ~Replied(f, q).failed /\ Replied(f, q).shown = q /\ Replied(f, q).of = f.n
<1>1. /\ Heeded(f) \in LoaderRecords /\ Heeded(f).seq = loaders[f.l].seq
      /\ ~Heeded(f).busy /\ ~Heeded(f).failed /\ Heeded(f).of = f.n
  BY DEF Heeded, LoaderRecords
<1> QED
  BY <1>1 DEF Replied, LoaderRecords

\* The loaders and requests once a request left with its loader settled.
LEMMA SettledFields ==
  ASSUME NEW S, World \in Worlds(S), NEW f, f.l \in S, NEW r,
         NEW v, v = [World EXCEPT !.ld[f.l] = r, !.fl = flights \ {f}]
  PROVE  /\ v.ld = [loaders EXCEPT ![f.l] = r] /\ v.fl = flights \ {f}
         /\ v = [ld |-> v.ld, fl |-> v.fl]
<1>1. /\ World \in [ld : [S -> LoaderRecords], fl : SUBSET Requests(S)]
      /\ World.ld = loaders /\ World.fl = flights
  BY DEF Worlds, World
<1> QED
  BY <1>1

\* An answer that is heard: its loader shows it and so answers the question it was
\* asked; the other loaders are as they were.
LEMMA RepliedStands ==
  ASSUME NEW S, World \in Worlds(S), NEW f \in flights, IsCurrent(f),
         NEW q \in Questions \cup {0}
  PROVE  LET v == [PageAnswered(f) EXCEPT !.ld[f.l].shown = q] IN
         /\ v \in Worlds(S) /\ v.ld[f.l] = Replied(f, q)
         /\ \A m \in S \ {f.l} : SameLoad(v, World, m)
         /\ \A a \in Questions : AnswersTo(World, f.l, a) /\ q = f.q =>
               AnswersTo(v, f.l, a) /\ Tells(v, f.l)
<1> DEFINE v == [PageAnswered(f) EXCEPT !.ld[f.l].shown = q]
           r == Replied(f, q)
<1>w. /\ World.ld \in [S -> LoaderRecords] /\ World.fl \in SUBSET Requests(S)
      /\ World \in [ld : [S -> LoaderRecords], fl : SUBSET Requests(S)]
      /\ World.ld = loaders /\ World.fl = flights
  BY DEF Worlds, World
<1>f. /\ f.l \in S /\ f.n \in Nat /\ f.q \in Questions \cup {0}
      /\ f \in Heard(World, f.l)
  BY <1>w DEF Requests, Heard, IsCurrent
<1>l. loaders[f.l] \in LoaderRecords
  BY <1>w, <1>f
<1>1. /\ r \in LoaderRecords
      /\ r.seq = loaders[f.l].seq /\ ~r.busy /\ ~r.failed /\ r.shown = q
  BY <1>l, <1>f, RepliedRecord
<1>3. v = [ld |-> [World.ld EXCEPT ![f.l] = r], fl |-> World.fl \ {f}]
  <2> DEFINE p == [World EXCEPT !.ld[f.l] = Heeded(f), !.fl = flights \ {f}]
  <2>1. PageAnswered(f) = p
    BY <1>w DEF PageAnswered, Heeded
  <2>3. /\ p.ld = [loaders EXCEPT ![f.l] = Heeded(f)] /\ p.fl = flights \ {f}
        /\ p = [ld |-> p.ld, fl |-> p.fl]
    BY <1>f, SettledFields
  <2> HIDE DEF p
  <2>4. v = [ld |-> [p.ld EXCEPT ![f.l] = [p.ld[f.l] EXCEPT !.shown = q]], fl |-> p.fl]
    BY <2>1, <2>3
  <2>5. p.ld[f.l] = Heeded(f) /\ DOMAIN p.ld = S
    BY <2>3, <1>w, <1>f
  <2>6. [p.ld EXCEPT ![f.l] = r] = [loaders EXCEPT ![f.l] = r]
    BY <2>3, <1>w, <1>f
  <2> QED
    BY <2>3, <2>4, <2>5, <2>6, <1>w DEF Replied
<1> HIDE DEF v, r
<1>g. f \in World.fl /\ r.seq = World.ld[f.l].seq
  BY <1>w, <1>1
<1>2. r.seq = World.ld[f.l].seq /\ ~r.busy /\ ~r.failed /\ r.shown = q
  BY <1>1, <1>w
<1>4. v \in Worlds(S)
  BY <1>g, <1>1, <1>3, SettledKeeps
<1>11. v.fl = World.fl \ {f} /\ \A m \in S \ {f.l} : v.ld[m] = World.ld[m]
  BY <1>3, <1>w
<1>9. \A m \in S \ {f.l} : SameLoad(v, World, m)
  BY <1>11 DEF SameLoad, Heard
<1>6. v.ld[f.l] = r
  BY <1>3, <1>w, <1>f
<1>10. Heard(v, f.l) \subseteq Heard(World, f.l)
  BY <1>11, <1>6, <1>g DEF Heard
<1>7. r.shown # 0 => Tells(v, f.l)
  BY <1>6 DEF Tells
<1>8. ASSUME NEW a, \A g \in Heard(World, f.l) : g.q = a, r.shown = a
      PROVE  AnswersTo(v, f.l, a)
  BY <1>8, <1>10, <1>6, <1>1 DEF AnswersTo
<1>5. ASSUME NEW a \in Questions, AnswersTo(World, f.l, a), q = f.q
      PROVE  AnswersTo(v, f.l, a) /\ Tells(v, f.l)
  <2>1. \A g \in Heard(World, f.l) : g.q = a
    BY <1>5 DEF AnswersTo
  <2>2. q = a /\ a # 0
    BY <2>1, <1>f, <1>5, PagesAssumption
  <2> QED
    BY <2>1, <2>2, <1>2, <1>7, <1>8
<1> QED
  BY <1>4, <1>5, <1>6, <1>9 DEF v, r
\* What a loader holds once its load failed.
Broken(f) == [loaders[f.l] EXCEPT !.busy = FALSE, !.failed = TRUE,
                                  !.shown = IF Wiped(f) THEN 0 ELSE loaders[f.l].shown]

\* The part of the invariant every step starts from.
LEMMA PageTypeHolds ==
  ASSUME PagesInv
  PROVE  World \in Worlds(LoadersOf[page]) /\ asked \in Questions \cup {0}
  BY DEF PagesInv, PagesType

\* A request that is no longer heard leaves what every loader shows.
LEMMA StaleStep ==
  ASSUME PagesAssumption, PagesInv, page' = page, mode' = mode, typed' = typed, asked' = asked,
         NEW f \in flights, ~IsCurrent(f), SetLoader(Ignored(f))
  PROVE  PagesInv'
<1> DEFINE S == LoadersOf[page]
           v == Ignored(f)
<1>1. World \in Worlds(S) /\ World.ld = loaders /\ World.fl = flights
  BY PageTypeHolds, WorldFields
<1>2. World \in [ld : [S -> LoaderRecords], fl : SUBSET Requests(S)]
  BY <1>1 DEF Worlds
<1>3. v = [ld |-> World.ld, fl |-> World.fl \ {f}]
  <2> HIDE DEF S
  <2>1. v = [World EXCEPT !.fl = World.fl \ {f}]
    BY DEF Ignored
  <2> HIDE DEF v
  <2> QED
    BY <1>2, <2>1
<1>4. World.ld[f.l].seq # f.n /\ f \in World.fl
  BY <1>1 DEF IsCurrent
<1> HIDE DEF v, S
<1>5. v \in Worlds(S) /\ \A m \in S : SameLoad(v, World, m)
  BY <1>1, <1>3, <1>4, StaleKeeps
<1>6. World' = v
  BY <1>5, WorldSet DEF v
<1>7. \A m \in S : \A a \in Questions : AnswersTo(World, m, a) =>
             AnswersTo(v, m, a) /\ (Tells(World, m) => Tells(v, m))
  BY <1>5, SameLoadStands
<1>8. page = "path" => PathFine(v)
  <2>1. page = "path" => "path" \in S /\ PathFine(World)
    BY DEF PagesInv, PathInv, PathFine, World, LoadersOf, S
  <2> QED
    BY <2>1, <1>5, SamePathFine
<1>9. page = "image" => v.ld["info"] = World.ld["info"]
  <2>1. page = "image" => "info" \in S
    BY DEF LoadersOf, S
  <2> QED
    BY <2>1, <1>5 DEF SameLoad
<1> QED
  BY <1>5, <1>6, <1>7, <1>8, <1>9, LoadsKeep DEF S

\* The loaders and requests once a load failed.
LEMMA FailedFields ==
  ASSUME NEW S, World \in Worlds(S), NEW f, f.l \in S
  PROVE  /\ PageFailed(f).ld = [loaders EXCEPT ![f.l] = Broken(f)]
         /\ PageFailed(f).fl = flights \ {f}
         /\ PageFailed(f) = [ld |-> PageFailed(f).ld, fl |-> PageFailed(f).fl]
<1> DEFINE v == [World EXCEPT !.ld[f.l] = Broken(f), !.fl = flights \ {f}]
<1>1. World.ld = loaders /\ World.fl = flights
  BY DEF World
<1>2. PageFailed(f) = v
  BY <1>1 DEF PageFailed, Broken
<1>3. /\ v.ld = [loaders EXCEPT ![f.l] = Broken(f)] /\ v.fl = flights \ {f}
      /\ v = [ld |-> v.ld, fl |-> v.fl]
  BY SettledFields
<1> HIDE DEF v
<1> QED
  BY <1>2, <1>3

\* A failure, heard or not, keeps the invariant of every page.
LEMMA FailsKeeps ==
  ASSUME PagesAssumption, PagesInv, NEW f \in flights, Fails(f)
  PROVE  PagesInv'
<1> DEFINE S == LoadersOf[page]
           r == Broken(f)
           v == PageFailed(f)
<1>1. /\ World \in Worlds(S) /\ World.ld = loaders /\ World.fl = flights
      /\ page' = page /\ mode' = mode /\ typed' = typed /\ asked' = asked
  BY PageTypeHolds, WorldFields DEF Fails
<1>2. World.ld \in [S -> LoaderRecords] /\ f \in Requests(S)
  BY <1>1 DEF Worlds
<1>a. CASE ~IsCurrent(f)
  <2>1. SetLoader(Ignored(f))
    BY <1>a DEF Fails
  <2> QED
    BY <1>a, <1>1, <2>1, StaleStep
<1>b. CASE IsCurrent(f)
  <2>2. SetLoader(v)
    BY <1>b DEF Fails
  <2>4. f.l \in S /\ loaders[f.l] \in LoaderRecords
    BY <1>1, <1>2 DEF Requests
  <2>3. /\ v.ld = [loaders EXCEPT ![f.l] = r] /\ v.fl = flights \ {f}
        /\ v = [ld |-> v.ld, fl |-> v.fl]
    <3> HIDE DEF S
    <3>1. World \in Worlds(S) /\ f.l \in S
      BY <1>1, <2>4
    <3> QED
      BY <3>1, FailedFields
  <2>5. /\ r \in LoaderRecords /\ r.seq = loaders[f.l].seq /\ ~r.busy /\ r.failed
        /\ ~Wiped(f) => r.shown = loaders[f.l].shown
    BY <2>4 DEF Broken, LoaderRecords
  <2> HIDE DEF r, S, v
  <2>6. v = [ld |-> [World.ld EXCEPT ![f.l] = r], fl |-> World.fl \ {f}]
    BY <2>3, <1>1
  <2>7. v \in Worlds(S)
    BY <2>5, <2>6, <1>1, SettledKeeps
  <2>8. /\ v.ld[f.l] = r /\ v.fl = World.fl \ {f}
        /\ \A m \in S \ {f.l} : v.ld[m] = World.ld[m]
    BY <2>6, <1>2, <2>4
  <2>9. World' = v
    BY <2>2, <2>7, WorldSet
  <2>10. \A m \in S \ {f.l} : SameLoad(v, World, m)
    BY <2>8 DEF SameLoad, Heard
  <2>11. Heard(v, f.l) \subseteq Heard(World, f.l)
    BY <2>8, <2>5, <1>1 DEF Heard
  <2>12. ASSUME NEW m \in S, NEW a \in Questions, AnswersTo(World, m, a)
         PROVE  AnswersTo(v, m, a) /\ (Tells(World, m) => Tells(v, m))
    <3>1. CASE m = f.l
      BY <3>1, <2>12, <2>11, <2>8, <2>5 DEF AnswersTo, Tells
    <3>2. CASE m # f.l
      BY <3>2, <2>12, <2>10, SameLoadStands
    <3> QED
      BY <3>1, <3>2
  <2>13. ASSUME page = "path"
         PROVE  PathFine(v)
    <3>1. "path" \in S /\ PathFine(World)
      BY <2>13 DEF PagesInv, PathInv, PathFine, World, LoadersOf, S
    <3>2. CASE f.l = "path"
      BY <3>2, <2>8, <2>5 DEF PathFine
    <3>3. CASE f.l # "path"
      BY <3>1, <3>3, <2>10, SamePathFine
    <3> QED
      BY <3>2, <3>3
  <2>14. ASSUME page = "image"
         PROVE  v.ld["info"].shown = World.ld["info"].shown
    <3>1. "info" \in S
      BY <2>14 DEF LoadersOf, S
    <3>2. CASE f.l = "info"
      BY <3>2, <2>8, <2>5, <1>1 DEF Wiped
    <3>3. CASE f.l # "info"
      BY <3>1, <3>3, <2>8
    <3> QED
      BY <3>2, <3>3
  <2> QED
    BY <1>1, <2>7, <2>9, <2>12, <2>13, <2>14, LoadsKeep DEF S
<1> QED
  BY <1>a, <1>b

\* An answer, heard or not, keeps the invariant of every page, with what it sets off:
\* the files mounted with their image, the target the first upgrade report names.
LEMMA AnswerKeeps ==
  ASSUME PagesAssumption, PagesInv, NEW f \in flights, Answer(f)
  PROVE  PagesInv'
<1> DEFINE S == LoadersOf[page]
           first == f.l = "upg" /\ asked = 0
           q == IF first THEN asked' ELSE f.q
           v == [PageAnswered(f) EXCEPT !.ld[f.l].shown = q]
<1>1. /\ World \in Worlds(S) /\ World.ld = loaders /\ World.fl = flights
      /\ page' = page /\ mode' = mode /\ typed' = typed
      /\ asked \in Questions \cup {0} /\ typed \in Questions \cup {0}
  BY PageTypeHolds, WorldFields DEF Answer, PagesInv, PagesType
<1>2. World.ld \in [S -> LoaderRecords] /\ f \in Requests(S)
  BY <1>1 DEF Worlds
<1>3. f.l \in S /\ f.q \in Questions \cup {0} /\ f.n \in Nat /\ loaders[f.l] \in LoaderRecords
  BY <1>1, <1>2 DEF Requests
<1>a. CASE ~IsCurrent(f)
  <2>1. SetLoader(Ignored(f)) /\ asked' = asked
    BY <1>a DEF Answer
  <2> QED
    BY <1>a, <1>1, <2>1, StaleStep
<1>b. CASE IsCurrent(f)
  <2>1. IF first THEN asked' \in Questions ELSE asked' = asked
    BY <1>b DEF Answer
  <2>2. q \in Questions \cup {0}
    BY <2>1, <1>3
  <2>3. SetLoader(AfterAnswer(f, v))
    <3> DEFINE a == IF first THEN [f EXCEPT !.q = asked'] ELSE f
    <3>1. SetLoader(AfterAnswer(f, [PageAnswered(f) EXCEPT !.ld[f.l].shown = a.q]))
      BY <1>b DEF Answer
    <3>2. a.q = q
      BY <1>2 DEF Requests
    <3> HIDE DEF a, q
    <3> QED
      BY <3>1, <3>2
  <2>4. /\ v \in Worlds(S) /\ v.ld[f.l] = Replied(f, q)
        /\ \A m \in S \ {f.l} : SameLoad(v, World, m)
        /\ \A a \in Questions : AnswersTo(World, f.l, a) /\ q = f.q =>
              AnswersTo(v, f.l, a) /\ Tells(v, f.l)
    <3> HIDE DEF S, q, first
    <3>1. v \in Worlds(S) /\ v.ld[f.l] = Replied(f, q)
      BY <1>b, <1>1, <2>2, RepliedStands
    <3>2. \A m \in S \ {f.l} : SameLoad(v, World, m)
      BY <1>b, <1>1, <2>2, RepliedStands
    <3>3. \A a \in Questions : AnswersTo(World, f.l, a) /\ q = f.q =>
              AnswersTo(v, f.l, a) /\ Tells(v, f.l)
      BY <1>b, <1>1, <2>2, RepliedStands
    <3> HIDE DEF v
    <3> QED
      BY <3>1, <3>2, <3>3
  <2>5. /\ Replied(f, q).seq = loaders[f.l].seq /\ ~Replied(f, q).busy
        /\ Replied(f, q).shown = q /\ Replied(f, q).of = f.n
    BY <1>3, <2>2, RepliedRecord
  <2> HIDE DEF v
  <2>6. CASE f.l = "info" /\ mode = "files"
    <3> DEFINE w == Begun(v, "dir", asked, FALSE)
    <3>1. page = "image" /\ asked' = asked /\ q = f.q
      BY <2>6, <2>1, <1>3 DEF LoadersOf, PagesInv, PagesType
    <3>2. "info" \in S /\ "dir" \in S /\ "file" \in S
      BY <3>1 DEF LoadersOf
    <3>3. SetLoader(w)
      BY <2>3, <2>6 DEF AfterAnswer
    <3> HIDE DEF S
    <3>4. /\ w \in Worlds(S) /\ Stands(w, "dir", asked)
          /\ SameLoad(w, v, "info") /\ SameLoad(w, v, "file")
      BY <2>4, <3>2, <1>1, BegunStands
    <3> HIDE DEF w
    <3>5. World' = w
      BY <3>3, <3>4, WorldSet
    <3>6. /\ asked # 0 /\ Stands(World, "info", asked)
          /\ FilesDrawn => Stands(World, "file", typed)
          /\ ~FilesDrawn => typed = 0
      BY <3>1 DEF PagesInv, ImageInv
    <3>7. Stands(v, "info", asked)
      BY <3>1, <3>6, <2>4, <2>6, <1>1 DEF Stands
    <3>8. Stands(v, "file", typed)
      <4>1. SameLoad(v, World, "file")
        BY <2>4, <2>6, <3>2
      <4> QED
        BY <4>1, <3>6, SameLoadStands DEF Stands
    <3>9. Stands(w, "info", asked) /\ Stands(w, "file", typed)
      BY <3>4, <3>7, <3>8, SameLoadStands
    <3>10. w.ld["info"].shown = asked
      <4>1. f \in Heard(World, "info")
        BY <2>6, <1>b, <1>1 DEF Heard, IsCurrent
      <4>2. f.q = asked
        BY <4>1, <3>6 DEF Stands, AnswersTo
      <4> QED
        BY <4>2, <3>1, <3>4, <2>4, <2>5, <2>6 DEF SameLoad
    <3>11. FilesDrawn'
      BY <3>1, <3>5, <3>6, <3>10, <2>6, <1>1 DEF FilesDrawn, World
    <3>12. ImageInv'
      BY <3>1, <3>4, <3>5, <3>6, <3>9, <3>11, <1>1 DEF ImageInv
    <3>13. PagesType'
      BY <3>1, <3>4, <3>5, <1>1 DEF PagesInv, PagesType, S
    <3> QED
      BY <3>1, <3>12, <3>13, <1>1 DEF PagesInv, AccessInv, SectionInv, CertsInv, CompareInv,
         UpgradeInv, PathInv, NetworkInv
  <2>7. CASE first
    <3> DEFINE w == Begun(v, "upg", asked', TRUE)
    <3>1. page = "upgrade" /\ asked' \in Questions
      BY <2>7, <2>1, <1>3 DEF LoadersOf, PagesInv, PagesType
    <3>2. "upg" \in S
      BY <3>1 DEF LoadersOf
    <3>3. SetLoader(w)
      BY <2>3, <2>7 DEF AfterAnswer
    <3> HIDE DEF S
    <3>4. w \in Worlds(S) /\ Stands(w, "upg", asked')
      BY <2>4, <3>1, <3>2, BegunStands
    <3> HIDE DEF w
    <3>5. World' = w
      BY <3>3, <3>4, WorldSet
    <3>6. UpgradeInv'
      BY <3>4, <3>5 DEF UpgradeInv
    <3>7. PagesType'
      BY <3>1, <3>4, <3>5, <1>1 DEF PagesInv, PagesType, S
    <3> QED
      BY <3>1, <3>6, <3>7, <1>1 DEF PagesInv, AccessInv, SectionInv, CertsInv, CompareInv,
         ImageInv, PathInv, NetworkInv
  <2>8. CASE ~(f.l = "info" /\ mode = "files") /\ ~first
    <3>1. asked' = asked /\ q = f.q
      BY <2>8, <2>1
    <3>2. AfterAnswer(f, v) = v
      BY <2>8 DEF AfterAnswer
    <3> HIDE DEF q, first
    <3>3. World' = v
      BY <2>3, <3>2, <2>4, WorldSet
    <3> HIDE DEF S
    <3>4. ASSUME NEW m \in S, NEW a \in Questions, AnswersTo(World, m, a)
          PROVE  AnswersTo(v, m, a) /\ (Tells(World, m) => Tells(v, m))
      <4>1. CASE m = f.l
        BY <4>1, <3>4, <3>1, <2>4
      <4>2. CASE m # f.l
        BY <4>2, <3>4, <2>4, SameLoadStands
      <4> QED
        BY <4>1, <4>2
    <3>5. ASSUME page = "path"
          PROVE  PathFine(v)
      <4>1. "path" \in S /\ PathFine(World)
        BY <3>5 DEF PagesInv, PathInv, PathFine, World, LoadersOf, S
      <4>2. CASE f.l = "path"
        BY <4>2, <2>4, <2>5, <1>b DEF PathFine, IsCurrent
      <4>3. CASE f.l # "path"
        BY <4>1, <4>3, <2>4, SamePathFine
      <4> QED
        BY <4>2, <4>3
    <3>6. ASSUME page = "image", mode = "files"
          PROVE  v.ld["info"] = World.ld["info"]
      <4>1. "info" \in S
        BY <3>6 DEF LoadersOf, S
      <4> QED
        BY <4>1, <3>6, <2>8, <2>4 DEF SameLoad
    <3> QED
      BY <1>1, <2>4, <3>1, <3>3, <3>4, <3>5, <3>6, LoadsKeep DEF S
  <2> QED
    BY <2>6, <2>7, <2>8
<1> QED
  BY <1>a, <1>b

\* A page mounts idle, or with its first load under way.
LEMMA PagesStart ==
  ASSUME PagesAssumption, PagesInit
  PROVE  PagesInv
<1> DEFINE S == LoadersOf[page]
           w == [ld |-> [l \in S |-> Idle], fl |-> {}]
<1>1. /\ page \in DOMAIN LoadersOf /\ typed = 0
      /\ asked \in Questions \cup {0} /\ mode \in ModesOf[page]
  BY DEF PagesInit, LoadersOf, ModesOf
<1>2. Idle \in LoaderRecords /\ Idle.shown = 0 /\ ~Idle.busy /\ ~Idle.failed
  BY DEF Idle, LoaderRecords
<1>3. w \in Worlds(S) /\ \A l \in S : w.ld[l] = Idle
  <2>1. w.ld \in [S -> LoaderRecords] /\ w.fl = {}
    BY <1>2
  <2> QED
    BY <2>1 DEF Worlds
<1>4. \A l \in S : Heard(w, l) = {} /\ (\A q : AnswersTo(w, l, q))
  BY <1>2, <1>3 DEF Heard, AnswersTo
<1>s. \/ page = "certs" /\ World = Begun(w, "certs", asked, TRUE)
      \/ page = "image" /\ World = Begun(w, "info", asked, FALSE)
      \/ page = "upgrade" /\ World = Begun(w, "upg", 0, TRUE)
      \/ page \notin {"certs", "image", "upgrade"} /\ World = w
  <2>1. w.ld = [l \in S |-> Idle] /\ w.fl = {} /\ w = [ld |-> w.ld, fl |-> w.fl]
    OBVIOUS
  <2>2. \A l, q, k : Begun(w, l, q, k) = [ld |-> Begun(w, l, q, k).ld, fl |-> Begun(w, l, q, k).fl]
    BY DEF Begun
  <2>3. /\ page = "certs" => /\ loaders = Begun(w, "certs", asked, TRUE).ld
                              /\ flights = Begun(w, "certs", asked, TRUE).fl
        /\ page = "image" => /\ loaders = Begun(w, "info", asked, FALSE).ld
                              /\ flights = Begun(w, "info", asked, FALSE).fl
        /\ page = "upgrade" => /\ loaders = Begun(w, "upg", 0, TRUE).ld
                                /\ flights = Begun(w, "upg", 0, TRUE).fl
        /\ page \notin {"certs", "image", "upgrade"} => loaders = w.ld /\ flights = w.fl
    BY DEF PagesInit
  <2> HIDE DEF w
  <2>4. ASSUME NEW v, loaders = v.ld, flights = v.fl, v = [ld |-> v.ld, fl |-> v.fl]
        PROVE  World = v
    BY <2>4 DEF World
  <2>5. page = "certs" => World = Begun(w, "certs", asked, TRUE)
    BY <2>2, <2>3, <2>4
  <2>6. page = "image" => World = Begun(w, "info", asked, FALSE)
    BY <2>2, <2>3, <2>4
  <2>7. page = "upgrade" => World = Begun(w, "upg", 0, TRUE)
    BY <2>2, <2>3, <2>4
  <2>8. page \notin {"certs", "image", "upgrade"} => World = w
    BY <2>1, <2>3, <2>4
  <2> QED
    BY <2>5, <2>6, <2>7, <2>8
<1>a. PagesType
  <2>1. World \in Worlds(S)
    <3>1. /\ page = "certs" => "certs" \in S
          /\ page = "image" => "info" \in S
          /\ page = "upgrade" => "upg" \in S
      BY DEF LoadersOf
    <3>2. 0 \in Questions \cup {0}
      OBVIOUS
    <3> HIDE DEF S, w
    <3>3. page = "certs" => Begun(w, "certs", asked, TRUE) \in Worlds(S)
      BY <1>1, <1>3, <3>1, BegunStands
    <3>4. page = "image" => Begun(w, "info", asked, FALSE) \in Worlds(S)
      BY <1>1, <1>3, <3>1, BegunStands
    <3>5. page = "upgrade" => Begun(w, "upg", 0, TRUE) \in Worlds(S)
      BY <3>2, <1>3, <3>1, BegunStands
    <3> QED
      BY <1>s, <1>3, <3>3, <3>4, <3>5
  <2> QED
    BY <2>1, <1>1 DEF PagesType
<1> HIDE DEF w
<1>b. page = "access" => mode = "who-can" /\ asked = 0
  BY DEF PagesInit
<1>c. AccessInv
  BY <1>b DEF AccessInv, Stands
<1>d. SectionInv
  <2>1. page = "section" => /\ mode = "closed" /\ asked \in Questions
                            /\ "matrix" \in S /\ World = w
    BY <1>s DEF PagesInit, LoadersOf
  <2> QED
    BY <2>1, <1>4, PagesAssumption DEF SectionInv
<1>e. CertsInv
  <2> SUFFICES ASSUME page = "certs"
               PROVE  CertsInv
    BY DEF CertsInv
  <2>1. asked \in Questions /\ "certs" \in S /\ World = Begun(w, "certs", asked, TRUE)
    BY <1>s DEF PagesInit, LoadersOf
  <2>2. Stands(World, "certs", asked)
    BY <2>1, <1>1, <1>3, BegunStands
  <2> QED
    BY <2>1, <2>2, PagesAssumption DEF CertsInv
<1>f. CompareInv
  <2>1. page = "compare" => asked = 0
    BY DEF PagesInit
  <2> QED
    BY <2>1 DEF CompareInv, Stands
<1>g. ImageInv
  <2> SUFFICES ASSUME page = "image"
               PROVE  ImageInv
    BY DEF ImageInv
  <2>1. asked \in Questions /\ "info" \in S /\ World = Begun(w, "info", asked, FALSE)
        /\ mode = "overview"
    BY <1>s DEF PagesInit, LoadersOf
  <2>2. Stands(World, "info", asked) /\ ~FilesDrawn
    BY <2>1, <1>3, BegunStands DEF FilesDrawn
  <2> QED
    BY <2>1, <2>2, <1>1, PagesAssumption DEF ImageInv
<1>h. UpgradeInv
  <2>1. page = "upgrade" => asked = 0
    BY DEF PagesInit
  <2> QED
    BY <2>1 DEF UpgradeInv, Stands
<1>i. PathInv
  <2>1. page = "path" => "path" \in S /\ World = w /\ World.ld = loaders
    BY <1>s, WorldFields DEF LoadersOf
  <2> QED
    BY <2>1, <1>2, <1>3 DEF PathInv
<1>j. NetworkInv
  <2>1. page = "network" => mode = "path"
    BY DEF PagesInit
  <2> QED
    BY <2>1 DEF NetworkInv
<1> QED
  BY <1>a, <1>c, <1>d, <1>e, <1>f, <1>g, <1>h, <1>i, <1>j DEF PagesInv

\* Every step of a page keeps the invariant.
LEMMA PagesStep ==
  ASSUME PagesAssumption, PagesInv, [PagesNext]_pageVars
  PROVE  PagesInv'
<1>1. ASSUME NEW f \in flights, Answer(f) \/ Fails(f)
      PROVE  PagesInv'
  BY <1>1, AnswerKeeps, FailsKeeps
<1>2. ASSUME \/ \E q \in Questions \cup {0} : AccessType(q)
             \/ \E q \in Questions : \E m \in {"who-can", "mine"} : AccessMode(m, q)
             \/ AccessDebounce \/ AccessRefresh \/ AccessRefreshed
             \/ \E l \in {"who", "mine"} : AccessRetry(l)
      PROVE  PagesInv'
  <2>1. page = "access"
    BY <1>2 DEF AccessType, AccessMode, AccessDebounce, AccessRefresh, AccessRefreshed,
       AccessRetry, On
  <2> QED
    BY <1>2, <2>1, AccessKeeps
<1>3. ASSUME (\E q \in Questions : SectionShow(q)) \/ SectionToggle
      PROVE  PagesInv'
  <2>1. page = "section"
    BY <1>3 DEF SectionShow, SectionToggle, On
  <2> QED
    BY <1>3, <2>1, SectionKeeps
<1>4. ASSUME CertsLoad
      PROVE  PagesInv'
  <2>1. page = "certs"
    BY <1>4 DEF CertsLoad, On
  <2> QED
    BY <1>4, <2>1, CertsKeeps
<1>5. ASSUME (\E q \in Questions \cup {0} : CompareAsk(q)) \/ CompareReload
      PROVE  PagesInv'
  <2>1. page = "compare"
    BY <1>5 DEF CompareAsk, CompareReload, On
  <2> QED
    BY <1>5, <2>1, CompareKeeps
<1>6. ASSUME \/ \E q \in Questions : ImageAsk(q) \/ OpenFile(q)
             \/ \E m \in {"overview", "files"} : ImageView(m)
             \/ FilesRetry
      PROVE  PagesInv'
  <2>1. page = "image"
    BY <1>6 DEF ImageAsk, OpenFile, ImageView, FilesRetry, On
  <2> QED
    BY <1>6, <2>1, ImageKeeps
<1>7. ASSUME (\E q \in Questions : UpgradeTarget(q)) \/ UpgradeRecheck
      PROVE  PagesInv'
  <2>1. page = "upgrade"
    BY <1>7 DEF UpgradeTarget, UpgradeRecheck, On
  <2> QED
    BY <1>7, <2>1, UpgradeKeeps
<1>8. ASSUME \/ \E q \in Questions : PathPick(q) \/ PathIntent(q)
             \/ PathRun \/ PathProbe
      PROVE  PagesInv'
  <2>1. page = "path"
    BY <1>8 DEF PathPick, PathIntent, PathRun, PathProbe, On
  <2> QED
    BY <1>8, <2>1, PathKeeps
<1>9. ASSUME \/ \E m \in {"path", "coverage", "traffic"} : NetworkView(m)
             \/ \E q \in Questions : NetworkAsk(q)
      PROVE  PagesInv'
  <2>1. page = "network"
    BY <1>9 DEF NetworkView, NetworkAsk, On
  <2> QED
    BY <1>9, <2>1, NetworkKeeps
<1>10. CASE UNCHANGED pageVars
  BY <1>10 DEF pageVars, PagesInv, PagesType, AccessInv, SectionInv, CertsInv, CompareInv,
     ImageInv, FilesDrawn, UpgradeInv, PathInv, NetworkInv, World
<1> QED
  BY <1>1, <1>2, <1>3, <1>4, <1>5, <1>6, <1>7, <1>8, <1>9, <1>10 DEF PagesNext

\* What a page draws for a loader, and what the loader holds.
LEMMA DrawnIsShown ==
  ASSUME NEW l \in Loads, l # "probe"
  PROVE  /\ "data" \in Draws(l) => loaders[l].shown # 0
         /\ Tells(World, l) => Draws(l) # {}
         /\ l = "path" => Draws(l) # {}
<1>l. /\ World.ld = loaders
      /\ Loads = {"who", "can", "mine", "matrix", "certs", "cmp", "info", "dir", "file", "upg",
                  "path", "probe", "coverage", "traffic"}
  BY DEF World, Loads, LoadersOf
<1>1. CASE l \in {"who", "can", "mine", "matrix", "dir"}
  <2>1. Draws(l) = AccessDraws(l)
    BY <1>1 DEF Draws
  <2>2. /\ "data" \in AccessDraws(l) => loaders[l].shown # 0
        /\ loaders[l].failed => "error" \in AccessDraws(l)
        /\ loaders[l].busy /\ loaders[l].shown = 0 => "loading" \in AccessDraws(l)
        /\ ~loaders[l].failed /\ loaders[l].shown # 0 => "data" \in AccessDraws(l)
    BY DEF AccessDraws
  <2> QED
    BY <2>1, <2>2, <1>1, <1>l DEF Tells
<1>2. CASE l = "certs"
  <2>1. Draws(l) = CertsDraws
    BY <1>2 DEF Draws
  <2>2. /\ "data" \in CertsDraws => loaders[l].shown # 0
        /\ loaders[l].failed => "error" \in CertsDraws
        /\ loaders[l].busy /\ loaders[l].shown = 0 => "loading" \in CertsDraws
        /\ loaders[l].shown # 0 => "data" \in CertsDraws
    BY <1>2 DEF CertsDraws
  <2> QED
    BY <2>1, <2>2, <1>2, <1>l DEF Tells
<1>3. CASE l = "cmp"
  <2>1. Draws(l) = CompareDraws
    BY <1>3 DEF Draws
  <2>2. /\ "data" \in CompareDraws => loaders[l].shown # 0
        /\ loaders[l].failed => "error" \in CompareDraws
        /\ loaders[l].busy /\ loaders[l].shown = 0 => "loading" \in CompareDraws
        /\ loaders[l].shown # 0 => "data" \in CompareDraws
    BY <1>3 DEF CompareDraws
  <2> QED
    BY <2>1, <2>2, <1>3, <1>l DEF Tells
<1>4. CASE l = "info"
  <2>1. Draws(l) = ImageDraws
    BY <1>4 DEF Draws
  <2> QED
    BY <2>1, <1>4 DEF ImageDraws
<1>5. CASE l = "file"
  <2>1. Draws(l) = FileDraws
    BY <1>5 DEF Draws
  <2>2. /\ "data" \in FileDraws => loaders[l].shown # 0
        /\ loaders[l].busy => "loading" \in FileDraws
        /\ ~loaders[l].busy /\ loaders[l].failed => "error" \in FileDraws
        /\ ~loaders[l].busy /\ ~loaders[l].failed /\ loaders[l].shown # 0 => "data" \in FileDraws
    BY <1>5 DEF FileDraws
  <2> QED
    BY <2>1, <2>2, <1>5, <1>l DEF Tells
<1>6. CASE l \in {"coverage", "traffic"}
  <2>1. Draws(l) = NetworkDraws(l)
    BY <1>6 DEF Draws
  <2> QED
    BY <2>1, <1>6 DEF NetworkDraws
<1>7. CASE l = "upg"
  <2>1. Draws(l) = UpgradeDraws
    BY <1>7 DEF Draws
  <2>2. /\ "data" \in UpgradeDraws => loaders[l].shown # 0
        /\ loaders[l].failed => "error" \in UpgradeDraws
        /\ ~loaders[l].failed /\ loaders[l].shown = 0 => "loading" \in UpgradeDraws
        /\ loaders[l].shown # 0 => "data" \in UpgradeDraws
    BY <1>7 DEF UpgradeDraws
  <2> QED
    BY <2>1, <2>2, <1>7, <1>l DEF Tells
<1>8. CASE l = "path"
  <2>1. Draws(l) = PathDraws
    BY <1>8 DEF Draws
  <2>2. /\ "data" \in PathDraws => loaders[l].shown # 0
        /\ loaders[l].failed => "error" \in PathDraws
        /\ loaders[l].busy => "loading" \in PathDraws
        /\ loaders[l].shown # 0 => "data" \in PathDraws
        /\ loaders[l].shown = 0 /\ ~loaders[l].busy /\ ~loaders[l].failed => "empty" \in PathDraws
    BY <1>8 DEF PathDraws
  <2> QED
    BY <2>1, <2>2, <1>8
<1> QED
  BY <1>1, <1>2, <1>3, <1>4, <1>5, <1>6, <1>7, <1>8, <1>l

\* The invariant gives the property, loader by loader.
LEMMA PagesInvTells ==
  ASSUME PagesAssumption, PagesInv
  PROVE  PagesAnswerTheirQuestion
<1>1. ASSUME NEW a \in Asking, a[2] # 0, a[1] # "path"
      PROVE  /\ a[1] \in LoadersOf[page]
             /\ Stands(World, a[1], a[2])
  BY <1>1 DEF Asking, PagesInv, PagesType, ModesOf, LoadersOf, AccessInv, SectionInv, CertsInv,
     CompareInv, ImageInv, UpgradeInv, NetworkInv, Stands
<1>2. Asking \in SUBSET (Loads \X (Questions \cup {0}))
  BY DEF Asking, PagesInv, PagesType, ModesOf, LoadersOf, Loads
<1>3. \A a \in Asking : a[1] # "probe" /\ (a[1] = "path" => page = "path")
  BY DEF Asking, PagesInv, PagesType, ModesOf, LoadersOf
<1> SUFFICES ASSUME NEW a \in Asking, a[2] # 0
             PROVE  LET l == a[1] ld == loaders[a[1]] IN
               /\ ("data" \in Draws(l) /\ ~ld.busy /\ ~ld.failed /\ l # "path") => ld.shown = a[2]
               /\ (l = "path" /\ ld.shown # 0 /\ ~ld.busy /\ ~ld.failed) => ld.of = ld.seq
               /\ ld.busy => \E f \in flights : f.l = l /\ f.n = ld.seq
               /\ Draws(l) # {} \/ (l = "can")
  BY DEF PagesAnswerTheirQuestion
<1>4. /\ "data" \in Draws(a[1]) => loaders[a[1]].shown # 0
      /\ Tells(World, a[1]) => Draws(a[1]) # {}
      /\ a[1] = "path" => Draws(a[1]) # {}
  BY <1>2, <1>3, DrawnIsShown
<1>5. CASE a[1] = "path"
  <2>1. page = "path"
    BY <1>3, <1>5
  <2> QED
    BY <2>1, <1>4, <1>5 DEF PagesInv, PathInv, Heard, World
<1>6. CASE a[1] # "path"
  <2>1. Stands(World, a[1], a[2])
    BY <1>1, <1>6
  <2> QED
    BY <2>1, <1>4, <1>6 DEF Stands, AnswersTo, Heard, World
<1> QED
  BY <1>5, <1>6

\* Whatever order answers come in and however often the question, the mode or the
\* object changes meanwhile, what a page draws as an answer answers the question it
\* stands under, and a page that says it is loading is (useLoad, useCertificates,
\* the effects of ComparePage, ImageInspectorPage and AccessPermissionsSection,
\* UpgradeReadinessPage.load, PathChecker.run).
THEOREM PagesAlwaysAnswer == PagesSpec => []PagesAnswerTheirQuestion
<1>1. PagesInit => PagesInv
  BY PagesAssumption, PagesStart
<1>2. PagesInv /\ [PagesNext]_pageVars => PagesInv'
  BY PagesAssumption, PagesStep
<1>3. PagesInv => PagesAnswerTheirQuestion
  BY PagesAssumption, PagesInvTells
<1> QED
  BY <1>1, <1>2, <1>3, PTL DEF PagesSpec

---------------------------------------------------------------------------
(* The Argo CD pages                                                       *)

\* A run of the page keeps its number, what it does and to which applications.
IsRun(r) == r = [n |-> r.n, kind |-> r.kind, apps |-> r.apps, at |-> r.at]

\* The page: its runs are runs.
ArgoInv == \A r \in argoRuns : IsRun(r)

\* The inspector: the summary is of the application it shows, or there is none,
\* and an answer on its way knows whom it is of.
AppShape ==
  inspector = [c |-> inspector.c, sum |-> inspector.sum, loading |-> inspector.loading,
               error |-> inspector.error, busy |-> inspector.busy, op |-> inspector.op,
               dialog |-> inspector.dialog, rollback |-> inspector.rollback,
               rolling |-> inspector.rolling]
AppInv == AppShape /\ SummaryIsTheApps

\* A step of the page asks for what is seen and starts what was asked for.
LEMMA ArgoStepKeeps ==
  ASSUME ArgoInv, [ArgoNext]_argoVars
  PROVE  ArgoInv' /\ SyncsAreAskedFor
<1>1. CASE UNCHANGED <<pendingSync, argoRuns>>
  BY <1>1 DEF ArgoInv, SyncsAreAskedFor
<1>2. CASE \E prune \in BOOLEAN : RequestSync(Targets, prune)
  <2>1. Targets \subseteq FlatRows
    BY DEF Targets, SelectedEntries
  <2> QED
    BY <1>2, <2>1 DEF RequestSync, ArgoInv, SyncsAreAskedFor
<1>3. CASE CancelSync
  BY <1>3 DEF CancelSync, ArgoInv, SyncsAreAskedFor
<1>4. CASE ConfirmSync
  BY <1>4 DEF ConfirmSync, Started, ArgoInv, IsRun, SyncsAreAskedFor
<1>5. CASE RunRefresh(Targets)
  BY <1>5 DEF RunRefresh, Started, ArgoInv, IsRun, SyncsAreAskedFor
<1>6. ASSUME NEW r \in argoRuns, RunSettled(r)
      PROVE  ArgoInv' /\ SyncsAreAskedFor
  <2> DEFINE s == [r EXCEPT !.at = "spin"]
  <2>1. IsRun(s) /\ s.n = r.n
    BY <1>6 DEF ArgoInv, IsRun
  <2>2. argoRuns' = (argoRuns \ {r}) \cup {s} /\ pendingSync' = pendingSync
    BY <1>6 DEF RunSettled
  <2> HIDE DEF s
  <2> QED
    BY <2>1, <2>2 DEF ArgoInv, SyncsAreAskedFor
<1>7. ASSUME NEW r \in argoRuns, RunOver(r)
      PROVE  ArgoInv' /\ SyncsAreAskedFor
  BY <1>7 DEF RunOver, ArgoInv, SyncsAreAskedFor
<1> QED
  <2>1. CASE UNCHANGED argoVars
    BY <2>1, <1>1 DEF argoVars
  <2>2. CASE \E h \in Healths : TogglePivot(h) \/ ToggleGroupCollapsed(h)
    BY <2>2, <1>1 DEF TogglePivot, ToggleGroupCollapsed
  <2>3. CASE \E a \in Apps : ToggleSelect(a) \/ FocusRow(a)
    BY <2>3, <1>1 DEF ToggleSelect, FocusRow
  <2>4. CASE ToggleAll \/ ArgoPoll \/ RetryNow
    BY <2>4, <1>1 DEF ToggleAll, ArgoPoll, RetryNow
  <2>5. CASE \E l \in argoLoads, seen \in SUBSET Apps, ok \in BOOLEAN : ArgoLoaded(l, seen, ok)
    BY <2>5, <1>1 DEF ArgoLoaded
  <2> QED
    BY <1>2, <1>3, <1>4, <1>5, <1>6, <1>7, <2>1, <2>2, <2>3, <2>4, <2>5 DEF ArgoNext

\* A step of the inspector never shows the answer for another cluster.
LEMMA AppStepKeeps ==
  ASSUME AppInv, [AppNext]_appVars
  PROVE  AppInv'
<1> USE DEF AppInv, AppShape, SummaryIsTheApps
<1>1. CASE UNCHANGED inspector
  BY <1>1
<1>2. ASSUME NEW c \in AppViews, OpenElsewhere(c)
      PROVE  AppInv'
  BY <1>2 DEF OpenElsewhere, NewApp, NoSummary
<1>3. ASSUME NEW l \in appLoads, NEW running \in BOOLEAN, NEW ok \in BOOLEAN,
             AppLoaded(l, running, ok)
      PROVE  AppInv'
  BY <1>3 DEF AppLoaded, TreeLoaded
<1>4. CASE PendingLapses
  BY <1>4 DEF PendingLapses
<1>5. CASE ConfirmRollback
  BY <1>5 DEF ConfirmRollback
<1>6. ASSUME NEW kind, AppRun(kind)
      PROVE  AppInv'
  BY <1>6 DEF AppRun
<1>7. ASSUME NEW open, SyncOptions(open)
      PROVE  AppInv'
  BY <1>7 DEF SyncOptions
<1>8. ASSUME NEW h, AskAppRollback(h)
      PROVE  AppInv'
  BY <1>8 DEF AskAppRollback
<1>9. ASSUME NEW r \in appRuns, NEW ok \in BOOLEAN, AppAnswered(r, ok)
      PROVE  AppInv'
  <2> DEFINE freed == IF r.kind = "rollback" THEN [inspector EXCEPT !.rolling = FALSE]
                      ELSE [inspector EXCEPT !.busy = "no"]
  <2>1. freed.c = inspector.c /\ freed.sum = inspector.sum
    OBVIOUS
  <2>2. freed = [c |-> freed.c, sum |-> freed.sum, loading |-> freed.loading,
                 error |-> freed.error, busy |-> freed.busy, op |-> freed.op,
                 dialog |-> freed.dialog, rollback |-> freed.rollback,
                 rolling |-> freed.rolling]
    OBVIOUS
  <2>3. \/ inspector' = freed
        \/ inspector' = [freed EXCEPT !.rollback = NoRollback]
        \/ inspector' = [freed EXCEPT !.dialog = FALSE]
        \/ inspector' = [freed EXCEPT !.op = 0]
    BY <1>9 DEF AppAnswered
  <2> HIDE DEF freed
  <2> QED
    BY <2>1, <2>2, <2>3
<1> QED
  <2>1. CASE UNCHANGED appVars
    BY <2>1, <1>1 DEF appVars
  <2>2. CASE AppPoll
    BY <2>2, <1>1 DEF AppPoll
  <2> QED
    BY <1>2, <1>3, <1>4, <1>5, <1>6, <1>7, <1>8, <1>9, <2>1, <2>2 DEF AppNext

\* Whatever a filter or a closed group hides meanwhile, what the page asks to sync
\* are rows the user sees, and what it starts is what it asked for; the inspector
\* never shows the answer for another cluster's application, however late it comes
\* (ArgoApplicationsPage.requestSync and runSync, ApplicationDetailView.load).
THEOREM GitOpsStaysTrue == GitOpsSpec => GitOpsIsTrue
<1> DEFINE Inv == ArgoInv /\ AppInv
<1>1. ArgoInit /\ AppInit => Inv
  BY DEF ArgoInit, AppInit, NewApp, NoSummary, ArgoInv, AppInv, AppShape, SummaryIsTheApps
<1>2. ASSUME Inv, [GitOpsNext]_<<argoVars, appVars>>
      PROVE  Inv' /\ SyncsAreAskedFor /\ SummaryIsTheApps'
  <2>1. [ArgoNext]_argoVars /\ [AppNext]_appVars
    BY <1>2 DEF GitOpsNext
  <2> QED
    BY <1>2, <2>1, ArgoStepKeeps, AppStepKeeps DEF AppInv
<1> QED
  BY <1>1, <1>2, PTL DEF GitOpsSpec, GitOpsIsTrue

---------------------------------------------------------------------------
(* The panels of an object                                                 *)

\* What the editor handles: texts, objects, requests.
IsText(t) ==
  t = [src |-> t.src, ver |-> t.ver, writes |-> t.writes, valid |-> t.valid] /\ t.ver \in Int
IsObject(o) == o = [ver |-> o.ver, writes |-> o.writes, gone |-> o.gone] /\ o.ver \in Int
IsRequest(r) ==
  r = [op |-> r.op, text |-> r.text, got |-> r.got] /\ IsText(r.text) /\ IsObject(r.got)
EditTypes == IsObject(object) /\ IsText(text) /\ \A r \in reqs : IsRequest(r)

\* Who read the version the server has has seen every write in it.
Saw(o, x) == x.ver <= o.ver /\ (x.ver = o.ver => o.writes \subseteq x.writes)

\* The server has every write it took and no other; each copy of the object that
\* is about was read at some version of it, and what is read is what was taken.
WorkKept ==
  /\ object.ver >= 1
  /\ object.ver = 1 => object.writes = {}
  /\ object.writes \subseteq accepted
  /\ Saw(object, text)
  /\ \A r \in reqs : Saw(object, r.text) /\ Saw(object, r.got) /\ r.got.writes \subseteq accepted
  /\ EditorKeepsWork

EditInv == EditTypes /\ (editing = "edit" => WorkKept)

LEMMA EditorStep ==
  ASSUME EditInv, [EditorNext]_editVars
  PROVE  EditInv'
<1> USE DEF EditInv, EditTypes, WorkKept, EditorKeepsWork, Saw, IsText, IsObject, IsRequest
<1>1. CASE UNCHANGED editVars
  BY <1>1 DEF editVars
<1>2. CASE TheirWrite
  <2> DEFINE w == <<"their", object.ver>>
  <2>1. /\ object' = [ver |-> object.ver + 1, writes |-> object.writes \cup {w}, gone |-> object.gone]
        /\ accepted' = accepted \cup {w} /\ ~object.gone
        /\ UNCHANGED <<editing, text, dirty, notice, reqs>>
    BY <1>2 DEF TheirWrite
  <2> HIDE DEF w
  <2>2. EditTypes'
    BY <2>1
  <2>3. ASSUME NEW x, Saw(object, x), x.ver \in Int
        PROVE  Saw(object', x)
    BY <2>1, <2>3
  <2>4. ASSUME editing = "edit"
        PROVE  WorkKept'
    <3>1. Saw(object', text') /\ \A r \in reqs' : Saw(object', r.text) /\ Saw(object', r.got)
      <4> HIDE DEF Saw
      <4> QED
        BY <2>1, <2>3, <2>4
    <3> HIDE DEF Saw
    <3>2. object'.ver >= 1 /\ object'.ver # 1 /\ object'.writes = accepted'
      BY <2>1, <2>4
    <3>3. EditorKeepsWork'
      BY <2>1, <2>4, <3>2
    <3>4. \A r \in reqs' : r.got.writes \subseteq accepted'
      BY <2>1, <2>4
    <3> QED
      BY <3>1, <3>2, <3>3, <3>4
  <2> QED
    BY <2>1, <2>2, <2>4
<1>3. CASE TheirDelete
  BY <1>3 DEF TheirDelete
<1>4. CASE LintRuns \/ Dismiss
  BY <1>4 DEF LintRuns, Dismiss
<1>5. CASE HandleSave
  BY <1>5 DEF HandleSave, Request, NotServed
<1>6. CASE HandleRefresh
  BY <1>6 DEF HandleRefresh, Request, NotServed
<1>7. CASE HandleDryRun
  <2>1. editing' # "edit" /\ UNCHANGED <<object, text>>
    BY <1>7 DEF HandleDryRun
  <2>2. CASE text.valid
    <3>1. reqs' = reqs \cup {Request("dry")}
      BY <1>7, <2>2 DEF HandleDryRun
    <3> QED
      BY <2>1, <3>1 DEF Request, NotServed
  <2>3. CASE ~text.valid
    BY <1>7, <2>1, <2>3 DEF HandleDryRun
  <2> QED
    BY <2>2, <2>3
<1>8. CASE HandleTemplateSelect
  BY <1>8 DEF HandleTemplateSelect, SetText, Template
<1>9. ASSUME NEW v \in BOOLEAN, NEW k \in BOOLEAN, HandleEditorChange(v, k)
      PROVE  EditInv'
  <2> DEFINE w == <<"mine", inspSteps>>
  <2>1. /\ text' = [src |-> text.src, ver |-> IF k THEN text.ver ELSE 0,
                    writes |-> text.writes \cup {w}, valid |-> v]
        /\ dirty' = TRUE /\ UNCHANGED <<editing, object, accepted, notice, reqs>>
    BY <1>9 DEF HandleEditorChange, SetText
  <2> HIDE DEF w
  <2> QED
    BY <2>1
<1>10. ASSUME NEW r \in reqs, PanelServed(r)
       PROVE  EditInv'
  <2> DEFINE writes == r.op = "save" /\ ~Conflicts(r)
             got == IF writes THEN Written(r)
                    ELSE IF r.op = "save" \/ (object.gone /\ r.op \in {"load", "refresh"})
                         THEN Refused ELSE object
             s == [r EXCEPT !.got = got]
  <2>1. /\ object' = IF writes THEN got ELSE object
        /\ accepted' = IF writes THEN accepted \cup r.text.writes ELSE accepted
        /\ reqs' = (reqs \ {r}) \cup {s}
        /\ UNCHANGED <<editing, text, dirty, notice>>
    BY <1>10 DEF PanelServed
  <2>2. CASE writes
    <3>1. got = [ver |-> object.ver + 1, writes |-> r.text.writes, gone |-> FALSE]
      BY <2>2 DEF Written
    <3>2. editing = "edit" => ~object.gone /\ r.text.ver = object.ver
      BY <2>2 DEF Conflicts
    <3>3. editing = "edit" => accepted \subseteq r.text.writes
      BY <3>2
    <3>4. object' = got /\ accepted' = accepted \cup r.text.writes
      BY <2>1, <2>2
    <3> HIDE DEF got, writes
    <3>5. IsRequest(r) /\ s = [op |-> r.op, text |-> r.text, got |-> got]
      OBVIOUS
    <3> HIDE DEF s
    <3>6. IsObject(got)
      BY <3>1
    <3>7. \A q \in reqs' : IsRequest(q)
      <4>1. s.got = got /\ s.text = r.text /\ s.op = r.op
        BY <3>5
      <4> HIDE DEF IsText, IsObject
      <4>2. IsRequest(s)
        BY <3>5, <3>6, <4>1
      <4> HIDE DEF IsRequest
      <4> QED
        BY <2>1, <4>2
    <3>8. EditTypes'
      BY <2>1, <3>4, <3>6, <3>7
    <3>9. ASSUME editing = "edit"
          PROVE  WorkKept'
      <4>1. got.ver = object.ver + 1 /\ got.writes = r.text.writes /\ accepted' = r.text.writes
        BY <3>1, <3>3, <3>4, <3>9
      <4>2. ASSUME NEW x, Saw(object, x), x.ver \in Int
            PROVE  Saw(object', x)
        BY <3>4, <4>1, <4>2
      <4>3. Saw(object', got)
        BY <3>4, <4>1
      <4>4. \A q \in reqs : /\ Saw(object, q.text) /\ q.text.ver \in Int
                            /\ Saw(object, q.got) /\ q.got.ver \in Int
        BY <3>9
      <4>5. Saw(object', text') /\ \A q \in reqs' : Saw(object', q.text) /\ Saw(object', q.got)
        <5>1. Saw(object', text')
          BY <2>1, <3>9, <4>2
        <5>2. Saw(object', r.text)
          BY <4>2, <4>4
        <5>3. \A q \in reqs : Saw(object', q.text) /\ Saw(object', q.got)
          <6> HIDE DEF Saw
          <6> QED
            BY <4>2, <4>4
        <5> HIDE DEF Saw
        <5> QED
          BY <2>1, <3>5, <4>3, <5>1, <5>2, <5>3
      <4> HIDE DEF Saw
      <4>6. object'.ver >= 1 /\ object'.ver # 1 /\ object'.writes = accepted'
        BY <3>4, <3>9, <4>1
      <4>7. \A q \in reqs' : q.got.writes \subseteq accepted'
        BY <2>1, <3>4, <3>5, <3>9, <4>1
      <4>8. EditorKeepsWork'
        BY <2>1, <3>4, <3>9, <4>6
      <4> QED
        BY <4>5, <4>6, <4>7, <4>8
    <3> QED
      BY <2>1, <3>8, <3>9
  <2>3. CASE ~writes
    <3>1. got = Refused \/ got = object
      BY <2>3
    <3>2. object' = object /\ accepted' = accepted
      BY <2>1, <2>3
    <3> HIDE DEF got, writes
    <3>3. IsRequest(r) /\ s = [op |-> r.op, text |-> r.text, got |-> got]
      OBVIOUS
    <3> HIDE DEF s
    <3>4. IsObject(got)
      BY <3>1 DEF Refused
    <3>5. EditTypes'
      <4> HIDE DEF IsText, IsObject
      <4> QED
        BY <2>1, <3>2, <3>3, <3>4
    <3>6. ASSUME editing = "edit"
          PROVE  WorkKept'
      <4>1. Saw(object, got) /\ got.writes \subseteq accepted
        <5>1. CASE got = Refused
          BY <3>6, <5>1 DEF Refused
        <5>2. CASE got = object
          BY <3>6, <5>2
        <5> QED
          BY <3>1, <5>1, <5>2
      <4>2. \A q \in reqs' : /\ Saw(object, q.text) /\ Saw(object, q.got)
                             /\ q.got.writes \subseteq accepted
        BY <2>1, <3>3, <3>6, <4>1
      <4> HIDE DEF Saw
      <4> QED
        BY <2>1, <3>2, <3>6, <4>2
    <3> QED
      BY <2>1, <3>5, <3>6
  <2> QED
    BY <2>2, <2>3
<1>11. ASSUME NEW r \in reqs, LoadAnswers(r)
       PROVE  EditInv'
  BY <1>11 DEF LoadAnswers, SetText, toEditableYaml
<1>12. ASSUME NEW r \in reqs, ReleaseLoadFails(r)
       PROVE  EditInv'
  BY <1>12 DEF ReleaseLoadFails, SetText, Given, cachedCopyNotice
<1>13. ASSUME NEW r \in reqs, SaveAnswers(r)
       PROVE  EditInv'
  <2>1. CASE editing = "helm"
    BY <1>13, <2>1 DEF SaveAnswers
  <2>2. CASE editing # "helm"
    <3>1. /\ text' = [src |-> "server", ver |-> r.got.ver, writes |-> r.got.writes, valid |-> TRUE]
          /\ dirty' = FALSE /\ reqs' = reqs \ {r} /\ UNCHANGED <<editing, object, accepted>>
      BY <1>13, <2>2 DEF SaveAnswers, SetText, toEditableYaml
    <3> QED
      BY <3>1
  <2> QED
    BY <2>1, <2>2
<1>14. ASSUME NEW r \in reqs, CreateAnswers(r)
       PROVE  EditInv'
  BY <1>14 DEF CreateAnswers
<1>15. ASSUME NEW r \in reqs, SaveFails(r)
       PROVE  EditInv'
  BY <1>15 DEF SaveFails
<1>16. ASSUME NEW r \in reqs, RefreshAnswers(r)
       PROVE  EditInv'
  BY <1>16 DEF RefreshAnswers, SetText, toEditableYaml
<1>17. ASSUME NEW r \in reqs, RefreshFails(r)
       PROVE  EditInv'
  BY <1>17 DEF RefreshFails, cachedCopyNotice
<1>18. ASSUME NEW r \in reqs, DryRunAnswers(r)
       PROVE  EditInv'
  BY <1>18 DEF DryRunAnswers
<1> QED
  BY <1>1, <1>2, <1>3, <1>4, <1>5, <1>6, <1>7, <1>8, <1>9, <1>10, <1>11, <1>12, <1>13,
     <1>14, <1>15, <1>16, <1>17, <1>18 DEF EditorNext

\* The release: its counts are counts.
ReleaseInv ==
  /\ pending \in [HelmSections \cup RelActions -> Nat]
  /\ skeletons \subseteq HelmSections
  /\ acting \in BOOLEAN /\ toggleReq \in BOOLEAN
  /\ ReleaseSettles

LEMMA ReleaseStep ==
  ASSUME ReleaseInv, [ReleaseNext]_relVars
  PROVE  ReleaseInv'
<1> USE DEF ReleaseInv, ReleaseSettles, HelmSections, RelActions
<1>1. CASE UNCHANGED relVars
  BY <1>1 DEF relVars
<1>2. CASE ShowComputed
  BY <1>2 DEF ShowComputed
<1>3. CASE HandleLoadMoreHistory
  BY <1>3 DEF HandleLoadMoreHistory, More
<1>4. CASE AskRollback \/ AskUninstall \/ CloseReleaseDialog
  <2>1. UNCHANGED <<skeletons, pending, toggleReq, acting>>
    BY <1>4 DEF AskRollback, AskUninstall, CloseReleaseDialog
  <2> QED
    BY <2>1
<1>5. CASE ConfirmRelease
  BY <1>5 DEF ConfirmRelease, More
<1>6. CASE RollbackAnswers
  <2> DEFINE more == More(HelmSections)
  <2>1. /\ more \in [HelmSections \cup RelActions -> Nat]
        /\ \A s \in HelmSections : more[s] > 0
        /\ \A a \in RelActions : more[a] = pending[a]
    BY DEF More
  <2>2. /\ pending["rollback"] > 0 /\ acting' = FALSE /\ skeletons' = HelmSections
        /\ pending' = [more EXCEPT !["rollback"] = @ - 1] /\ toggleReq' = toggleReq
    BY <1>6 DEF RollbackAnswers
  <2> HIDE DEF more
  <2>3. pending["rollback"] = 1 /\ pending["uninstall"] = 0
    BY <2>2
  <2>4. /\ pending' \in [HelmSections \cup RelActions -> Nat]
        /\ pending'["rollback"] = 0 /\ pending'["uninstall"] = 0
    BY <2>1, <2>2, <2>3
  <2>5. \A s \in HelmSections : pending'[s] > 0
    BY <2>1, <2>2
  <2>6. pending'["rollback"] + pending'["uninstall"] = 0
    BY <2>4
  <2> HIDE DEF HelmSections, RelActions
  <2> QED
    BY <2>2, <2>4, <2>5, <2>6
<1>7. ASSUME NEW ok \in BOOLEAN, DetailEnds(ok)
      PROVE  ReleaseInv'
  BY <1>7 DEF DetailEnds, SectionEnds, Less
<1>8. ASSUME NEW ok \in BOOLEAN, ToggleEnds(ok)
      PROVE  ReleaseInv'
  BY <1>8 DEF ToggleEnds
<1>9. ASSUME NEW ok \in BOOLEAN, NEW s \in HelmSections, OtherEnds(s, ok)
      PROVE  ReleaseInv'
  BY <1>9 DEF OtherEnds, SectionEnds, Less
<1>10. ASSUME NEW ok \in BOOLEAN, NEW a \in RelActions, ReleaseActionEnds(a, ok)
       PROVE  ReleaseInv'
  <2>1. /\ pending[a] > 0 /\ pending' = [pending EXCEPT ![a] = @ - 1] /\ acting' = FALSE
        /\ UNCHANGED <<skeletons, toggleReq>>
    BY <1>10 DEF ReleaseActionEnds, Less
  <2>2. pending["rollback"] + pending["uninstall"] = 1
    BY <2>1
  <2>3. /\ pending' \in [HelmSections \cup RelActions -> Nat]
        /\ pending'["rollback"] = 0 /\ pending'["uninstall"] = 0
    BY <2>1, <2>2
  <2>4. \A s \in HelmSections : pending'[s] = pending[s]
    BY <2>1
  <2>5. pending'["rollback"] + pending'["uninstall"] = 0
    BY <2>3
  <2> HIDE DEF HelmSections, RelActions
  <2> QED
    BY <2>1, <2>3, <2>4, <2>5
<1> QED
  BY <1>1, <1>2, <1>3, <1>4, <1>5, <1>6, <1>7, <1>8, <1>9, <1>10 DEF ReleaseNext

\* The object view: only the question about the object shown is still heard; a
\* call under way has its button disabled; and one port call at a time, which is
\* about the forward that is held, or starts the first.
ObjectInv ==
  /\ \A q \in parentReqs : q = [of |-> q.of, live |-> q.live] /\ (q.live => q.of = shownObj)
  /\ parent # NoObj => parent = Owner[shownObj]
  /\ \A q \in opReqs : q.op \in opsBusy /\ \A p \in opReqs : p.op = q.op => p = q
  /\ ~portBusy => portReqs = {}
  /\ \A q \in portReqs : (\A p \in portReqs : p = q)
                         /\ IF q.op = "create" THEN held = {} ELSE held = {q.id}
  /\ \A i, j \in held : i = j
  /\ \A f \in forwards : f.id \in held

LEMMA ObjectStep ==
  ASSUME ObjectInv, [ObjectNext]_objVars
  PROVE  ObjectInv'
<1> USE DEF ObjectInv
<1>1. CASE UNCHANGED objVars
  BY <1>1 DEF objVars
<1>2. ASSUME NEW o, ParentEffect(o), shownObj' = o,
             UNCHANGED <<opsBusy, opReqs, forwards, held, portBusy, portReqs>>
      PROVE  ObjectInv'
  <2>1. \A q \in parentReqs' : q = [of |-> q.of, live |-> q.live] /\ (q.live => q.of = o)
    BY <1>2 DEF ParentEffect
  <2> QED
    BY <1>2, <2>1 DEF ParentEffect
<1>3. ASSUME NEW o, ShowObject(o)
      PROVE  ObjectInv'
  BY <1>2, <1>3 DEF ShowObject
<1>4. CASE LinkTimer
  <2>1. CASE linkClick # shownObj
    BY <1>2, <1>4, <2>1 DEF LinkTimer
  <2>2. CASE linkClick = shownObj
    BY <1>4, <2>2 DEF LinkTimer
  <2> QED
    BY <2>1, <2>2
<1>5. ASSUME NEW q \in parentReqs, ParentResolved(q)
      PROVE  ObjectInv'
  BY <1>5 DEF ParentResolved
<1>6. CASE SetInspectorView
  BY <1>6 DEF SetInspectorView
<1>7. ASSUME NEW o, HandleResourceClick(o)
      PROVE  ObjectInv'
  BY <1>7 DEF HandleResourceClick
<1>8. ASSUME NEW op, OpenOp(op) \/ CloseOp(op)
      PROVE  ObjectInv'
  BY <1>8 DEF OpenOp, CloseOp
<1>9. ASSUME NEW op, ConfirmOp(op)
      PROVE  ObjectInv'
  <2> DEFINE new == [op |-> op, of |-> shownObj, n |-> Cardinality(opReqs)]
  <2>1. new.op = op
    OBVIOUS
  <2>2. /\ op \notin opsBusy /\ opsBusy' = opsBusy \cup {op} /\ opReqs' = opReqs \cup {new}
        /\ UNCHANGED <<shownObj, parent, parentReqs, forwards, held, portBusy, portReqs>>
    BY <1>9 DEF ConfirmOp, OpIdle
  <2> HIDE DEF new
  <2> QED
    BY <2>1, <2>2
<1>10. ASSUME NEW q \in opReqs, NEW ok \in BOOLEAN, OpEnds(q, ok)
       PROVE  ObjectInv'
  BY <1>10 DEF OpEnds
<1>11. CASE HandlePortForward
  <2> DEFINE new == IF held = {} THEN [op |-> "create", id |-> inspSteps, of |-> shownObj]
                    ELSE [op |-> "stop", id |-> CHOOSE i \in held : TRUE, of |-> shownObj]
  <2>1. portReqs' = {new} /\ UNCHANGED <<shownObj, parent, parentReqs, opsBusy, opReqs, forwards, held>>
    BY <1>11 DEF HandlePortForward, PortFree
  <2>2. IF new.op = "create" THEN held = {} ELSE held = {new.id}
    <3>1. held # {} => (CHOOSE i \in held : TRUE) \in held
      OBVIOUS
    <3> QED
      BY <3>1
  <2>3. portBusy'
    BY <1>11 DEF HandlePortForward
  <2> HIDE DEF new
  <2> QED
    BY <2>1, <2>2, <2>3
<1>12. ASSUME NEW q \in portReqs, PortAnswers(q)
       PROVE  ObjectInv'
  <2>1. portReqs' = {}
    BY <1>12 DEF PortAnswers
  <2>2. (\A f \in forwards' : f.id \in held') /\ (\A i, j \in held' : i = j)
    BY <1>12 DEF PortAnswers
  <2> QED
    BY <1>12, <2>1, <2>2 DEF PortAnswers
<1>13. ASSUME NEW q \in portReqs, PortFails(q)
       PROVE  ObjectInv'
  BY <1>13 DEF PortFails
<1> QED
  BY <1>1, <1>3, <1>4, <1>5, <1>6, <1>7, <1>8, <1>9, <1>10, <1>11, <1>12, <1>13
     DEF ObjectNext, HandleViewParent

LEMMA ObjectInvTells ==
  ASSUME ObjectInv
  PROVE  ObjectViewKeepsUp
<1>1. ASSUME NEW op \in Ops
      PROVE  Cardinality({q \in opReqs : q.op = op}) <= 1
  <2> DEFINE S == {q \in opReqs : q.op = op}
  <2>1. ASSUME S = {}
        PROVE  Cardinality(S) <= 1
    BY <2>1, FS_EmptySet
  <2>2. ASSUME S # {}
        PROVE  Cardinality(S) <= 1
    <3>1. PICK q \in S : TRUE
      BY <2>2
    <3>2. S = {q}
      BY <3>1 DEF ObjectInv
    <3> HIDE DEF S
    <3> QED
      BY <3>2, FS_Singleton
  <2>3. Cardinality(S) <= 1
    BY <2>1, <2>2
  <2> QED
    BY <2>3
<1> QED
  BY <1>1 DEF ObjectInv, ObjectViewKeepsUp

\* The panel, with the types of what it looks things up in.
PanelInv ==
  /\ onScreen \in Clusters
  /\ tabs \in [Clusters -> SUBSET AllTabs]
  /\ active \in [Clusters -> AllTabs \cup {NoObj}]
  /\ collapsed \in [Clusters -> BOOLEAN]
  /\ versions \in [AllTabs -> Nat] /\ askedOf \in [AllTabs -> Nat]
  /\ stale \in BOOLEAN
  /\ ChangesAreFetched

PanelTypes ==
  /\ onScreen \in Clusters
  /\ tabs \in [Clusters -> SUBSET AllTabs]
  /\ active \in [Clusters -> AllTabs \cup {NoObj}]
  /\ collapsed \in [Clusters -> BOOLEAN]

\* A render keeps what is to be fetched: another object shown is stale.
LEMMA RenderedKeeps ==
  ASSUME PanelInv, PanelTypes', Rendered, UNCHANGED <<versions, events, askedOf>>
  PROVE  PanelInv'
<1> DEFINE key == RefreshKey(active, collapsed, onScreen)
<1>1. RefreshKey(active', collapsed', onScreen') = key \/ stale'
  BY DEF Rendered
<1>2. stale' \in BOOLEAN /\ (stale => stale')
  BY DEF Rendered, PanelInv
<1>3. ChangesAreFetched'
  <2> HIDE DEF key
  <2>1. CASE stale'
    BY <2>1 DEF ChangesAreFetched
  <2>2. CASE ~stale'
    <3>1. RefreshKey(active', collapsed', onScreen') = key /\ ~stale
      BY <1>1, <1>2, <2>2
    <3>2. key # NoObj /\ key \notin events /\ askedOf[key] < versions[key] => stale
      BY DEF PanelInv, ChangesAreFetched, key
    <3> QED
      BY <3>1, <3>2 DEF ChangesAreFetched
  <2> QED
    BY <2>1, <2>2
<1> QED
  BY <1>2, <1>3 DEF PanelInv, PanelTypes

LEMMA PanelStep ==
  ASSUME PanelInv, [PanelNext]_panelVars
  PROVE  PanelInv'
<1> USE DEF PanelTypes
<1>1. PanelTypes
  BY DEF PanelInv
<1>2. CASE UNCHANGED panelVars
  BY <1>2 DEF panelVars, PanelInv, ChangesAreFetched, RefreshKey
<1>3. CASE ToggleDetailsPanel
  <2>1. PanelTypes'
    BY <1>1, <1>3 DEF ToggleDetailsPanel
  <2> QED
    BY <1>3, <2>1, RenderedKeeps DEF ToggleDetailsPanel
<1>4. CASE CollapseTimer
  <2>1. PanelTypes' /\ collapsed'[onScreen']
    BY <1>1, <1>4 DEF CollapseTimer
  <2>2. ChangesAreFetched'
    BY <2>1 DEF ChangesAreFetched, RefreshKey
  <2> QED
    BY <1>4, <2>1, <2>2 DEF CollapseTimer, PanelInv
<1>5. CASE Resize
  <2>1. PanelTypes'
    BY <1>1, <1>5 DEF Resize
  <2> QED
    BY <1>5, <2>1, RenderedKeeps DEF Resize
<1>6. CASE DragOver \/ EditorDragEnd \/ DragTimer
  <2>1. PanelTypes'
    BY <1>1, <1>6 DEF DragOver, EditorDragEnd, DragTimer
  <2> QED
    BY <1>6, <2>1, RenderedKeeps DEF DragOver, EditorDragEnd, DragTimer
<1>7. CASE StaleTimer
  BY <1>7 DEF StaleTimer, PanelInv, ChangesAreFetched
<1>8. ASSUME NEW o \in AllTabs, OpenTab(o) \/ HandleDetailDrop(o) \/ HandleResourceDrop(o)
      PROVE  PanelInv'
  <2>1. ASSUME OpenTab(o)
        PROVE  PanelTypes'
    BY <1>1, <2>1 DEF OpenTab
  <2>2. ASSUME HandleDetailDrop(o)
        PROVE  PanelTypes'
    BY <1>1, <2>2 DEF HandleDetailDrop
  <2>3. ASSUME HandleResourceDrop(o)
        PROVE  PanelTypes'
    BY <1>1, <2>3 DEF HandleResourceDrop
  <2>4. PanelTypes'
    BY <1>8, <2>1, <2>2, <2>3
  <2> QED
    BY <1>8, <2>4, RenderedKeeps DEF OpenTab, HandleDetailDrop, HandleResourceDrop
<1>9. ASSUME NEW o \in AllTabs, CloseTab(o)
      PROVE  PanelInv'
  <2>1. PICK n \in (tabs[onScreen] \ {o}) \cup {NoObj} :
           active' = [active EXCEPT ![onScreen] = IF @ = o THEN n ELSE @]
    BY <1>9 DEF CloseTab
  <2>2. n \in AllTabs \cup {NoObj}
    BY <1>1
  <2>3. PanelTypes'
    BY <1>1, <1>9, <2>1, <2>2 DEF CloseTab
  <2> QED
    BY <1>9, <2>3, RenderedKeeps DEF CloseTab
<1>10. ASSUME NEW o \in AllTabs, ObjectChanges(o)
       PROVE  PanelInv'
  <2>1. PanelTypes' /\ versions' \in [AllTabs -> Nat] /\ UNCHANGED <<askedOf, stale>>
    BY <1>1, <1>10 DEF ObjectChanges, PanelInv
  <2>2. /\ events' = events \cup {o} /\ \A k \in AllTabs \ {o} : versions'[k] = versions[k]
        /\ RefreshKey(active', collapsed', onScreen') = RefreshKey(active, collapsed, onScreen)
    BY <1>10 DEF ObjectChanges, PanelInv
  <2>3. RefreshKey(active, collapsed, onScreen) \in AllTabs \cup {NoObj}
    BY <1>1 DEF RefreshKey
  <2>4. ChangesAreFetched'
    BY <2>1, <2>2, <2>3 DEF ChangesAreFetched, PanelInv
  <2> QED
    BY <2>1, <2>4 DEF PanelInv
<1>11. ASSUME NEW o \in AllTabs, OnChanged(o)
       PROVE  PanelInv'
  BY <1>11 DEF OnChanged, PanelInv, ChangesAreFetched, RefreshKey
<1>12. ASSUME NEW c \in Clusters, SwitchCluster(c)
       PROVE  PanelInv'
  <2>1. PanelTypes'
    BY <1>1, <1>12 DEF SwitchCluster
  <2> QED
    BY <1>12, <2>1, RenderedKeeps DEF SwitchCluster
<1>13. ASSUME NEW w, EditorDragStart(w)
       PROVE  PanelInv'
  <2>1. PanelTypes'
    BY <1>1, <1>13 DEF EditorDragStart
  <2> QED
    BY <1>13, <2>1, RenderedKeeps DEF EditorDragStart
<1>14. ASSUME NEW live \in BOOLEAN, RefreshDetails(live)
       PROVE  PanelInv'
  <2> DEFINE key == RefreshKey(active, collapsed, onScreen)
  <2>1. key \in AllTabs
    BY <1>1, <1>14 DEF RefreshDetails, RefreshKey
  <2>2. /\ askedOf' = [askedOf EXCEPT ![key] = versions[key]] /\ versions' = versions
        /\ RefreshKey(active', collapsed', onScreen') = key
        /\ stale' = FALSE /\ UNCHANGED <<onScreen, tabs, active, collapsed>>
    BY <1>14 DEF RefreshDetails
  <2> HIDE DEF key
  <2>3. askedOf' \in [AllTabs -> Nat] /\ askedOf'[key] = versions[key] /\ versions[key] \in Nat
    BY <2>1, <2>2 DEF PanelInv
  <2>4. ChangesAreFetched'
    BY <2>2, <2>3 DEF ChangesAreFetched
  <2> QED
    BY <1>1, <2>2, <2>3, <2>4 DEF PanelInv
<1> QED
  BY <1>2, <1>3, <1>4, <1>5, <1>6, <1>7, <1>8, <1>9, <1>10, <1>11, <1>12, <1>13, <1>14 DEF PanelNext

\* Whatever overtakes what, no write is lost in silence, no section of a release
\* waits for nothing, the view of an object keeps up with it, and an announced
\* change is asked for (YamlEditor, HelmReleaseDetailView, ResourceDetailView and
\* DetailView).
THEOREM InspectorAlwaysKeepsUp == InspectorSpec => []InspectorKeepsUp
<1> DEFINE Inv == EditInv /\ ReleaseInv /\ ObjectInv /\ PanelInv
<1>1. InspectorInit => Inv
  <2>1. ASSUME EditorInit
        PROVE  EditInv
    <3> USE DEF IsText, IsObject, IsRequest, Saw, Template, NoText, NotServed
    <3>1. IsObject(object) /\ IsText(text)
      <4>1. text = Template \/ text = NoText
        BY <2>1 DEF EditorInit
      <4>2. object = [ver |-> 1, writes |-> {}, gone |-> FALSE]
        BY <2>1 DEF EditorInit
      <4> QED
        BY <4>1, <4>2
    <3>2. \A r \in reqs : r = [op |-> "load", text |-> NoText, got |-> NotServed]
      BY <2>1 DEF EditorInit
    <3>3. \A r \in reqs : IsRequest(r)
      BY <3>2
    <3>4. ASSUME editing = "edit"
          PROVE  WorkKept
      <4>1. /\ object.ver = 1 /\ object.writes = {} /\ accepted = {} /\ text = NoText
        BY <2>1, <3>4 DEF EditorInit
      <4>2. \A r \in reqs : Saw(object, r.text) /\ Saw(object, r.got) /\ r.got.writes \subseteq accepted
        BY <3>2, <4>1
      <4> QED
        BY <4>1, <4>2 DEF WorkKept, EditorKeepsWork
    <3> QED
      BY <3>1, <3>3, <3>4 DEF EditInv, EditTypes
  <2>2. ASSUME ReleaseInit
        PROVE  ReleaseInv
    <3> USE DEF HelmSections, RelActions
    <3>1. pending \in [HelmSections \cup RelActions -> Nat]
      BY <2>2 DEF ReleaseInit
    <3>2. /\ \A s \in HelmSections : pending[s] = 1
          /\ pending["rollback"] = 0 /\ pending["uninstall"] = 0
      BY <2>2 DEF ReleaseInit
    <3>3. pending["rollback"] + pending["uninstall"] = 0
      BY <3>2
    <3>4. skeletons = HelmSections /\ acting = FALSE /\ toggleReq = FALSE
      BY <2>2 DEF ReleaseInit
    <3> HIDE DEF HelmSections, RelActions
    <3>5. \A s \in skeletons : pending[s] > 0
      BY <3>2, <3>4
    <3>6. ReleaseSettles
      BY <3>3, <3>4, <3>5 DEF ReleaseSettles
    <3> QED
      BY <3>1, <3>4, <3>6 DEF ReleaseInv
  <2>3. ObjectInit => ObjectInv
    BY DEF ObjectInit, ObjectInv
  <2>4. PanelInit => PanelInv
    BY DEF PanelInit, PanelInv, ChangesAreFetched
  <2> QED
    BY <2>1, <2>2, <2>3, <2>4 DEF InspectorInit
<1>2. Inv /\ [InspectorNext]_inspVars => Inv'
  <2> SUFFICES ASSUME Inv, [InspectorNext]_inspVars
               PROVE  Inv'
    OBVIOUS
  <2>1. [EditorNext]_editVars /\ [ReleaseNext]_relVars /\ [ObjectNext]_objVars /\ [PanelNext]_panelVars
    BY DEF InspectorNext, inspVars
  <2> QED
    BY <2>1, EditorStep, ReleaseStep, ObjectStep, PanelStep
<1>3. Inv => InspectorKeepsUp
  BY ObjectInvTells DEF InspectorKeepsUp, EditInv, WorkKept, EditorKeepsWork, ReleaseInv, PanelInv
<1> QED
  BY <1>1, <1>2, <1>3, PTL DEF InspectorSpec

---------------------------------------------------------------------------
(* Cloud identities                                                        *)

\* Sign-in: what is pending is polled, and a wait that is over has one reload,
\* whose end alone frees the key.
SignInStates == {"none", "begin", "poll", "load", "pending", "authorized", "failed",
                 "cancelled", "gone"}
IsWait(l, k) == l.op.kind = "wait" /\ l.op.key = k
SignInInv ==
  /\ logins \in [LoginKeys -> SignInStates] /\ waiters \in [LoginKeys -> SignInStates]
  /\ jobs \in [LoginKeys -> SignInStates]
  /\ \A k \in LoginKeys : \A l \in authLoads : IsWait(l, k) =>
       waiters[k] = "load" /\ \A m \in authLoads : IsWait(m, k) => m = l
  /\ SignInsAreWatched

\* A request that is added is of what it is added for.
LEMMA ForcedAdds ==
  ASSUME NEW L, NEW op, NEW snap
  PROVE  \E l : l.op = op /\ Forced(L, op, snap) = L \cup {l}
<1> DEFINE n == CHOOSE i \in 1..(Cardinality(L) + 1) : \A l \in L : l.n # i
           l == [n |-> n, snap |-> snap, op |-> op]
<1>1. l.op = op /\ Forced(L, op, snap) = L \cup {l}
  BY DEF Forced
<1> QED
  BY <1>1

\* A plain reload is nobody's wait.
LEMMA ReloadsWaitForNothing ==
  ASSUME NEW L, NEW op, NEW snap, op.kind # "wait"
  PROVE  \A l \in Forced(L, op, snap), k \in LoginKeys : IsWait(l, k) => l \in L
<1>1. PICK l : l.op = op /\ Forced(L, op, snap) = L \cup {l}
  BY ForcedAdds
<1> QED
  BY <1>1 DEF IsWait

\* A step that begins no wait's reload and frees no key of one.
LEMMA SignInKept ==
  ASSUME SignInInv,
         logins' \in [LoginKeys -> SignInStates], waiters' \in [LoginKeys -> SignInStates],
         jobs' \in [LoginKeys -> SignInStates],
         \A k \in LoginKeys : \A l \in authLoads' :
            IsWait(l, k) => l \in authLoads /\ waiters'[k] = "load",
         \A k \in LoginKeys : logins'[k] = "pending" => waiters'[k] = "poll"
  PROVE  SignInInv'
  BY DEF SignInInv, SignInsAreWatched

LEMMA SignInStep ==
  ASSUME SignInInv, [SignInNext]_signVars
  PROVE  SignInInv'
<1> USE DEF SignInStates
<1>0. /\ logins \in [LoginKeys -> SignInStates] /\ waiters \in [LoginKeys -> SignInStates]
      /\ jobs \in [LoginKeys -> SignInStates]
      /\ \A k \in LoginKeys : logins[k] = "pending" => waiters[k] = "poll"
      /\ \A k \in LoginKeys : \A l \in authLoads : IsWait(l, k) => waiters[k] = "load"
  BY DEF SignInInv, SignInsAreWatched
<1>1. ASSUME UNCHANGED <<logins, waiters>>, jobs' \in [LoginKeys -> SignInStates],
             \A l \in authLoads', k \in LoginKeys : IsWait(l, k) => l \in authLoads
      PROVE  SignInInv'
  <2>1. \A k \in LoginKeys : \A l \in authLoads' :
            IsWait(l, k) => l \in authLoads /\ waiters'[k] = "load"
    BY <1>0, <1>1
  <2> QED
    BY <1>0, <1>1, <2>1, SignInKept
<1>2. ASSUME NEW op, NEW snap, op.kind # "wait", LoadSummary(op, snap)
      PROVE  \A l \in authLoads', k \in LoginKeys : IsWait(l, k) => l \in authLoads
  BY <1>2, ReloadsWaitForNothing DEF LoadSummary
<1>3. CASE UNCHANGED signVars
  BY <1>0, <1>1, <1>3 DEF signVars
<1>4. CASE Reload
  BY <1>0, <1>1, <1>2, <1>4 DEF Reload, NoKey
<1>5. ASSUME NEW l \in authLoads, SummaryAnswers(l)
      PROVE  SignInInv'
  BY <1>0, <1>1, <1>5 DEF SummaryAnswers
<1>6. ASSUME NEW k, Begins(k), UNCHANGED <<logins, jobs>>, authLoads' \subseteq authLoads
      PROVE  SignInInv'
  <2>1. waiters' \in [LoginKeys -> SignInStates]
    BY <1>0, <1>6 DEF Begins
  <2>2. \A j \in LoginKeys : waiters'[j] = waiters[j] \/ waiters[j] = "none"
    BY <1>0, <1>6 DEF Begins
  <2> QED
    BY <1>0, <1>6, <2>1, <2>2, SignInKept
<1>7. ASSUME NEW l \in authLoads, SignInEnds(l)
      PROVE  SignInInv'
  <2> DEFINE key == l.op.key
  <2>1. /\ waiters' = [waiters EXCEPT ![key] = "none"] /\ UNCHANGED <<logins, jobs>>
        /\ l.op.kind = "wait"
    BY <1>7 DEF SignInEnds
  <2>2. \A m \in authLoads', k \in LoginKeys : IsWait(m, k) => m \in authLoads \ {l}
    <3>1. CASE authLoads' = authLoads \ {l}
      BY <3>1
    <3>2. CASE authLoads' = Forced(authLoads \ {l}, NoKey, tokens)
      BY <3>2, ReloadsWaitForNothing DEF NoKey
    <3> QED
      BY <1>7, <3>1, <3>2 DEF SignInEnds
  <2>3. \A k \in LoginKeys : \A m \in authLoads' : IsWait(m, k) => k # key
    BY <2>1, <2>2 DEF SignInInv, IsWait
  <2>4. waiters' \in [LoginKeys -> SignInStates] /\ \A k \in LoginKeys : k # key => waiters'[k] = waiters[k]
    BY <1>0, <2>1
  <2>5. \A k \in LoginKeys : k = key => logins[k] # "pending"
    BY <1>0, <2>1 DEF IsWait
  <2> HIDE DEF key
  <2> QED
    BY <1>0, <2>1, <2>2, <2>3, <2>4, <2>5, SignInKept
<1>8. ASSUME NEW l \in authLoads, AddedPortal(l)
      PROVE  SignInInv'
  BY <1>6, <1>8 DEF AddedPortal
<1>9. ASSUME NEW c \in cancels, CancelAnswers(c)
      PROVE  SignInInv'
  <2>1. /\ logins' = [logins EXCEPT ![c.key] = "none"] /\ waiters' = waiters
        /\ jobs' \in [LoginKeys -> SignInStates]
    BY <1>0, <1>9 DEF CancelAnswers
  <2>2. \A l \in authLoads', k \in LoginKeys : IsWait(l, k) => l \in authLoads
    BY <1>2, <1>9 DEF CancelAnswers, NoKey
  <2>3. logins' \in [LoginKeys -> SignInStates] /\ \A k \in LoginKeys : logins'[k] \in {logins[k], "none"}
    BY <1>0, <2>1
  <2> QED
    BY <1>0, <2>1, <2>2, <2>3, SignInKept
<1>10. ASSUME NEW k \in LoginKeys, SignInSSO(k) \/ SignInProvider(k) \/ SignInAWSProfile(k)
       PROVE  SignInInv'
  BY <1>6, <1>10 DEF SignInSSO, SignInProvider, SignInAWSProfile
<1>11. ASSUME NEW k \in LoginKeys, BeginAnswers(k)
       PROVE  SignInInv'
  BY <1>0, <1>11, SignInKept DEF BeginAnswers
<1>12. ASSUME NEW k \in LoginKeys, BeginFails(k)
       PROVE  SignInInv'
  BY <1>0, <1>12, SignInKept DEF BeginFails
<1>13. ASSUME NEW k \in LoginKeys, PollAnswers(k)
       PROVE  SignInInv'
  BY <1>0, <1>13, SignInKept DEF PollAnswers
<1>14. ASSUME NEW k \in LoginKeys, WaitForLogin(k)
       PROVE  SignInInv'
  <2> DEFINE op == [kind |-> "wait", key |-> k]
  <2>1. PICK l : l.op = op /\ authLoads' = authLoads \cup {l}
    BY <1>14, ForcedAdds DEF WaitForLogin, LoadSummary
  <2>2. /\ waiters[k] = "poll" /\ waiters' = [waiters EXCEPT ![k] = "load"]
        /\ logins' = [logins EXCEPT ![k] = FinalLogin(k)] /\ jobs' = jobs
        /\ FinalLogin(k) # "pending" /\ FinalLogin(k) \in SignInStates
    BY <1>0, <1>14 DEF WaitForLogin, FinalLogin
  <2>3. /\ waiters' \in [LoginKeys -> SignInStates] /\ logins' \in [LoginKeys -> SignInStates]
        /\ \A j \in LoginKeys \ {k} : waiters'[j] = waiters[j] /\ logins'[j] = logins[j]
        /\ waiters'[k] = "load" /\ logins'[k] # "pending"
    BY <1>0, <2>2
  <2>4. \A j \in LoginKeys : IsWait(l, j) => j = k
    BY <2>1 DEF IsWait
  <2>5. \A m \in authLoads : ~IsWait(m, k)
    BY <1>0, <2>2
  <2>6. SignInsAreWatched'
    BY <1>0, <2>3 DEF SignInsAreWatched
  <2>7. ASSUME NEW j \in LoginKeys, NEW m \in authLoads', IsWait(m, j)
        PROVE  waiters'[j] = "load" /\ \A p \in authLoads' : IsWait(p, j) => p = m
    <3>1. CASE j = k
      BY <2>1, <2>3, <2>5, <2>7, <3>1
    <3>2. CASE j # k
      BY <2>1, <2>3, <2>4, <2>7, <3>2 DEF SignInInv
    <3> QED
      BY <3>1, <3>2
  <2> QED
    BY <1>0, <2>2, <2>3, <2>6, <2>7 DEF SignInInv
<1>15. ASSUME NEW k \in LoginKeys, AddSsoSession(k) \/ RefreshSSO(k)
       PROVE  SignInInv'
  <2>1. UNCHANGED <<logins, waiters, jobs>>
    BY <1>15 DEF AddSsoSession, RefreshSSO
  <2>2. \/ LoadSummary([kind |-> "add", key |-> k], tokens)
        \/ LoadSummary(NoKey, tokens')
    BY <1>15 DEF AddSsoSession, RefreshSSO
  <2>3. \A l \in authLoads', j \in LoginKeys : IsWait(l, j) => l \in authLoads
    BY <1>2, <2>2 DEF NoKey
  <2> QED
    BY <1>0, <1>1, <2>1, <2>3
<1>16. ASSUME NEW k \in LoginKeys, NEW reload \in BOOLEAN, Drops(k, reload), UNCHANGED <<jobs, waiters>>
       PROVE  SignInInv'
  <2>1. \A l \in authLoads', j \in LoginKeys : IsWait(l, j) => l \in authLoads
    BY <1>2, <1>16 DEF Drops, NoKey
  <2>2. /\ logins' \in [LoginKeys -> SignInStates]
        /\ \A j \in LoginKeys : logins'[j] \in {logins[j], "none"}
    BY <1>0, <1>16 DEF Drops
  <2> QED
    BY <1>0, <1>16, <2>1, <2>2, SignInKept
<1>17. ASSUME NEW k \in LoginKeys, CancelLogin(k) \/ SignOutSSO(k)
       PROVE  SignInInv'
  BY <1>16, <1>17 DEF CancelLogin, SignOutSSO
<1>18. ASSUME NEW k \in LoginKeys, LoadAccounts(k) \/ AccountsAnswer(k)
       PROVE  SignInInv'
  BY <1>0, <1>1, <1>18 DEF LoadAccounts, AccountsAnswer
<1>19. ASSUME NEW k \in LoginKeys, JobEnds(k) \/ JobForgotten(k)
       PROVE  SignInInv'
  <2>1. jobs' \in [LoginKeys -> SignInStates] /\ UNCHANGED <<logins, waiters, authLoads>>
    BY <1>0, <1>19 DEF JobEnds, JobForgotten
  <2> QED
    BY <1>1, <2>1
<1> QED
  BY <1>3, <1>4, <1>5, <1>7, <1>8, <1>9, <1>10, <1>11, <1>12, <1>13, <1>14, <1>15, <1>17,
     <1>18, <1>19 DEF SignInNext

\* Discovery: only the last run can be waiting for its clusters or have streams,
\* since the button is disabled until it has ended and leaving the page forgets it.
Sources == {SsoSource, ProfileSource, ProjectSource}
DiscoveryRuns ==
  [phase : {"ids", "streams", "lost", "left"}, known : SUBSET CloudClusters, all : SUBSET CloudClusters,
   open : SUBSET Sources, picked : SUBSET Sources]
DiscoverInv ==
  /\ runs \in Seq(DiscoveryRuns)
  /\ chosen \subseteq Sources /\ imported \subseteq CloudClusters /\ storedFound \subseteq CloudClusters
  /\ found \subseteq [id : CloudClusters, imported : BOOLEAN, run : Nat]
  /\ \A r \in DOMAIN runs : runs[r].phase = "ids" => r = Len(runs) /\ discovering
  /\ \A t \in runStreams : t.run = Len(runs) /\ t.run \in DOMAIN runs /\ t.src \in Sources
                           /\ runs[t.run].phase # "ids"
  /\ ListIsTheNewestRuns

DiscoverTypes ==
  /\ runs \in Seq(DiscoveryRuns)
  /\ chosen \subseteq Sources /\ imported \subseteq CloudClusters /\ storedFound \subseteq CloudClusters
  /\ found \subseteq [id : CloudClusters, imported : BOOLEAN, run : Nat]

\* A run's clusters, as they are listed.
LEMMA MarksAreRows ==
  ASSUME NEW ids \in SUBSET CloudClusters, NEW known, NEW r \in Nat
  PROVE  /\ Marks(ids, known, r) \subseteq [id : CloudClusters, imported : BOOLEAN, run : Nat]
         /\ \A c \in Marks(ids, known, r) : c.run = r
<1>1. ASSUME NEW c \in Marks(ids, known, r)
      PROVE  c \in [id : CloudClusters, imported : BOOLEAN, run : Nat] /\ c.run = r
  <2>1. PICK i \in ids : c = [id |-> i, imported |-> i \in known, run |-> r]
    BY DEF Marks
  <2>2. (i \in known) \in BOOLEAN
    OBVIOUS
  <2> DEFINE b == i \in known
  <2> HIDE DEF b
  <2>3. b \in BOOLEAN /\ c = [id |-> i, imported |-> b, run |-> r]
    BY <2>1, <2>2 DEF b
  <2> QED
    BY <2>3
<1> QED
  BY <1>1

\* A list of rows of the background pass or of the last run keeps the invariant.
LEMMA ListsKeeps ==
  ASSUME DiscoverInv, NEW f, Lists(f),
         f \subseteq [id : CloudClusters, imported : BOOLEAN, run : Nat],
         \A c \in f : c.run \in {0, Len(runs)}
  PROVE  /\ found' \subseteq [id : CloudClusters, imported : BOOLEAN, run : Nat]
         /\ storedFound' \subseteq CloudClusters
         /\ \A c \in found' : c.run \in {0, Len(runs)}
  BY DEF Lists

LEMMA DiscoverStep ==
  ASSUME DiscoverInv, [DiscoverNext]_discoverVars
  PROVE  DiscoverInv'
<1> USE DEF Sources
<1>0. DiscoverTypes
  BY DEF DiscoverInv, DiscoverTypes
<1>1. ASSUME UNCHANGED <<runs, runStreams, discovering, found, storedFound, imported>>,
             chosen' \subseteq Sources
      PROVE  DiscoverInv'
  BY <1>1 DEF DiscoverInv, ListIsTheNewestRuns
<1>2. ASSUME NEW f, Lists(f), UNCHANGED <<runs, runStreams, discovering>>,
             chosen' \subseteq Sources, imported' \subseteq CloudClusters,
             f \subseteq [id : CloudClusters, imported : BOOLEAN, run : Nat],
             \A c \in f : c.run \in {0, Len(runs)}
      PROVE  DiscoverInv'
  <2>1. /\ found' \subseteq [id : CloudClusters, imported : BOOLEAN, run : Nat]
        /\ storedFound' \subseteq CloudClusters
        /\ \A c \in found' : c.run \in {0, Len(runs)}
    BY <1>2, ListsKeeps
  <2> QED
    BY <1>2, <2>1 DEF DiscoverInv, ListIsTheNewestRuns
<1>3. CASE UNCHANGED discoverVars
  BY <1>0, <1>1, <1>3 DEF discoverVars, DiscoverTypes
<1>4. ASSUME NEW t \in {"aws", "gcp"}, SetActiveTab(t)
      PROVE  DiscoverInv'
  BY <1>0, <1>1, <1>4 DEF SetActiveTab, DiscoverTypes
<1>5. CASE LoadProjects
  BY <1>0, <1>1, <1>5 DEF LoadProjects, DiscoverTypes
<1>6. ASSUME NEW x \in SourceBoxes, ToggleSource(x)
      PROVE  DiscoverInv'
  <2>1. x \in Sources
    BY DEF SourceBoxes
  <2> QED
    BY <1>0, <1>1, <1>6, <2>1 DEF ToggleSource, DiscoverTypes
<1>7. ASSUME NEW p \in SsoPortals, ListAccounts(p) \/ ToggleAllAccounts(p)
      PROVE  DiscoverInv'
  BY <1>0, <1>1, <1>7 DEF ListAccounts, ToggleAllAccounts, DiscoverTypes
<1>8. CASE HandleDiscover
  <2> DEFINE run == [phase |-> "ids", known |-> {}, all |-> {}, open |-> {}, picked |-> Asked(source)]
  <2>1. /\ runs' = Append(runs, run) /\ runStreams' = {} /\ discovering' = TRUE /\ ~discovering
        /\ found' = {} /\ storedFound' = {} /\ UNCHANGED <<chosen, imported>>
    BY <1>8 DEF HandleDiscover, StoppedStreams, Lists, ClustersPanel
  <2>2. run \in DiscoveryRuns
    <3>1. Asked(source) \subseteq Sources
      BY <1>0 DEF Asked, DiscoverTypes
    <3> QED
      BY <3>1 DEF DiscoveryRuns
  <2> HIDE DEF run
  <2>3. /\ runs' \in Seq(DiscoveryRuns) /\ Len(runs') = Len(runs) + 1
        /\ \A r \in DOMAIN runs : runs'[r] = runs[r]
        /\ DOMAIN runs' = DOMAIN runs \cup {Len(runs')}
    BY <1>0, <2>1, <2>2 DEF DiscoverTypes
  <2>4. \A r \in DOMAIN runs : runs[r].phase # "ids"
    BY <2>1 DEF DiscoverInv
  <2>5. \A r \in DOMAIN runs' : runs'[r].phase = "ids" => r = Len(runs') /\ discovering'
    BY <2>1, <2>3, <2>4
  <2> QED
    BY <1>0, <2>1, <2>3, <2>5 DEF DiscoverInv, DiscoverTypes, ListIsTheNewestRuns
<1>9. CASE ArmBackground \/ RunBackgroundDiscovery
  BY <1>0, <1>1, <1>9 DEF ArmBackground, RunBackgroundDiscovery, DiscoverTypes
<1>10. CASE BackgroundAnswers
  <2>1. UNCHANGED <<runs, runStreams, discovering, chosen, imported>>
    BY <1>10 DEF BackgroundAnswers
  <2>2. CASE UNCHANGED <<found, storedFound>>
    BY <1>0, <1>1, <2>1, <2>2 DEF DiscoverTypes
  <2>3. ASSUME NEW ids \in SUBSET CloudClusters, Lists(Marks(ids, imported, 0))
        PROVE  DiscoverInv'
    BY <1>0, <1>2, <2>1, <2>3, MarksAreRows DEF DiscoverTypes
  <2> QED
    BY <1>10, <2>2, <2>3 DEF BackgroundAnswers
<1>11. ASSUME NEW r \in DOMAIN runs, OpenStreams(r)
       PROVE  DiscoverInv'
  <2> DEFINE run == [runs[r] EXCEPT !.phase = "streams", !.known = imported,
                                    !.open = @ \cup runs[r].picked]
  <2>1. /\ runs[r].phase = "ids" /\ runs' = [runs EXCEPT ![r] = run]
        /\ runStreams' = runStreams \cup {[run |-> r, src |-> x] : x \in runs[r].picked}
        /\ UNCHANGED <<chosen, found, storedFound, imported>>
    BY <1>11 DEF OpenStreams
  <2>2. runs[r] \in DiscoveryRuns
    BY <1>0 DEF DiscoverTypes
  <2>3. run \in DiscoveryRuns /\ run.phase = "streams"
    BY <1>0, <2>2 DEF DiscoveryRuns, DiscoverTypes
  <2> HIDE DEF run
  <2>4. /\ runs' \in Seq(DiscoveryRuns) /\ Len(runs') = Len(runs) /\ DOMAIN runs' = DOMAIN runs
        /\ runs'[r] = run /\ \A q \in DOMAIN runs \ {r} : runs'[q] = runs[q]
    BY <1>0, <2>1, <2>3 DEF DiscoverTypes
  <2>5. r = Len(runs) /\ \A q \in DOMAIN runs : runs'[q].phase # "ids"
    BY <2>1, <2>3, <2>4 DEF DiscoverInv
  <2>6. \A t \in runStreams' : t.run = Len(runs') /\ t.run \in DOMAIN runs' /\ t.src \in Sources
    BY <2>1, <2>2, <2>4, <2>5 DEF DiscoverInv, DiscoveryRuns
  <2> QED
    BY <1>0, <2>1, <2>4, <2>5, <2>6 DEF DiscoverInv, DiscoverTypes, ListIsTheNewestRuns
<1>12. ASSUME NEW r \in DOMAIN runs, NEW run \in DiscoveryRuns,
              run.phase = runs[r].phase \/ run.phase = "lost",
              runs' = [runs EXCEPT ![r] = run],
              run.phase = "ids" => discovering',
              UNCHANGED <<runStreams, chosen, imported>>
       PROVE  /\ runs' \in Seq(DiscoveryRuns) /\ Len(runs') = Len(runs)
              /\ \A q \in DOMAIN runs' : runs'[q].phase = "ids" => q = Len(runs')
              /\ \A t \in runStreams' : t.run = Len(runs') /\ t.run \in DOMAIN runs' /\ t.src \in Sources
                                        /\ runs'[t.run].phase # "ids"
  <2>1. /\ runs' \in Seq(DiscoveryRuns) /\ Len(runs') = Len(runs) /\ DOMAIN runs' = DOMAIN runs
        /\ runs'[r] = run /\ \A q \in DOMAIN runs \ {r} : runs'[q] = runs[q]
    BY <1>0, <1>12 DEF DiscoverTypes
  <2>2. \A q \in DOMAIN runs : runs'[q].phase = "ids" => runs[q].phase = "ids"
    BY <1>12, <2>1
  <2> QED
    BY <1>12, <2>1, <2>2 DEF DiscoverInv
<1>13. ASSUME NEW r \in DOMAIN runs, IdsFail(r)
       PROVE  DiscoverInv'
  <2> DEFINE run == [runs[r] EXCEPT !.phase = "lost"]
  <2>1. /\ runs' = [runs EXCEPT ![r] = run]
        /\ UNCHANGED <<runStreams, chosen, imported, discovering, found, storedFound>>
    BY <1>13 DEF IdsFail
  <2>2. run \in DiscoveryRuns /\ run.phase = "lost"
    <3>1. runs[r] \in DiscoveryRuns
      BY <1>0 DEF DiscoverTypes
    <3> QED
      BY <3>1 DEF DiscoveryRuns
  <2>3. \A q \in DOMAIN runs' : runs'[q].phase = "ids" => discovering'
    <3> HIDE DEF run
    <3>1. DOMAIN runs' = DOMAIN runs /\ \A q \in DOMAIN runs : runs'[q] = IF q = r THEN run ELSE runs[q]
      BY <1>0, <2>1 DEF DiscoverTypes
    <3> QED
      BY <2>1, <2>2, <3>1 DEF DiscoverInv
  <2> HIDE DEF run
  <2> QED
    BY <1>0, <1>12, <2>1, <2>2, <2>3 DEF DiscoverInv, DiscoverTypes, ListIsTheNewestRuns
<1>14. ASSUME NEW t \in runStreams
       PROVE  /\ t.run \in DOMAIN runs /\ t.run = Len(runs) /\ t.run \in Nat
              /\ runs[t.run] \in DiscoveryRuns /\ t.src \in Sources
              /\ \A q \in DOMAIN runs : runs[q].phase # "ids"
  BY <1>0 DEF DiscoverInv, DiscoverTypes
<1>15. ASSUME NEW t \in runStreams, StreamStatus(t)
       PROVE  DiscoverInv'
  <2> DEFINE f == Marks(runs[t.run].all, runs[t.run].known, t.run)
  <2>1. /\ f \subseteq [id : CloudClusters, imported : BOOLEAN, run : Nat]
        /\ \A c \in f : c.run \in {0, Len(runs)}
    BY <1>14, MarksAreRows DEF DiscoveryRuns
  <2>2. Lists(f) /\ UNCHANGED <<runs, runStreams, discovering, chosen, imported>>
    BY <1>15 DEF StreamStatus
  <2> HIDE DEF f
  <2> QED
    BY <1>0, <1>2, <2>1, <2>2 DEF DiscoverTypes
<1>16. ASSUME NEW t \in runStreams, NEW c \in CloudClusters, StreamCluster(t, c)
       PROVE  DiscoverInv'
  <2> DEFINE f == Marks(runs[t.run].all \cup {c}, runs[t.run].known, t.run)
             run == [runs[t.run] EXCEPT !.all = @ \cup {c}]
  <2>1. /\ f \subseteq [id : CloudClusters, imported : BOOLEAN, run : Nat]
        /\ \A d \in f : d.run \in {0, Len(runs)}
    BY <1>14, MarksAreRows DEF DiscoveryRuns
  <2>2. /\ Lists(f) /\ runs' = [runs EXCEPT ![t.run] = run]
        /\ UNCHANGED <<runStreams, discovering, chosen, imported>>
    BY <1>16 DEF StreamCluster
  <2>3. run \in DiscoveryRuns /\ run.phase = runs[t.run].phase
    BY <1>14 DEF DiscoveryRuns
  <2> HIDE DEF f, run
  <2>4. /\ found' \subseteq [id : CloudClusters, imported : BOOLEAN, run : Nat]
        /\ storedFound' \subseteq CloudClusters
        /\ \A d \in found' : d.run \in {0, Len(runs)}
    BY <2>1, <2>2, ListsKeeps
  <2>5. \A q \in DOMAIN runs' : runs'[q].phase # "ids"
    BY <1>0, <1>14, <2>2, <2>3 DEF DiscoverTypes
  <2> QED
    BY <1>0, <1>12, <1>14, <2>2, <2>3, <2>4, <2>5 DEF DiscoverInv, DiscoverTypes, ListIsTheNewestRuns
<1>17. ASSUME NEW t \in runStreams, StreamEnds(t)
       PROVE  DiscoverInv'
  <2> DEFINE run == [runs[t.run] EXCEPT !.open = @ \ {t.src}]
  <2>1. runs' = [runs EXCEPT ![t.run] = run] /\ UNCHANGED <<runStreams, chosen, imported, found, storedFound>>
    BY <1>17 DEF StreamEnds
  <2>2. run \in DiscoveryRuns /\ run.phase = runs[t.run].phase
    BY <1>14 DEF DiscoveryRuns
  <2> HIDE DEF run
  <2>3. \A q \in DOMAIN runs' : runs'[q].phase # "ids"
    BY <1>0, <1>14, <2>1, <2>2 DEF DiscoverTypes
  <2> QED
    BY <1>0, <1>12, <1>14, <2>1, <2>2, <2>3 DEF DiscoverInv, DiscoverTypes, ListIsTheNewestRuns
<1>18. ASSUME NEW ids \in SUBSET CloudClusters, Imported(ids),
              UNCHANGED <<runs, runStreams, discovering, chosen>>
       PROVE  DiscoverInv'
  <2> DEFINE f == {IF c.id \in ids THEN [c EXCEPT !.imported = TRUE] ELSE c : c \in found}
  <2>1. /\ f \subseteq [id : CloudClusters, imported : BOOLEAN, run : Nat]
        /\ \A c \in f : c.run \in {0, Len(runs)}
    <3>1. ASSUME NEW c \in found
          PROVE  LET d == IF c.id \in ids THEN [c EXCEPT !.imported = TRUE] ELSE c IN
                 d \in [id : CloudClusters, imported : BOOLEAN, run : Nat] /\ d.run \in {0, Len(runs)}
      BY DEF DiscoverInv, ListIsTheNewestRuns
    <3>2. ASSUME NEW d \in f
          PROVE  d \in [id : CloudClusters, imported : BOOLEAN, run : Nat] /\ d.run \in {0, Len(runs)}
      <4>1. PICK c \in found : d = IF c.id \in ids THEN [c EXCEPT !.imported = TRUE] ELSE c
        OBVIOUS
      <4> QED
        BY <3>1, <4>1
    <3> QED
      BY <3>2
  <2>2. Lists(f) /\ imported' \subseteq CloudClusters
    BY <1>0, <1>18 DEF Imported, DiscoverTypes
  <2> HIDE DEF f
  <2> QED
    BY <1>0, <1>2, <1>18, <2>1, <2>2 DEF DiscoverTypes
<1>19. ASSUME NEW c \in found, HandleImport(c)
       PROVE  DiscoverInv'
  <2>1. {c.id} \in SUBSET CloudClusters
    BY <1>0 DEF DiscoverTypes
  <2> QED
    BY <1>18, <1>19, <2>1 DEF HandleImport
<1>20. CASE HandleBatchImport \/ BatchAnswers
  BY <1>0, <1>1, <1>20 DEF HandleBatchImport, BatchAnswers, DiscoverTypes
<1>21. CASE HandleImportJobComplete
  <2>1. PICK ids \in SUBSET {c.id : c \in found} : Imported(ids)
    BY <1>21 DEF HandleImportJobComplete
  <2>2. ids \in SUBSET CloudClusters
    BY <1>0 DEF DiscoverTypes
  <2> QED
    BY <1>18, <1>21, <2>1, <2>2 DEF HandleImportJobComplete
<1>22. CASE Reopen
  <2> DEFINE left(r) == [runs[r] EXCEPT !.phase = IF @ = "ids" THEN "left" ELSE @]
  <2>1. /\ runStreams' = {} /\ chosen' = {SsoSource} /\ imported' = imported
        /\ runs' = [r \in DOMAIN runs |-> left(r)] /\ Lists(Marks(storedFound, imported, 0))
    BY <1>22 DEF Reopen
  <2>2. \A r \in DOMAIN runs : left(r) \in DiscoveryRuns /\ left(r).phase # "ids"
    <3>1. \A r \in DOMAIN runs : runs[r] \in DiscoveryRuns
      BY <1>0 DEF DiscoverTypes
    <3> QED
      BY <3>1 DEF DiscoveryRuns
  <2> HIDE DEF left
  <2>3. /\ runs' \in Seq(DiscoveryRuns) /\ Len(runs') = Len(runs)
        /\ \A r \in DOMAIN runs' : runs'[r].phase # "ids"
    <3>1. DOMAIN runs = 1 .. Len(runs) /\ Len(runs) \in Nat
      BY <1>0 DEF DiscoverTypes
    <3> QED
      BY <2>1, <2>2, <3>1
  <2>4. /\ Marks(storedFound, imported, 0) \subseteq [id : CloudClusters, imported : BOOLEAN, run : Nat]
        /\ \A c \in Marks(storedFound, imported, 0) : c.run \in {0, Len(runs)}
    BY <1>0, MarksAreRows DEF DiscoverTypes
  <2>5. /\ found' \subseteq [id : CloudClusters, imported : BOOLEAN, run : Nat]
        /\ storedFound' \subseteq CloudClusters
        /\ \A d \in found' : d.run \in {0, Len(runs)}
    BY <2>1, <2>4, ListsKeeps
  <2> QED
    BY <1>0, <2>1, <2>3, <2>5 DEF DiscoverInv, DiscoverTypes, ListIsTheNewestRuns
<1> QED
  BY <1>3, <1>4, <1>5, <1>6, <1>7, <1>8, <1>9, <1>10, <1>11, <1>13, <1>15, <1>16, <1>17,
     <1>19, <1>20, <1>21, <1>22 DEF DiscoverNext

\* Connecting: what is chosen among is granted, and so is what is being bound.
ConnectInv ==
  /\ options # Checking /\ options # {} => picked \in options /\ role \in RolesOf[picked]
  /\ busy # NotBusy /\ busy # NoBinding => busy.role \in RolesOf[busy.portal]
  /\ BindingsAreGranted

LEMMA ConnectStep ==
  ASSUME ConnectInv, [ConnectNext]_connectVars
  PROVE  ConnectInv'
<1>0. /\ options # Checking /\ options # {} => picked \in options /\ role \in RolesOf[picked]
      /\ busy # NotBusy /\ busy # NoBinding => busy.role \in RolesOf[busy.portal]
      /\ binding # NoBinding => binding.role \in RolesOf[binding.portal]
  BY DEF ConnectInv, BindingsAreGranted
<1>1. ASSUME options' # Checking /\ options' # {} => picked' \in options' /\ role' \in RolesOf[picked'],
             busy' # NotBusy /\ busy' # NoBinding => busy'.role \in RolesOf[busy'.portal],
             binding' # NoBinding => binding'.role \in RolesOf[binding'.portal]
      PROVE  ConnectInv'
  <2>1. Panel' = "choice" => options' # Checking /\ options' # {}
    BY DEF Panel
  <2> QED
    BY <1>1, <2>1 DEF ConnectInv, BindingsAreGranted, OffersConnect, OffersDisconnect, Disabled
<1>2. CASE UNCHANGED connectVars
  BY <1>0, <1>1, <1>2 DEF connectVars
<1>3. ASSUME NEW ps \in SUBSET SsoPortals, PortalsChange(ps)
      PROVE  ConnectInv'
  BY <1>0, <1>1, <1>3 DEF PortalsChange, Rechecks
<1>4. CASE OptionsAnswer
  <2>1. PICK usable \in SUBSET {p \in optionsOf : RolesOf[p] # {}} :
          /\ options' = usable
          /\ IF usable = {} THEN picked' = "" /\ role' = ""
             ELSE \E p \in IF binding.portal \in usable THEN {binding.portal} ELSE usable :
                    /\ picked' = p
                    /\ role' \in DefaultRoles(p, IF binding.portal \in usable THEN binding.role ELSE "")
    BY <1>4 DEF OptionsAnswer
  <2>2. usable # {} => picked' \in usable /\ role' \in RolesOf[picked']
    BY <2>1 DEF DefaultRoles
  <2> QED
    BY <1>0, <1>1, <1>4, <2>1, <2>2 DEF OptionsAnswer
<1>5. CASE RunEnds
  BY <1>0, <1>1, <1>5 DEF RunEnds, Rechecks
<1>6. ASSUME NEW p \in SsoPortals, ChoosePortal(p)
      PROVE  ConnectInv'
  BY <1>0, <1>1, <1>6 DEF ChoosePortal, RoleAfterPortal, DefaultRoles
<1>7. ASSUME NEW r, ChooseRole(r)
      PROVE  ConnectInv'
  BY <1>0, <1>1, <1>7 DEF ChooseRole
<1>8. CASE Connect
  <2>1. role \in RolesOf[picked]
    BY <1>8 DEF Connect, ConnectInv, BindingsAreGranted
  <2> QED
    BY <1>0, <1>1, <1>8, <2>1 DEF Connect
<1>9. CASE Disconnect
  BY <1>0, <1>1, <1>9 DEF Disconnect
<1> QED
  BY <1>2, <1>3, <1>4, <1>5, <1>6, <1>7, <1>8, <1>9 DEF ConnectNext

\* Whatever is cancelled, signed in again or forgotten, a pending sign-in is
\* polled; the list is never an earlier run's; and a cluster is only bound to a
\* role its portal grants, and can be unbound (cloudAuthSlice.ts, handleDiscover of
\* CloudDiscovery.tsx, ClusterSSOConnect.tsx).
THEOREM CloudAccessStaysTrue == CloudSpec => []CloudAccessIsTrue
<1> DEFINE Inv == SignInInv /\ DiscoverInv /\ ConnectInv
<1>1. CloudInit => Inv
  <2>1. SignInInit => SignInInv
    BY DEF SignInInit, SignInInv, SignInsAreWatched, SignInStates
  <2>2. ASSUME DiscoverInit
        PROVE  DiscoverInv
    <3>1. PICK ids \in SUBSET CloudClusters : storedFound = ids /\ found = Marks(ids, {}, 0)
      BY <2>2 DEF DiscoverInit
    <3>2. /\ found \subseteq [id : CloudClusters, imported : BOOLEAN, run : Nat]
          /\ \A c \in found : c.run = 0
      BY <3>1, MarksAreRows
    <3> QED
      BY <2>2, <3>1, <3>2 DEF DiscoverInit, DiscoverInv, ListIsTheNewestRuns, Sources
  <2>3. ConnectInit => ConnectInv
    BY DEF ConnectInit, ConnectInv, BindingsAreGranted, OffersConnect, OffersDisconnect, Panel
  <2> QED
    BY <2>1, <2>2, <2>3 DEF CloudInit
<1>2. Inv /\ [CloudNext]_cloudVars => Inv'
  <2> SUFFICES ASSUME Inv, [CloudNext]_cloudVars
               PROVE  Inv'
    OBVIOUS
  <2>1. [DiscoverNext]_discoverVars /\ [ConnectNext]_connectVars
    BY DEF CloudNext, cloudVars
  <2>2. SignInInv'
    <3>1. CASE [SignInNext]_signVars
      BY <3>1, SignInStep
    <3>2. CASE DiscoverNext
      BY <3>2 DEF DiscoverNext, DiscoveryUnchanged, SignInInv, SignInsAreWatched
    <3> QED
      BY <3>1, <3>2 DEF CloudNext, cloudVars
  <2> QED
    BY <2>1, <2>2, DiscoverStep, ConnectStep
<1>3. Inv => CloudAccessIsTrue
  BY DEF CloudAccessIsTrue, SignInInv, DiscoverInv, ConnectInv
<1> QED
  BY <1>1, <1>2, <1>3, PTL DEF CloudSpec

(***************************************************************************)
(* The AI chats and the settings of the AI agents (Assistant), for any set *)
(* of chats and repositories, any number of clicks and agents' reports and *)
(* any order of the answers.                                               *)
(*                                                                         *)
(* The properties are not inductive: that a run on show is polled or asked *)
(* for depends on what ends the polling, an answer that shows the chat at  *)
(* rest.  Such an answer is older than the run, and the invariant says     *)
(* that its correction is due: whatever shows a running chat at rest, in   *)
(* the store or on its way, is older than an answer already stored, or a   *)
(* request is under way that will show the run and start the polling.      *)
(***************************************************************************)

\* What the backend may answer, and what may be asked of it.
Copies == [st : {"none", "running", "idle", "gone", "unchanged", "waiting", "dirty"},
           ver : Int,
           patch : {"none", "proposed", "dry-run-ok", "dry-run-failed", "applied", "rejected"}]
Edits == {"send", "rename", "cancel", "remove", "dry-run", "apply", "reject"}
Thens == {"ask", "fix", "poll", "pollIfRunning", "list", "none", "refresh"}
AskOps == {"create", "get", "tick"} \cup Edits
NoneOr(S) == S \cup {"none"}
ZeroOr(S) == S \cup {0}
AskRequests == [n : Nat, op : AskOps, id : ZeroOr(ChatIds), then : Thens, since : Int,
                repo : NoneOr(Repos), force : BOOLEAN, got : Copies]

ChatTypes ==
  /\ askSteps \in Nat
  /\ kept \in [ChatIds -> Copies] /\ chats \in [ChatIds -> Copies]
  /\ newest \in [ChatIds -> Int] /\ pollers \in [ChatIds -> {"none", "timer", "asking"}]
  /\ activeId \in ZeroOr(ChatIds) /\ listed \subseteq ChatIds
  /\ repo \in NoneOr(Repos) /\ dirtyRepo \in NoneOr(Repos)
  /\ chatReqs \subseteq AskRequests

\* A chat that is asked about, listed or on show is one the backend has, or had.
Exists(i) == kept[i].st # "none"
RequestMakesSense(r) ==
  /\ r.op # "create" => r.id \in ChatIds /\ Exists(r.id)
  /\ r.op = "create" => \/ r.id = 0 /\ r.got.st \in {"waiting", "dirty"}
                        \/ r.id \in ChatIds /\ Exists(r.id) /\ r.got.st = "running"
  /\ r.op = "get" => r.since = -1
  /\ r.op = "send" => r.then = "poll"
  /\ r.op = "create" /\ r.force => r.repo \in warned
  /\ r.op = "remove" /\ r.got # NotAnswered => r.got.st = "gone"
  /\ r.got.st = "gone" => r.op # "create" /\ kept[r.id].st = "gone"
ChatsExist ==
  /\ \A i \in ChatIds : kept[i].st \in {"none", "running", "idle", "gone"}
  /\ \A i \in ChatIds : IF Exists(i) THEN kept[i].ver >= 0 ELSE kept[i].ver = -1
  /\ \A i \in ChatIds : chats[i] # NoCopy => Exists(i)
  /\ \A i \in listed : Exists(i)
  /\ activeId # 0 => Exists(activeId)
  /\ \A i \in ChatIds : pollers[i] # "none" => Exists(i)
  /\ \A r \in chatReqs : RequestMakesSense(r)
  /\ dirtyRepo # "none" => dirtyRepo \in warned

\* No answer is ahead of the backend, and a chat at rest is not the one that runs.
NotAhead(k, c) == c.ver <= k.ver /\ (k.st = "running" /\ c.st = "idle" => c.ver < k.ver)
NobodyIsAhead ==
  \A i \in ChatIds : NotAhead(kept[i], chats[i]) /\ \A r \in chatReqs : r.id = i => NotAhead(kept[i], r.got)

\* A request that will start the polling, with news the version v does not have.
Follows(r, i, v) ==
  /\ r.id = i
  /\ \/ r.op = "send" /\ r.got # NotAnswered
     \/ /\ r.op = "get" /\ r.then \in {"poll", "pollIfRunning"}
        /\ r.got = NotAnswered \/ (r.got.st = "running" /\ r.got.ver > v)
Followed(S, i, v) == \E r \in S : Follows(r, i, v)
Running(i) == kept[i].st = "running" /\ i \notin overtaken

\* While a chat runs, whoever holds it at rest will be corrected; and the one on
\* show is polled, or will be.
RestIsCorrected(i) ==
  Running(i) =>
    /\ chats[i].st = "idle" => Followed(chatReqs, i, chats[i].ver)
    /\ \A t \in chatReqs : t.id = i /\ t.got.st = "idle" => t.got.ver < newest[i] \/ Followed(chatReqs, i, t.got.ver)
ShownIsFollowed(i) ==
  i = activeId /\ Running(i) =>
    pollers[i] # "none" \/ (\E v \in Int : Followed(chatReqs, i, v)) \/ \E r \in chatReqs : r.id = i /\ r.op = "create"

FollowInv == \A i \in ChatIds : RestIsCorrected(i) /\ ShownIsFollowed(i)
ChatInv == ChatTypes /\ ChatsExist /\ NobodyIsAhead /\ FollowInv

\* The settings: what may be confirmed was shown with its own plan.
Ours(d) == d.plan = d.id /\ [d EXCEPT !.plan = "none"] \in planned
IsDialog(d) == d = [id |-> d.id, action |-> d.action, mode |-> d.mode, plan |-> d.plan]
SetupInv ==
  /\ IsDialog(dialog) /\ (dialog.plan # "none" => Ours(dialog) /\ dialog.action \in {"install", "uninstall"})
  /\ \A r \in setupReqs :
       /\ r = [n |-> r.n, op |-> r.op, of |-> r.of, got |-> r.got] /\ IsDialog(r.of)
       /\ r.op \in {"install", "uninstall"} => Ours(r.of)
       /\ r.op = "plan" => r.of.plan = "none" /\ r.of.action \in {"install", "uninstall"}

LEMMA Waits == NotAnswered \in Copies /\ NoCopy \in Copies /\ NotAnswered.st = "waiting" /\ NotAnswered.ver = -1 /\ NoCopy.st = "none" /\ NoCopy.ver = -1
BY DEF NotAnswered, NoCopy, Copies

\* A request as it is sent.
LEMMA RequestIsTyped ==
  ASSUME ChatTypes, NEW op \in AskOps, NEW i \in ZeroOr(ChatIds), op = "tick" => i \in ChatIds,
         NEW then \in Thens, NEW r \in NoneOr(Repos), NEW force \in BOOLEAN
  PROVE  /\ Req(op, i, then, r, force) \in AskRequests
         /\ Req(op, i, then, r, force).op = op /\ Req(op, i, then, r, force).id = i
         /\ Req(op, i, then, r, force).then = then /\ Req(op, i, then, r, force).repo = r
         /\ Req(op, i, then, r, force).force = force
         /\ Req(op, i, then, r, force).got = NotAnswered
         /\ op # "tick" => Req(op, i, then, r, force).since = -1
<1> DEFINE n == IF op = "tick" THEN 0 ELSE askSteps
           since == IF op = "tick" THEN chats[i].ver ELSE -1
<1>1. n \in Nat
  BY DEF ChatTypes
<1>2. since \in Int
  <2>1. CASE op = "tick"
    <3>1. chats[i] \in Copies
      BY <2>1 DEF ChatTypes
    <3> QED
      BY <2>1, <3>1 DEF Copies
  <2> QED
    BY <2>1
<1>3. Req(op, i, then, r, force) = [n |-> n, op |-> op, id |-> i, then |-> then, since |-> since,
                                    repo |-> r, force |-> force, got |-> NotAnswered]
  BY DEF Req
<1>4. op # "tick" => since = -1
  OBVIOUS
<1> HIDE DEF n, since
<1> QED
  BY <1>1, <1>2, <1>3, <1>4, Waits DEF AskRequests

\* Most requests force nothing.
Plain(op, i, then) == Req(op, i, then, "none", FALSE)
LEMMA PlainIsTyped ==
  ASSUME ChatTypes, NEW op \in AskOps, NEW i \in ZeroOr(ChatIds), op = "tick" => i \in ChatIds,
         NEW then \in Thens
  PROVE  /\ Plain(op, i, then) \in AskRequests
         /\ Plain(op, i, then).op = op /\ Plain(op, i, then).id = i
         /\ Plain(op, i, then).then = then /\ ~Plain(op, i, then).force
         /\ Plain(op, i, then).got = NotAnswered
         /\ op # "tick" => Plain(op, i, then).since = -1
<1> DEFINE no == FALSE
           r == "none"
<1>1. no \in BOOLEAN /\ r \in NoneOr(Repos) /\ ~no
  BY DEF NoneOr
<1>2. Plain(op, i, then) = Req(op, i, then, r, no)
  BY DEF Plain
<1> HIDE DEF no, r
<1> QED
  BY <1>1, <1>2, RequestIsTyped

\* A click: the backend, the copies and the polling are as they were, and what is
\* asked for is about a chat there is.
LEMMA ClickKeeps ==
  ASSUME ChatInv, UNCHANGED <<kept, chats, pollers, newest, overtaken>>,
         askSteps' \in Nat, listed' \subseteq {i \in ChatIds : Exists(i)}, warned' = warned,
         repo' \in NoneOr(Repos), dirtyRepo' \in {"none", dirtyRepo},
         chatReqs \subseteq chatReqs',
         \A r \in chatReqs' \ chatReqs :
           r \in AskRequests /\ r.got = NotAnswered /\ RequestMakesSense(r),
         \/ activeId' \in {0, activeId}
         \/ activeId' \in ChatIds /\ Exists(activeId') /\ \E r \in chatReqs' : Follows(r, activeId', -2)
  PROVE  ChatInv'
<1>1. activeId' \in ChatIds \cup {0} /\ (activeId' # 0 => Exists(activeId'))
  BY DEF ChatInv, ChatTypes, ChatsExist, ZeroOr, NoneOr
<1>2. ChatTypes'
  BY <1>1 DEF ChatInv, ChatTypes, ZeroOr, NoneOr
<1>3. ChatsExist'
  BY <1>1, <1>2 DEF ChatInv, ChatsExist, Exists, RequestMakesSense, ChatTypes
<1>4. NobodyIsAhead'
  <2>1. ASSUME NEW i \in ChatIds, NEW r \in chatReqs', r.id = i
        PROVE  NotAhead(kept[i], r.got)
    <3>1. kept[i].ver \in Int /\ kept[i].ver >= -1
      BY DEF ChatInv, ChatTypes, ChatsExist, Copies
    <3> QED
      BY <2>1, <3>1, Waits DEF NotAhead, NobodyIsAhead, ChatInv
  <2> QED
    BY <2>1 DEF NobodyIsAhead, NotAhead, ChatInv
<1>5. \A i \in ChatIds, v \in Int : Followed(chatReqs, i, v) => Followed(chatReqs', i, v)
  BY DEF Followed, Follows
<1>6. ASSUME NEW i \in ChatIds
      PROVE  RestIsCorrected(i)' /\ ShownIsFollowed(i)'
  <2>1. RestIsCorrected(i) /\ ShownIsFollowed(i)
    BY DEF ChatInv, FollowInv
  <2>2. chats[i].ver \in Int /\ \A t \in chatReqs : t.got.ver \in Int
    BY DEF ChatInv, ChatTypes, Copies, AskRequests
  <2>3. RestIsCorrected(i)'
    BY <2>1, <2>2, <1>5, Waits DEF RestIsCorrected, Running
  <2>4. ShownIsFollowed(i)'
    <3>1. CASE activeId' = i /\ activeId # i
      <4>0. 0 # i
        BY AssistantAssumption
      <4>1. \E r \in chatReqs' : Follows(r, i, -2)
        BY <3>1, <4>0
      <4>2. Followed(chatReqs', i, -2)
        BY <4>1 DEF Followed, Follows
      <4> QED
        BY <4>2 DEF ShownIsFollowed
    <3>2. CASE activeId' # i
      BY <3>2 DEF ShownIsFollowed
    <3>3. CASE activeId' = i /\ activeId = i
      BY <2>1, <3>3, <1>5 DEF ShownIsFollowed, Running
    <3> QED
      BY <3>1, <3>2, <3>3
  <2> QED
    BY <2>3, <2>4
<1> QED
  BY <1>2, <1>3, <1>4, <1>6 DEF ChatInv, FollowInv

\* The history, whenever it is loaded, lists chats there are.
LEMMA ListedExist == ListLoaded \subseteq {i \in ChatIds : Exists(i)}
BY DEF ListLoaded, Exists

\* A click that asks for nothing.
LEMMA QuietClickKeeps ==
  ASSUME ChatInv, UNCHANGED <<kept, chats, pollers, newest, overtaken, warned, chatReqs>>,
         askSteps' \in {askSteps, askSteps + 1}, listed' \in {listed, ListLoaded},
         repo' \in {repo} \cup NoneOr(Repos), dirtyRepo' \in {"none", dirtyRepo},
         activeId' \in {0, activeId}
  PROVE  ChatInv'
<1>1. askSteps' \in Nat /\ listed' \subseteq {i \in ChatIds : Exists(i)} /\ repo' \in NoneOr(Repos)
  BY ListedExist DEF ChatInv, ChatTypes, ChatsExist
<1> QED
  BY <1>1, ClickKeeps

\* A click that asks for one thing.
LEMMA AskingClickKeeps ==
  ASSUME ChatInv, UNCHANGED <<kept, chats, pollers, newest, overtaken, warned, listed, activeId, repo>>,
         dirtyRepo' \in {"none", dirtyRepo}, askSteps' = askSteps + 1,
         NEW op \in AskOps, NEW i \in ZeroOr(ChatIds), NEW then \in Thens,
         NEW r \in NoneOr(Repos), NEW force \in BOOLEAN,
         chatReqs' = chatReqs \cup {Req(op, i, then, r, force)},
         op # "tick", op = "create" => i = 0 /\ (force => r \in warned),
         op # "create" => i \in ChatIds /\ Exists(i),
         op = "send" => then = "poll"
  PROVE  ChatInv'
<1> DEFINE q == Req(op, i, then, r, force)
<1>2. /\ q \in AskRequests /\ q.op = op /\ q.id = i /\ q.then = then /\ q.repo = r
      /\ q.force = force /\ q.got = NotAnswered /\ q.since = -1
  BY RequestIsTyped DEF ChatInv
<1>3. chatReqs' = chatReqs \cup {q}
  OBVIOUS
<1> HIDE DEF q
<1>4. RequestMakesSense(q)
  BY <1>2, Waits DEF RequestMakesSense
<1>5. askSteps' \in Nat /\ repo' \in NoneOr(Repos) /\ listed' \subseteq {j \in ChatIds : Exists(j)}
  BY DEF ChatInv, ChatTypes, ChatsExist
<1>6. \A p \in chatReqs' \ chatReqs : p \in AskRequests /\ p.got = NotAnswered /\ RequestMakesSense(p)
  BY <1>2, <1>3, <1>4
<1>7. chatReqs \subseteq chatReqs' /\ activeId' \in {0, activeId} /\ warned' = warned
  BY <1>3
<1> QED
  BY <1>5, <1>6, <1>7, ClickKeeps

LEMMA PlainClickKeeps ==
  ASSUME ChatInv, UNCHANGED <<kept, chats, pollers, newest, overtaken, warned, listed, activeId, repo>>,
         dirtyRepo' \in {"none", dirtyRepo}, askSteps' = askSteps + 1,
         NEW op \in AskOps, NEW i \in ZeroOr(ChatIds), NEW then \in Thens,
         chatReqs' = chatReqs \cup {Plain(op, i, then)},
         op # "tick", op = "create" => i = 0,
         op # "create" => i \in ChatIds /\ Exists(i),
         op = "send" => then = "poll"
  PROVE  ChatInv'
<1> DEFINE no == FALSE
           r == "none"
<1>1. no \in BOOLEAN /\ (no => r \in warned) /\ r \in NoneOr(Repos)
  BY DEF NoneOr
<1>2. chatReqs' = chatReqs \cup {Req(op, i, then, r, no)}
  BY DEF Plain
<1> HIDE DEF no, r
<1> QED
  BY <1>1, <1>2, AskingClickKeeps

\* What the user does with the panel, the chooser, the history and the proposal.
ChatClicks ==
  \/ OpenPanel \/ OpenFix \/ OpenDraft \/ \E b \in BOOLEAN : AskNow(b)
  \/ SheetToPanel \/ ClosePanel \/ \E v \in {"chat", "history", "review"} : SetView(v)
  \/ NewChat \/ Send
  \/ ChooseFix \/ CancelFix \/ \E b \in BOOLEAN : StartFix(b)
  \/ \E i \in ChatIds : Select(i) \/ \E op \in {"rename", "remove"} : EditHistory(op, i)
  \/ Stop \/ AskConfirm \/ \E a \in {"dry-run", "apply", "reject"} : ProposalAction(a)

LEMMA ClicksKeep ==
  ASSUME ChatInv, ChatClicks
  PROVE  ChatInv'
<1> USE DEF ChatClick, StoreUntouched, FixUntouched
<1>0. /\ 0 \notin ChatIds /\ 0 \in ZeroOr(ChatIds) /\ \A i \in ChatIds : i \in ZeroOr(ChatIds)
      /\ "none" \in NoneOr(Repos) /\ \A r \in Repos : r \in NoneOr(Repos)
      /\ "create" \in AskOps /\ "get" \in AskOps /\ "send" \in AskOps /\ "rename" \in AskOps /\ "remove" \in AskOps
      /\ "cancel" \in AskOps /\ "dry-run" \in AskOps /\ "apply" \in AskOps /\ "reject" \in AskOps
      /\ "ask" \in Thens /\ "fix" \in Thens /\ "poll" \in Thens /\ "pollIfRunning" \in Thens
      /\ "list" \in Thens /\ "none" \in Thens /\ "refresh" \in Thens
      /\ TRUE \in BOOLEAN /\ FALSE \in BOOLEAN
  BY AssistantAssumption DEF AskOps, Edits, Thens, ZeroOr, NoneOr
<1>1. CASE \/ OpenPanel \/ OpenDraft \/ SheetToPanel \/ ClosePanel \/ NewChat \/ CancelFix \/ AskConfirm
           \/ \E v \in {"chat", "history", "review"} : SetView(v)
  BY <1>1, QuietClickKeeps DEF OpenPanel, OpenDraft, SheetToPanel, ClosePanel, NewChat, CancelFix, AskConfirm, SetView
<1>2. CASE OpenFix \/ ChooseFix
  BY <1>0, <1>2, QuietClickKeeps DEF OpenFix, ChooseFix, NoneOr
<1>3. ASSUME NEW b \in BOOLEAN, AskNow(b)
      PROVE  ChatInv'
  BY <1>3, <1>0, PlainClickKeeps DEF AskNow, SendCreate, Plain
<1>4. CASE Send
  <2>1. CASE activeId = 0
    BY <1>4, <2>1, <1>0, PlainClickKeeps DEF Send, SendCreate, Plain
  <2>2. CASE activeId # 0
    <3>1. activeId \in ChatIds /\ Exists(activeId)
      BY <2>2 DEF ChatInv, ChatTypes, ChatsExist, ZeroOr, NoneOr
    <3>2. chatReqs' = chatReqs \cup {Plain("send", activeId, "poll")}
      BY <1>4, <2>2 DEF Send, Plain
    <3>3. /\ UNCHANGED <<kept, chats, pollers, newest, overtaken, warned, listed, activeId, repo, dirtyRepo>>
          /\ askSteps' = askSteps + 1
      BY <1>4, <2>2 DEF Send, Plain
    <3> QED
      BY <3>1, <3>2, <3>3, <1>0, PlainClickKeeps
  <2> QED
    BY <2>1, <2>2
<1>5. ASSUME NEW force \in BOOLEAN, StartFix(force)
      PROVE  ChatInv'
  <2> DEFINE r == IF fixMode = "code" THEN repo ELSE "none"
  <2>1. r \in NoneOr(Repos)
    BY DEF ChatInv, ChatTypes, ZeroOr, NoneOr
  <2>2. force => r \in warned
    BY <1>5 DEF StartFix, DirtyShown, ChatInv, ChatsExist
  <2>3. /\ UNCHANGED <<kept, chats, pollers, newest, overtaken, warned, listed, activeId, repo>>
        /\ dirtyRepo' = "none" /\ askSteps' = askSteps + 1
        /\ chatReqs' = chatReqs \cup {Req("create", 0, "fix", r, force)}
    BY <1>5 DEF StartFix, SendCreate
  <2> HIDE DEF r
  <2> QED
    BY <2>1, <2>2, <2>3, <1>0, AskingClickKeeps
<1>6. ASSUME NEW i \in ChatIds, Select(i)
      PROVE  ChatInv'
  <2>0. ChatTypes /\ "get" # "tick" /\ i \in ZeroOr(ChatIds)
    BY <1>0 DEF ChatInv
  <2> DEFINE q == Plain("get", i, "pollIfRunning")
  <2>1. /\ q \in AskRequests /\ q.op = "get" /\ q.id = i /\ q.then = "pollIfRunning"
        /\ q.got = NotAnswered /\ q.since = -1
    BY <2>0, <1>0, PlainIsTyped
  <2>2. /\ UNCHANGED <<kept, chats, pollers, newest, overtaken, warned, listed, repo, dirtyRepo>>
        /\ askSteps' = askSteps + 1 /\ activeId' = i /\ i \in listed /\ chatReqs' = chatReqs \cup {q}
    BY <1>6 DEF Select, Plain
  <2> HIDE DEF q
  <2>3. Exists(i) /\ listed' \subseteq {j \in ChatIds : Exists(j)} /\ askSteps' \in Nat /\ repo' \in NoneOr(Repos)
    BY <2>2 DEF ChatInv, ChatTypes, ChatsExist
  <2>4. RequestMakesSense(q)
    BY <2>1, <2>3, Waits DEF RequestMakesSense
  <2>5. Follows(q, i, -2)
    BY <2>1 DEF Follows
  <2>6. /\ \A p \in chatReqs' \ chatReqs : p \in AskRequests /\ p.got = NotAnswered /\ RequestMakesSense(p)
        /\ chatReqs \subseteq chatReqs' /\ \E p \in chatReqs' : Follows(p, activeId', -2)
        /\ activeId' \in ChatIds /\ Exists(activeId') /\ warned' = warned /\ dirtyRepo' \in {"none", dirtyRepo}
    BY <2>1, <2>2, <2>3, <2>4, <2>5
  <2> QED
    BY <2>2, <2>3, <2>6, ClickKeeps
<1>7. ASSUME NEW i \in ChatIds, NEW op \in {"rename", "remove"}, EditHistory(op, i)
      PROVE  ChatInv'
  <2>1. Exists(i)
    BY <1>7 DEF EditHistory, ChatInv, ChatsExist
  <2>2. /\ UNCHANGED <<kept, chats, pollers, newest, overtaken, warned, listed, activeId, repo, dirtyRepo>>
        /\ askSteps' = askSteps + 1 /\ chatReqs' = chatReqs \cup {Plain(op, i, "list")}
    BY <1>7 DEF EditHistory, Plain
  <2> QED
    BY <2>1, <2>2, <1>0, PlainClickKeeps
<1>8. CASE Stop
  <2>1. activeId \in ChatIds /\ Exists(activeId)
    BY <1>8, Waits DEF Stop, ChatShown, Copy, ChatInv, ChatTypes, ChatsExist, ZeroOr, NoneOr
  <2>2. /\ UNCHANGED <<kept, chats, pollers, newest, overtaken, warned, listed, activeId, repo, dirtyRepo>>
        /\ askSteps' = askSteps + 1 /\ chatReqs' = chatReqs \cup {Plain("cancel", activeId, "none")}
    BY <1>8 DEF Stop, Plain
  <2> QED
    BY <2>1, <2>2, <1>0, PlainClickKeeps
<1>9. ASSUME NEW a \in {"dry-run", "apply", "reject"}, ProposalAction(a)
      PROVE  ChatInv'
  <2>1. activeId \in ChatIds /\ Exists(activeId)
    BY <1>9, Waits DEF ProposalAction, CardShown, ChatShown, Copy, ChatInv, ChatTypes, ChatsExist, ZeroOr, NoneOr
  <2>2. /\ UNCHANGED <<kept, chats, pollers, newest, overtaken, warned, listed, activeId, repo, dirtyRepo>>
        /\ askSteps' = askSteps + 1 /\ chatReqs' = chatReqs \cup {Plain(a, activeId, "refresh")}
    BY <1>9 DEF ProposalAction, Plain
  <2> QED
    BY <2>1, <2>2, <1>0, PlainClickKeeps
<1> QED
  BY <1>1, <1>2, <1>3, <1>4, <1>5, <1>6, <1>7, <1>8, <1>9 DEF ChatClicks

\* One chat: what the invariant says of it, and what a step elsewhere leaves of it.
About(i) == {r \in chatReqs : r.id = i}
ChatHolds(i) ==
  /\ kept[i].st \in {"none", "running", "idle", "gone"}
  /\ IF Exists(i) THEN kept[i].ver >= 0 ELSE kept[i].ver = -1
  /\ chats[i] # NoCopy \/ i \in listed \/ i = activeId \/ pollers[i] # "none" => Exists(i)
  /\ NotAhead(kept[i], chats[i]) /\ \A r \in About(i) : NotAhead(kept[i], r.got)
  /\ RestIsCorrected(i) /\ ShownIsFollowed(i)
Elsewhere(j) ==
  /\ kept'[j] = kept[j] /\ chats'[j] = chats[j] /\ newest'[j] = newest[j] /\ pollers'[j] = pollers[j]
  /\ j \in overtaken' <=> j \in overtaken
  /\ j \in listed' => Exists(j)
  /\ j = activeId' => j = activeId
  /\ About(j)' = About(j)

LEMMA OfEachChat ==
  ASSUME ChatTypes
  PROVE  ChatInv <=> /\ \A i \in ChatIds : ChatHolds(i)
                     /\ \A r \in chatReqs : RequestMakesSense(r)
                     /\ dirtyRepo # "none" => dirtyRepo \in warned
<1>1. listed \subseteq ChatIds /\ (activeId # 0 => activeId \in ChatIds) /\ 0 \notin ChatIds
  BY AssistantAssumption DEF ChatTypes, ZeroOr
<1>2. (\A i \in ChatIds : NotAhead(kept[i], chats[i]) /\ \A r \in About(i) : NotAhead(kept[i], r.got)) <=> NobodyIsAhead
  BY DEF About, NobodyIsAhead
<1>3. FollowInv <=> \A i \in ChatIds : RestIsCorrected(i) /\ ShownIsFollowed(i)
  BY DEF FollowInv
<1> QED
  BY <1>1, <1>2, <1>3 DEF ChatInv, ChatHolds, ChatsExist

LEMMA OfEachChatNext ==
  ASSUME ChatTypes'
  PROVE  ChatInv' <=> /\ \A i \in ChatIds : ChatHolds(i)'
                      /\ \A r \in chatReqs' : RequestMakesSense(r)'
                      /\ dirtyRepo' # "none" => dirtyRepo' \in warned'
<1>1. listed' \subseteq ChatIds /\ (activeId' # 0 => activeId' \in ChatIds) /\ 0 \notin ChatIds
  BY AssistantAssumption DEF ChatTypes, ZeroOr
<1>2. (\A i \in ChatIds : NotAhead(kept[i], chats[i])' /\ \A r \in About(i)' : NotAhead(kept'[i], r.got)) <=> NobodyIsAhead'
  BY DEF About, NobodyIsAhead, NotAhead
<1>3. FollowInv' <=> \A i \in ChatIds : RestIsCorrected(i)' /\ ShownIsFollowed(i)'
  BY DEF FollowInv
<1> QED
  BY <1>1, <1>2, <1>3 DEF ChatInv, ChatHolds, ChatsExist, NotAhead, Exists

LEMMA ElsewhereHolds ==
  ASSUME NEW j \in ChatIds, ChatHolds(j), Elsewhere(j)
  PROVE  ChatHolds(j)'
<1>1. \A v : Followed(chatReqs', j, v) <=> Followed(chatReqs, j, v)
  BY DEF Followed, Follows, Elsewhere, About
<1>2. Running(j)' <=> Running(j)
  BY DEF Running, Elsewhere
<1>3. Exists(j)' <=> Exists(j)
  BY DEF Exists, Elsewhere
<1>4. RestIsCorrected(j)'
  <2>1. RestIsCorrected(j)' <=>
          (Running(j)' => /\ chats'[j].st = "idle" => Followed(chatReqs', j, chats'[j].ver)
                          /\ \A t \in About(j)' : t.got.st = "idle" => t.got.ver < newest'[j] \/ Followed(chatReqs', j, t.got.ver))
    BY DEF RestIsCorrected, About
  <2>2. RestIsCorrected(j) <=>
          (Running(j) => /\ chats[j].st = "idle" => Followed(chatReqs, j, chats[j].ver)
                         /\ \A t \in About(j) : t.got.st = "idle" => t.got.ver < newest[j] \/ Followed(chatReqs, j, t.got.ver))
    BY DEF RestIsCorrected, About
  <2> QED
    BY <1>1, <1>2, <2>1, <2>2 DEF ChatHolds, Elsewhere
<1>5. ShownIsFollowed(j)'
  <2>1. (\E r \in chatReqs : r.id = j /\ r.op = "create") => \E r \in chatReqs' : r.id = j /\ r.op = "create"
    BY DEF About, Elsewhere
  <2> QED
    BY <1>1, <1>2, <2>1 DEF ShownIsFollowed, ChatHolds, Elsewhere
<1>6. NotAhead(kept[j], chats[j])' /\ \A r \in About(j)' : NotAhead(kept'[j], r.got)
  BY DEF NotAhead, ChatHolds, Elsewhere
<1> QED
  BY <1>3, <1>4, <1>5, <1>6 DEF ChatHolds, Elsewhere

\* What a request says stays so: chats are not forgotten, nor warnings.
LEMMA SenseStays ==
  ASSUME NEW r, RequestMakesSense(r), warned \subseteq warned',
         Exists(r.id) => Exists(r.id)', kept[r.id].st = "gone" => kept'[r.id].st = "gone"
  PROVE  RequestMakesSense(r)'
BY DEF RequestMakesSense

\* A step about one chat, or about none.
LEMMA StepKeeps ==
  ASSUME ChatInv, NEW i \in ZeroOr(ChatIds), ChatTypes', warned \subseteq warned',
         \A j \in ChatIds \ {i} : Elsewhere(j),
         i # 0 => /\ ChatHolds(i)' /\ (Exists(i) => Exists(i)')
                  /\ kept[i].st = "gone" => kept'[i].st = "gone",
         \A r \in chatReqs' \ chatReqs : RequestMakesSense(r)',
         dirtyRepo' # "none" => dirtyRepo' \in warned'
  PROVE  ChatInv'
<1>1. ASSUME NEW j \in ChatIds
      PROVE  ChatHolds(j)' /\ (Exists(j) => Exists(j)') /\ (kept[j].st = "gone" => kept'[j].st = "gone")
  <2>1. CASE j = i
    BY <2>1, AssistantAssumption
  <2>2. CASE j # i
    <3>1. ChatHolds(j) /\ Elsewhere(j)
      BY <2>2, OfEachChat DEF ChatInv
    <3> QED
      BY <3>1, ElsewhereHolds DEF Elsewhere, Exists
  <2> QED
    BY <2>1, <2>2
<1>2. ASSUME NEW r \in chatReqs
      PROVE  RequestMakesSense(r)'
  <2>1. RequestMakesSense(r) /\ r \in AskRequests
    BY DEF ChatInv, ChatsExist, ChatTypes
  <2>2. CASE r.id \in ChatIds
    BY <1>1, <2>1, <2>2, SenseStays
  <2>3. CASE r.id = 0
    BY <2>1, <2>3, AssistantAssumption DEF RequestMakesSense
  <2> QED
    BY <2>1, <2>2, <2>3 DEF AskRequests, ZeroOr
<1>3. \A r \in chatReqs' : RequestMakesSense(r)'
  BY <1>2
<1> QED
  BY <1>1, <1>3, OfEachChatNext

LEMMA AboutTheOthers ==
  ASSUME NEW j, NEW r, NEW X, r.id # j, \A x \in X : x.id # j, chatReqs' = (chatReqs \ {r}) \cup X
  PROVE  About(j)' = About(j)
BY DEF About

\* A request once it is served.
LEMMA ServedIsTyped ==
  ASSUME NEW r \in AskRequests, NEW c \in Copies
  PROVE  LET s == [r EXCEPT !.got = c]
         IN  /\ s \in AskRequests /\ s.id = r.id /\ s.op = r.op /\ s.then = r.then /\ s.since = r.since
             /\ s.repo = r.repo /\ s.force = r.force /\ s.got = c
BY DEF AskRequests

\* Versions are numbers.
LEMMA VersionsAreNumbers ==
  ASSUME ChatTypes
  PROVE  /\ \A i \in ChatIds : /\ kept[i] \in Copies /\ kept[i].ver \in Int
                               /\ chats[i] \in Copies /\ chats[i].ver \in Int /\ newest[i] \in Int
         /\ \A r \in chatReqs : r \in AskRequests /\ r.got \in Copies /\ r.got.ver \in Int
BY DEF ChatTypes, Copies, AskRequests

\* An agent reports: nobody was ahead, and nobody is shown at rest for it.
LEMMA ReportKeeps ==
  ASSUME ChatInv, NEW i \in ChatIds, AgentReports(i)
  PROVE  ChatInv'
<1>1. PICK st \in {"running", "idle"}, p \in {kept[i].patch, "proposed"} :
        kept' = [kept EXCEPT ![i] = [st |-> st, ver |-> @.ver + 1, patch |-> p]]
  BY DEF AgentReports
<1>2. /\ kept[i].st = "running"
      /\ UNCHANGED <<askSteps, listed, pollers, chatReqs, warned, activeId, repo, dirtyRepo, chats, newest, overtaken>>
  BY DEF AgentReports, UiUntouched, CopiesUntouched
<1>3. ChatTypes /\ ChatHolds(i)
  BY OfEachChat DEF ChatInv
<1> DEFINE c == [st |-> st, ver |-> kept[i].ver + 1, patch |-> p]
<1>4. c \in Copies /\ c.st = st /\ c.ver = kept[i].ver + 1
  BY <1>3, VersionsAreNumbers DEF Copies
<1>5. kept' = [kept EXCEPT ![i] = c]
  BY <1>1
<1> HIDE DEF c
<1>6. ChatTypes' /\ kept'[i] = c /\ \A j \in ChatIds \ {i} : kept'[j] = kept[j]
  BY <1>2, <1>3, <1>4, <1>5 DEF ChatTypes
<1>7. \A j \in ChatIds \ {i} : Elsewhere(j)
  <2>1. ASSUME NEW j \in ChatIds \ {i}
        PROVE  Elsewhere(j)
    <3>1. About(j)' = About(j)
      BY <1>2 DEF About
    <3>2. j \in listed => Exists(j)
      BY DEF ChatInv, ChatsExist
    <3> QED
      BY <1>2, <1>6, <3>1, <3>2 DEF Elsewhere
  <2> QED
    BY <2>1
<1>8. ChatHolds(i)'
  <2>1. \A x \in Copies : NotAhead(kept[i], x) => NotAhead(c, x)
    BY <1>3, <1>4, VersionsAreNumbers DEF NotAhead, Copies
  <2>2. About(i)' = About(i) /\ \A r \in About(i) : r.got \in Copies
    BY <1>2, <1>3, VersionsAreNumbers DEF About
  <2>3. NotAhead(kept'[i], chats'[i]) /\ \A r \in About(i)' : NotAhead(kept'[i], r.got)
    BY <1>2, <1>3, <1>6, <2>1, <2>2, VersionsAreNumbers DEF ChatHolds
  <2>4. Running(i)' => Running(i)
    BY <1>2, <1>6 DEF Running
  <2>5. RestIsCorrected(i)' /\ ShownIsFollowed(i)'
    BY <1>2, <1>3, <2>4 DEF ChatHolds, RestIsCorrected, ShownIsFollowed
  <2>6. Exists(i)' /\ kept'[i].st \in {"none", "running", "idle", "gone"} /\ kept'[i].ver >= 0
    BY <1>2, <1>3, <1>4, <1>6, VersionsAreNumbers DEF Exists, ChatHolds
  <2> QED
    BY <2>3, <2>5, <2>6 DEF ChatHolds
<1>9. /\ i \in ZeroOr(ChatIds) /\ warned \subseteq warned' /\ (Exists(i) => Exists(i)')
      /\ kept[i].st = "gone" => kept'[i].st = "gone"
      /\ dirtyRepo' # "none" => dirtyRepo' \in warned'
      /\ \A r \in chatReqs' \ chatReqs : RequestMakesSense(r)'
  BY <1>2, <1>4, <1>6 DEF ChatHolds, ZeroOr, Exists, ChatInv, ChatsExist
<1> QED
  BY <1>6, <1>7, <1>8, <1>9, StepKeeps

\* A step about one chat leaves every other one alone.
LEMMA OtherIsElsewhere ==
  ASSUME ChatInv, NEW i \in ZeroOr(ChatIds), NEW r \in chatReqs, r.id \in {i, 0},
         NEW X \in SUBSET AskRequests, \A x \in X : x.id \in {i, 0}, chatReqs' = (chatReqs \ {r}) \cup X,
         NEW j \in ChatIds \ {i},
         kept'[j] = kept[j], chats'[j] = chats[j], newest'[j] = newest[j], pollers'[j] = pollers[j],
         j \in overtaken' <=> j \in overtaken,
         listed' \in {listed, ListLoaded}, activeId' \in {0, i, activeId}
  PROVE  Elsewhere(j)
<1>1. j # 0
  BY AssistantAssumption
<1>2. About(j)' = About(j)
  BY <1>1, AboutTheOthers
<1>3. j \in listed' => Exists(j)
  BY ListedExist DEF ChatInv, ChatsExist
<1> QED
  BY <1>1, <1>2, <1>3 DEF Elsewhere

LEMMA OthersAreElsewhere ==
  ASSUME ChatInv, NEW i \in ZeroOr(ChatIds), NEW r \in chatReqs, r.id \in {i, 0},
         NEW X \in SUBSET AskRequests, \A x \in X : x.id \in {i, 0}, chatReqs' = (chatReqs \ {r}) \cup X,
         \A j \in ChatIds \ {i} : /\ kept'[j] = kept[j] /\ chats'[j] = chats[j]
                                  /\ newest'[j] = newest[j] /\ pollers'[j] = pollers[j]
                                  /\ j \in overtaken' <=> j \in overtaken,
         listed' \in {listed, ListLoaded}, activeId' \in {0, i, activeId}
  PROVE  \A j \in ChatIds \ {i} : Elsewhere(j)
<1>1. ASSUME NEW j \in ChatIds \ {i}
      PROVE  Elsewhere(j)
  <2>1. /\ kept'[j] = kept[j] /\ chats'[j] = chats[j] /\ newest'[j] = newest[j] /\ pollers'[j] = pollers[j]
        /\ j \in overtaken' <=> j \in overtaken
    OBVIOUS
  <2> QED
    BY <2>1, OtherIsElsewhere
<1> QED
  BY <1>1

\* Whoever is not the request that ends goes on following.
LEMMA OthersGoOn ==
  ASSUME NEW S, NEW r, NEW X, NEW i, NEW v, Followed(S, i, v), ~Follows(r, i, v)
  PROVE  Followed((S \ {r}) \cup X, i, v)
BY DEF Followed

\* A chat that nobody asks to follow any less, and of which nothing else is shown.
LEMMA StillFollowed ==
  ASSUME ChatInv, NEW i \in ChatIds, NEW r \in chatReqs, NEW X \in SUBSET AskRequests, chatReqs' = (chatReqs \ {r}) \cup X,
         chats'[i] = chats[i], newest'[i] = newest[i],
         pollers[i] # "none" => pollers'[i] # "none", activeId' = i => activeId = i,
         Running(i)' => Running(i),
         Running(i)' => /\ r.id = i => r.op # "create"
                        /\ \A v \in Int : Follows(r, i, v) /\ v < kept[i].ver => Followed(X, i, v)
                        /\ \A x \in X : x.id = i => x.got.st # "idle"
  PROVE  RestIsCorrected(i)' /\ ShownIsFollowed(i)'
<1>1. ChatHolds(i) /\ ChatTypes
  BY OfEachChat DEF ChatInv
<1>0. kept[i].ver \in Int /\ chats[i].ver \in Int /\ \A t \in chatReqs : t.got.ver \in Int
  BY <1>1, VersionsAreNumbers
<1>2. ASSUME Running(i)', NEW v \in Int, v < kept[i].ver, Followed(chatReqs, i, v)
      PROVE  Followed(chatReqs', i, v)
  <2>1. CASE Follows(r, i, v)
    <3>1. Followed(X, i, v)
      BY <1>2, <2>1
    <3> QED
      BY <3>1 DEF Followed
  <2>2. CASE ~Follows(r, i, v)
    BY <1>2, <2>2, OthersGoOn
  <2> QED
    BY <2>1, <2>2
<1>3. RestIsCorrected(i)'
  <2> SUFFICES ASSUME Running(i)'
               PROVE  /\ chats'[i].st = "idle" => Followed(chatReqs', i, chats'[i].ver)
                      /\ \A t \in chatReqs' : t.id = i /\ t.got.st = "idle" =>
                           t.got.ver < newest'[i] \/ Followed(chatReqs', i, t.got.ver)
    BY DEF RestIsCorrected
  <2>1. /\ chats[i].st = "idle" => Followed(chatReqs, i, chats[i].ver)
        /\ \A t \in chatReqs : t.id = i /\ t.got.st = "idle" =>
             t.got.ver < newest[i] \/ Followed(chatReqs, i, t.got.ver)
    BY <1>1 DEF ChatHolds, RestIsCorrected
  <2>2. Running(i)
    OBVIOUS
  <2>3. /\ chats[i].st = "idle" => chats[i].ver < kept[i].ver
        /\ \A t \in chatReqs : t.id = i /\ t.got.st = "idle" => t.got.ver < kept[i].ver
    BY <1>1, <2>2 DEF ChatHolds, NotAhead, About, Running
  <2> QED
    BY <1>0, <1>2, <2>1, <2>2, <2>3
<1>4. ShownIsFollowed(i)'
  <2> SUFFICES ASSUME i = activeId', Running(i)'
               PROVE  pollers'[i] # "none" \/ (\E v \in Int : Followed(chatReqs', i, v))
                        \/ \E q \in chatReqs' : q.id = i /\ q.op = "create"
    BY DEF ShownIsFollowed
  <2>1. pollers[i] # "none" \/ (\E v \in Int : Followed(chatReqs, i, v))
          \/ \E q \in chatReqs : q.id = i /\ q.op = "create"
    BY <1>1 DEF ChatHolds, ShownIsFollowed
  <2>2. ASSUME NEW v \in Int, Followed(chatReqs, i, v)
        PROVE  \E w \in Int : Followed(chatReqs', i, w)
    <3>1. PICK w \in Int : w =< v /\ w < kept[i].ver
      <4>1. CASE v < kept[i].ver
        BY <4>1
      <4>2. CASE kept[i].ver =< v
        <5>1. kept[i].ver - 1 \in Int /\ kept[i].ver - 1 =< v /\ kept[i].ver - 1 < kept[i].ver
          BY <1>0, <4>2
        <5> QED
          BY <5>1
      <4> QED
        BY <1>0, <4>1, <4>2
    <3>2. Followed(chatReqs, i, w)
      BY <1>0, <2>2, <3>1 DEF Followed, Follows
    <3> QED
      BY <1>2, <3>1, <3>2
  <2> QED
    BY <1>2, <2>1, <2>2
<1> QED
  BY <1>3, <1>4

\* A request takes its place among those under way.
LEMMA RequestsAreTyped ==
  ASSUME ChatTypes, NEW r, NEW X \in SUBSET AskRequests, chatReqs' = (chatReqs \ {r}) \cup X
  PROVE  chatReqs' \subseteq AskRequests
BY DEF ChatTypes

\* The store and the panel, while the backend serves.
LEMMA ServeTouches ==
  ASSUME NEW r, Serve(r)
  PROVE  /\ UNCHANGED <<askSteps, listed, pollers, warned, activeId, repo, dirtyRepo, chats, newest, overtaken>>
         /\ r.got = NotAnswered
BY DEF Serve, UiUntouched, CopiesUntouched

LEMMA ReadIsServed ==
  ASSUME ChatInv, NEW r \in chatReqs, Serve(r), r.op \in {"get", "tick"}
  PROVE  ChatInv'
<1> DEFINE i == r.id
<1>1. ChatTypes /\ r \in AskRequests /\ RequestMakesSense(r)
  BY DEF ChatInv, ChatTypes, ChatsExist
<1>2. i \in ChatIds /\ Exists(i) /\ ChatHolds(i) /\ i \in ZeroOr(ChatIds)
  BY <1>1, OfEachChat DEF RequestMakesSense, ChatInv, ZeroOr
<1>3. PICK c \in Copies : /\ c = IF kept[i].ver = r.since THEN Unchanged ELSE kept[i]
                          /\ kept' = kept /\ chatReqs' = (chatReqs \ {r}) \cup {[r EXCEPT !.got = c]}
  <2> DEFINE c == IF kept[i].ver = r.since THEN Unchanged ELSE kept[i]
  <2>1. c \in Copies
    BY <1>1, <1>2, VersionsAreNumbers DEF Unchanged, Copies
  <2>2. kept' = kept /\ chatReqs' = (chatReqs \ {r}) \cup {[r EXCEPT !.got = c]}
    BY DEF Serve, Served
  <2> QED
    BY <2>1, <2>2
<1>5. c = kept[i] \/ (c.st = "unchanged" /\ c.ver = -1 /\ r.op = "tick")
  <2>1. kept[i].ver >= 0
    BY <1>2 DEF ChatHolds
  <2> QED
    BY <1>1, <1>3, <2>1 DEF Unchanged, RequestMakesSense
<1> DEFINE s == [r EXCEPT !.got = c]
<1>6. /\ s \in AskRequests /\ s.id = i /\ s.op = r.op /\ s.then = r.then /\ s.since = r.since
      /\ s.repo = r.repo /\ s.force = r.force /\ s.got = c /\ chatReqs' = (chatReqs \ {r}) \cup {s}
  BY <1>1, <1>3, ServedIsTyped
<1> HIDE DEF s
<1>7. ChatTypes'
  BY <1>1, <1>3, <1>6, RequestsAreTyped, ServeTouches DEF ChatTypes
<1>8. \A j \in ChatIds \ {i} : Elsewhere(j)
  <2> DEFINE X == {s}
  <2>1. /\ chatReqs' = (chatReqs \ {r}) \cup X /\ \A x \in X : x.id \in {i, 0}
        /\ X \in SUBSET AskRequests /\ r.id \in {i, 0}
    BY <1>3, <1>6
  <2>2. UNCHANGED <<kept, chats, newest, pollers, overtaken, listed, activeId>>
    BY <1>3, ServeTouches
  <2> HIDE DEF X
  <2> QED
    BY <1>2, <2>1, <2>2, OthersAreElsewhere
<1>9. kept[i].ver \in Int
  BY <1>1, <1>2, VersionsAreNumbers
<1>10. RestIsCorrected(i)' /\ ShownIsFollowed(i)'
  <2>1. Running(i)' => Running(i)
    BY <1>3, ServeTouches DEF Running
  <2>2. ASSUME Running(i)', NEW v \in Int, Follows(r, i, v), v < kept[i].ver
        PROVE  Followed({s}, i, v)
    <3>1. r.op = "get" /\ c = kept[i] /\ kept[i].st = "running"
      BY <1>5, <2>1, <2>2 DEF Follows, Running
    <3> QED
      BY <1>6, <2>2, <3>1 DEF Follows, Followed
  <2>3. Running(i)' => c.st # "idle"
    BY <1>5, <2>1 DEF Running
  <2> DEFINE X == {s}
  <2>4. /\ chatReqs' = (chatReqs \ {r}) \cup X /\ X \in SUBSET AskRequests
        /\ Running(i)' => /\ r.id = i => r.op # "create"
                          /\ \A v \in Int : Follows(r, i, v) /\ v < kept[i].ver => Followed(X, i, v)
                          /\ \A x \in X : x.id = i => x.got.st # "idle"
    BY <1>6, <2>2, <2>3
  <2>5. UNCHANGED <<chats, newest, pollers, activeId>>
    BY ServeTouches
  <2> HIDE DEF X
  <2> QED
    BY <1>2, <2>1, <2>4, <2>5, StillFollowed
<1>11. NotAhead(kept[i], c)
  BY <1>2, <1>5, <1>9 DEF NotAhead, ChatHolds
<1>12. ChatHolds(i)'
  <2>1. \A q \in About(i)' : NotAhead(kept'[i], q.got)
    BY <1>2, <1>3, <1>6, <1>11 DEF ChatHolds, About
  <2> QED
    BY <1>2, <1>3, <1>10, <2>1, ServeTouches DEF ChatHolds, Exists
<1>13. RequestMakesSense(s)'
  <2>1. kept'[s.id] = kept[i] /\ s.id \in ChatIds /\ s.op \in {"get", "tick"} /\ s.since = r.since
    BY <1>2, <1>3, <1>6
  <2>2. s.got.st = "gone" => kept'[s.id].st = "gone"
    BY <1>5, <1>6, <2>1
  <2>3. r.op = "get" => r.since = -1
    BY <1>1 DEF RequestMakesSense
  <2>4. Exists(s.id)'
    BY <1>2, <2>1 DEF Exists
  <2> QED
    BY <1>6, <2>1, <2>2, <2>3, <2>4 DEF RequestMakesSense
<1>14. /\ warned' = warned /\ (Exists(i) => Exists(i)') /\ kept'[i] = kept[i]
       /\ dirtyRepo' # "none" => dirtyRepo' \in warned'
       /\ \A q \in chatReqs' \ chatReqs : RequestMakesSense(q)'
  BY <1>3, <1>6, <1>13, ServeTouches DEF Exists, ChatInv, ChatsExist
<1> QED
  BY <1>2, <1>7, <1>8, <1>12, <1>14, StepKeeps

\* A chat that someone follows whatever it shows.
LEMMA WellFollowed ==
  ASSUME NEW i \in ChatIds, NEW q \in chatReqs', \A v \in Int : Follows(q, i, v), ChatTypes'
  PROVE  RestIsCorrected(i)' /\ ShownIsFollowed(i)'
<1>1. \A v \in Int : Followed(chatReqs', i, v)
  BY DEF Followed
<1>2. chats'[i].ver \in Int /\ \A t \in chatReqs' : t.got.ver \in Int
  BY DEF ChatTypes, Copies, AskRequests
<1>3. RestIsCorrected(i)'
  BY <1>1, <1>2 DEF RestIsCorrected
<1>4. ShownIsFollowed(i)'
  <2>1. 0 \in Int
    OBVIOUS
  <2> QED
    BY <1>1, <2>1 DEF ShownIsFollowed
<1> QED
  BY <1>3, <1>4

\* What a write makes of a chat.
LEMMA WrittenChat ==
  ASSUME ChatInv, NEW r \in chatReqs, Serve(r), r.op \in Edits
  PROVE  /\ r.id \in ChatIds /\ kept[r.id].st \in {"idle", "running"}
         /\ \E x \in Copies :
              /\ kept' = [kept EXCEPT ![r.id] = x] /\ chatReqs' = (chatReqs \ {r}) \cup {[r EXCEPT !.got = x]}
              /\ x.st \in {"running", "idle", "gone"} /\ x.ver >= kept[r.id].ver /\ x # NotAnswered
              /\ x.st = "running" => x.ver > kept[r.id].ver
              /\ x.st = "running" => kept[r.id].st = "running" \/ r.op = "send"
              /\ r.op = "send" => x.st = "running"
              /\ x.st = "gone" <=> r.op = "remove"
<1> DEFINE c == kept[r.id]
<1>1. ChatTypes /\ r.id \in ChatIds
  BY DEF ChatInv, ChatsExist, RequestMakesSense, Edits
<1>2. c \in Copies /\ c.ver \in Int
  BY <1>1, VersionsAreNumbers
<1>3. PICK x : /\ c.st \in {"idle", "running"} /\ (r.op = "send" => c.st = "idle")
               /\ kept' = [kept EXCEPT ![r.id] = x] /\ chatReqs' = (chatReqs \ {r}) \cup {[r EXCEPT !.got = x]}
               /\ x \in CASE r.op = "send" -> {Moved(c, "running", c.patch)}
                          [] r.op = "rename" -> {Moved(c, c.st, c.patch)}
                          [] r.op = "cancel" -> {IF c.st = "running" THEN Moved(c, "idle", c.patch) ELSE c}
                          [] r.op = "remove" -> {[c EXCEPT !.st = "gone"]}
                          [] r.op = "dry-run" -> {Moved(c, c.st, p) : p \in {"dry-run-ok", "dry-run-failed"}}
                          [] r.op = "apply" -> {Moved(c, c.st, "applied")}
                          [] r.op = "reject" -> {Moved(c, c.st, "rejected")}
  <2>1. r.op \notin {"create", "get", "tick"}
    BY DEF Edits
  <2> QED
    BY <2>1 DEF Serve, Served, Edits
<1> HIDE DEF c
<1>4. ASSUME NEW st \in {"running", "idle"}, NEW p \in {c.patch, "dry-run-ok", "dry-run-failed", "applied", "rejected"}
      PROVE  Moved(c, st, p) \in Copies /\ Moved(c, st, p).st = st /\ Moved(c, st, p).ver = c.ver + 1
  BY <1>2 DEF Moved, Copies
<1>5. [c EXCEPT !.st = "gone"] \in Copies /\ [c EXCEPT !.st = "gone"].st = "gone" /\ [c EXCEPT !.st = "gone"].ver = c.ver
  BY <1>2 DEF Copies
<1> DEFINE Fits == /\ x \in Copies
                   /\ x.st \in {"running", "idle", "gone"} /\ x.ver >= c.ver
                   /\ x.st = "running" => x.ver > c.ver
                   /\ x.st = "running" => c.st = "running" \/ r.op = "send"
                   /\ r.op = "send" => x.st = "running"
                   /\ x.st = "gone" <=> r.op = "remove"
<1> SUFFICES Fits
  <2>1. Fits => x # NotAnswered
    BY Waits
  <2> QED
    BY <1>1, <1>3, <2>1 DEF c
<1>6. CASE r.op = "send"
  <2>1. x = Moved(c, "running", c.patch)
    BY <1>3, <1>6
  <2> QED
    BY <1>2, <1>4, <1>6, <2>1
<1>7. CASE r.op = "rename"
  <2>1. x = Moved(c, c.st, c.patch)
    BY <1>3, <1>7
  <2> QED
    BY <1>2, <1>3, <1>4, <1>7, <2>1
<1>8. CASE r.op = "cancel"
  <2>1. x = IF c.st = "running" THEN Moved(c, "idle", c.patch) ELSE c
    BY <1>3, <1>8
  <2> QED
    BY <1>2, <1>3, <1>4, <1>8, <2>1
<1>9. CASE r.op = "remove"
  <2>1. x = [c EXCEPT !.st = "gone"]
    BY <1>3, <1>9
  <2> QED
    BY <1>2, <1>5, <1>9, <2>1
<1>10. CASE r.op \in {"dry-run", "apply", "reject"}
  <2>1. PICK p \in {"dry-run-ok", "dry-run-failed", "applied", "rejected"} : x = Moved(c, c.st, p)
    BY <1>3, <1>10
  <2> QED
    BY <1>2, <1>3, <1>4, <1>10, <2>1
<1> QED
  BY <1>6, <1>7, <1>8, <1>9, <1>10 DEF Edits

LEMMA WriteIsServed ==
  ASSUME ChatInv, NEW r \in chatReqs, Serve(r), r.op \in Edits
  PROVE  ChatInv'
<1> DEFINE i == r.id
<1>1. ChatTypes /\ r \in AskRequests /\ RequestMakesSense(r)
  BY DEF ChatInv, ChatTypes, ChatsExist
<1>2. /\ i \in ChatIds /\ ChatHolds(i) /\ i \in ZeroOr(ChatIds) /\ kept[i].st \in {"idle", "running"}
      /\ r.op \notin {"create", "get", "tick"}
  BY OfEachChat, WrittenChat DEF ChatInv, ZeroOr, Edits
<1>3. PICK x \in Copies :
        /\ kept' = [kept EXCEPT ![i] = x] /\ chatReqs' = (chatReqs \ {r}) \cup {[r EXCEPT !.got = x]}
        /\ x.st \in {"running", "idle", "gone"} /\ x.ver >= kept[i].ver /\ x # NotAnswered
        /\ x.st = "running" => x.ver > kept[i].ver
        /\ x.st = "running" => kept[i].st = "running" \/ r.op = "send"
        /\ r.op = "send" => x.st = "running"
        /\ x.st = "gone" <=> r.op = "remove"
  BY WrittenChat
<1> DEFINE s == [r EXCEPT !.got = x]
           X == {s}
<1>4. /\ s \in AskRequests /\ s.id = i /\ s.op = r.op /\ s.then = r.then /\ s.since = r.since
      /\ s.repo = r.repo /\ s.force = r.force /\ s.got = x /\ s \in chatReqs'
      /\ chatReqs' = (chatReqs \ {r}) \cup X /\ X \in SUBSET AskRequests /\ \A q \in X : q = s
  BY <1>1, <1>3, ServedIsTyped
<1> HIDE DEF s, X
<1>5. kept'[i] = x /\ \A j \in ChatIds \ {i} : kept'[j] = kept[j]
  BY <1>1, <1>2, <1>3 DEF ChatTypes
<1>6. ChatTypes'
  <2>1. kept' \in [ChatIds -> Copies]
    BY <1>1, <1>3 DEF ChatTypes
  <2> QED
    BY <1>1, <1>4, <2>1, RequestsAreTyped, ServeTouches DEF ChatTypes
<1>7. \A j \in ChatIds \ {i} : Elsewhere(j)
  <2>1. UNCHANGED <<chats, newest, pollers, overtaken, listed, activeId>>
    BY ServeTouches
  <2>2. r.id \in {i, 0} /\ \A q \in X : q.id \in {i, 0}
    BY <1>4
  <2> QED
    BY <1>2, <1>4, <1>5, <2>1, <2>2, OthersAreElsewhere
<1>8. kept[i].ver \in Int /\ kept[i].ver >= 0 /\ x.ver \in Int /\ \A q \in About(i) : q.got.ver \in Int
  BY <1>1, <1>2, VersionsAreNumbers DEF ChatHolds, Exists, Copies, About
<1>9. RestIsCorrected(i)' /\ ShownIsFollowed(i)'
  <2>1. CASE r.op = "send"
    <3>1. \A v \in Int : Follows(s, i, v)
      BY <1>3, <1>4, <2>1 DEF Follows
    <3> QED
      BY <1>2, <1>4, <1>6, <3>1, WellFollowed
  <2>2. CASE r.op # "send"
    <3>1. Running(i)' => Running(i) /\ x.st = "running"
      BY <1>3, <1>5, <2>2, ServeTouches DEF Running
    <3>2. \A v \in Int : ~Follows(r, i, v)
      BY <1>2, <2>2 DEF Follows
    <3>3. Running(i)' => /\ r.id = i => r.op # "create"
                        /\ \A v \in Int : Follows(r, i, v) /\ v < kept[i].ver => Followed(X, i, v)
                        /\ \A q \in X : q.id = i => q.got.st # "idle"
      BY <1>2, <1>4, <3>1, <3>2
    <3>4. UNCHANGED <<chats, newest, pollers, activeId>>
      BY ServeTouches
    <3> QED
      BY <1>2, <1>4, <3>1, <3>3, <3>4, StillFollowed
  <2> QED
    BY <2>1, <2>2
<1>10. ChatHolds(i)'
  <2>1. \A c \in Copies : NotAhead(kept[i], c) => NotAhead(x, c)
    BY <1>3, <1>8 DEF NotAhead, Copies
  <2>2. NotAhead(x, x)
    BY <1>3, <1>8 DEF NotAhead
  <2>3. chats[i] \in Copies /\ \A q \in About(i) : q.got \in Copies
    BY <1>1, <1>2, VersionsAreNumbers DEF About
  <2>4. NotAhead(kept'[i], chats'[i])
    BY <1>2, <1>5, <2>1, <2>3, ServeTouches DEF ChatHolds
  <2>5. \A q \in About(i)' : NotAhead(kept'[i], q.got)
    BY <1>2, <1>4, <1>5, <2>1, <2>2, <2>3 DEF ChatHolds, About
  <2>6. Exists(i)' /\ kept'[i].st \in {"none", "running", "idle", "gone"} /\ kept'[i].ver >= 0
    BY <1>3, <1>5, <1>8 DEF Exists
  <2> QED
    BY <1>9, <2>4, <2>5, <2>6 DEF ChatHolds
<1>11. RequestMakesSense(s)'
  <2>1. Exists(i)'
    BY <1>10, <1>3, <1>5 DEF Exists
  <2>2. x.st = "gone" => kept'[i].st = "gone"
    BY <1>5
  <2> QED
    BY <1>1, <1>2, <1>3, <1>4, <2>1, <2>2 DEF RequestMakesSense
<1>12. /\ warned' = warned /\ Exists(i)' /\ kept[i].st # "gone"
       /\ dirtyRepo' # "none" => dirtyRepo' \in warned'
       /\ \A q \in chatReqs' \ chatReqs : RequestMakesSense(q)'
  <2>1. dirtyRepo # "none" => dirtyRepo \in warned
    BY DEF ChatInv, ChatsExist
  <2> QED
    BY <1>2, <1>3, <1>4, <1>5, <1>11, <2>1, ServeTouches DEF Exists
<1> QED
  BY <1>2, <1>6, <1>7, <1>10, <1>12, StepKeeps

\* A chat is created where there was none, or not at all.
LEMMA CreateIsServed ==
  ASSUME ChatInv, NEW r \in chatReqs, Serve(r), r.op = "create"
  PROVE  ChatInv'
<1>1. ChatTypes /\ r \in AskRequests /\ RequestMakesSense(r)
  BY DEF ChatInv, ChatTypes, ChatsExist
<1>2. r.id = 0 /\ r.got = NotAnswered /\ 0 \in ZeroOr(ChatIds) /\ 0 \notin ChatIds
  BY <1>1, ServeTouches, Waits, AssistantAssumption DEF RequestMakesSense, ZeroOr
<1>3. dirtyRepo # "none" => dirtyRepo \in warned
  BY DEF ChatInv, ChatsExist
<1>4. CASE r.repo \in DirtyRepos /\ ~r.force
  <2>1. PICK c \in Copies : /\ c.st = "dirty" /\ kept' = kept
                            /\ chatReqs' = (chatReqs \ {r}) \cup {[r EXCEPT !.got = c]}
    <3> DEFINE c == [st |-> "dirty", ver |-> 0, patch |-> "none"]
    <3>1. c \in Copies /\ c.st = "dirty"
      BY DEF Copies
    <3>2. kept' = kept /\ chatReqs' = (chatReqs \ {r}) \cup {[r EXCEPT !.got = c]}
      BY <1>4 DEF Serve, Served
    <3> QED
      BY <3>1, <3>2
  <2> DEFINE s == [r EXCEPT !.got = c]
             X == {s}
  <2>2. /\ s \in AskRequests /\ s.id = 0 /\ s.op = "create" /\ s.repo = r.repo /\ s.force = r.force /\ s.got = c
        /\ chatReqs' = (chatReqs \ {r}) \cup X /\ X \in SUBSET AskRequests /\ \A q \in X : q = s
    BY <1>1, <1>2, <2>1, ServedIsTyped
  <2> HIDE DEF s, X
  <2>3. ChatTypes'
    BY <1>1, <2>1, <2>2, RequestsAreTyped, ServeTouches DEF ChatTypes
  <2> DEFINE i == 0
  <2>4. i \in ZeroOr(ChatIds) /\ i = 0 /\ r.id \in {i, 0} /\ \A q \in X : q.id \in {i, 0}
    BY <1>2, <2>2
  <2>5. UNCHANGED <<kept, chats, newest, pollers, overtaken, listed, activeId, warned, dirtyRepo>>
    BY <2>1, ServeTouches
  <2>6. RequestMakesSense(s)'
    BY <1>1, <1>2, <2>1, <2>2, <2>5, Waits DEF RequestMakesSense
  <2> HIDE DEF i
  <2>7. \A j \in ChatIds \ {i} : Elsewhere(j)
    BY <2>2, <2>4, <2>5, OthersAreElsewhere
  <2>8. \A q \in chatReqs' \ chatReqs : RequestMakesSense(q)'
    BY <2>2, <2>6
  <2> QED
    BY <1>3, <2>3, <2>4, <2>5, <2>7, <2>8, StepKeeps
<1>5. CASE ~(r.repo \in DirtyRepos /\ ~r.force)
  <2>1. PICK i \in ChatIds, c \in Copies :
          /\ kept[i].st = "none" /\ c.st = "running" /\ c.ver = 0
          /\ kept' = [kept EXCEPT ![i] = c]
          /\ chatReqs' = (chatReqs \ {r}) \cup {[r EXCEPT !.got = kept'[i], !.id = i]}
    <3> DEFINE c == [st |-> "running", ver |-> 0, patch |-> "none"]
    <3>1. c \in Copies /\ c.st = "running" /\ c.ver = 0
      BY DEF Copies
    <3>2. \E i \in ChatIds :
          /\ kept[i].st = "none"
          /\ kept' = [kept EXCEPT ![i] = c]
          /\ chatReqs' = (chatReqs \ {r}) \cup {[r EXCEPT !.got = kept'[i], !.id = i]}
      BY <1>5 DEF Serve
    <3> HIDE DEF c
    <3> QED
      BY <3>1, <3>2
  <2>2. kept'[i] = c /\ (\A j \in ChatIds \ {i} : kept'[j] = kept[j]) /\ kept' \in [ChatIds -> Copies]
    BY <1>1, <2>1 DEF ChatTypes
  <2> DEFINE s == [r EXCEPT !.got = c, !.id = i]
             X == {s}
  <2>3. /\ s \in AskRequests /\ s.id = i /\ s.op = "create" /\ s.repo = r.repo /\ s.force = r.force /\ s.got = c
        /\ chatReqs' = (chatReqs \ {r}) \cup X /\ X \in SUBSET AskRequests /\ \A q \in X : q = s
    BY <1>1, <2>1, <2>2 DEF AskRequests, ZeroOr
  <2> HIDE DEF s, X
  <2>4. ChatTypes'
    BY <1>1, <2>2, <2>3, RequestsAreTyped, ServeTouches DEF ChatTypes
  <2>5. /\ UNCHANGED <<chats, newest, pollers, overtaken, listed, activeId, warned, dirtyRepo>>
        /\ i \in ZeroOr(ChatIds) /\ r.id \in {i, 0} /\ \A q \in X : q.id \in {i, 0}
    BY <1>2, <2>3, ServeTouches DEF ZeroOr
  <2>6. \A j \in ChatIds \ {i} : Elsewhere(j)
    BY <2>2, <2>3, <2>5, OthersAreElsewhere
  <2>7. ChatHolds(i)
    BY <1>1, OfEachChat DEF ChatInv
  <2>8. ~Exists(i) /\ chats[i] = NoCopy /\ i # activeId /\ i \notin listed /\ pollers[i] = "none"
    BY <2>1, <2>7 DEF ChatHolds, Exists
  <2>9. \A q \in chatReqs : q.id # i
    BY <2>1, <2>8, AssistantAssumption DEF ChatInv, ChatsExist, RequestMakesSense
  <2>10. \A q \in chatReqs' : q.id = i => q.got = c
    BY <2>3, <2>9
  <2>11. ChatHolds(i)'
    <3>1. RestIsCorrected(i)' /\ ShownIsFollowed(i)'
      BY <2>1, <2>5, <2>8, <2>10, Waits DEF RestIsCorrected, ShownIsFollowed
    <3>2. NotAhead(c, c) /\ NotAhead(c, NoCopy)
      BY <2>1, Waits DEF NotAhead
    <3> QED
      BY <2>1, <2>2, <2>5, <2>8, <2>10, <3>1, <3>2 DEF ChatHolds, Exists, About
  <2>12. RequestMakesSense(s)'
    BY <1>1, <2>1, <2>2, <2>3, <2>5, Waits DEF RequestMakesSense, Exists
  <2>13. (\A q \in chatReqs' \ chatReqs : RequestMakesSense(q)') /\ kept[i].st # "gone"
    BY <2>1, <2>3, <2>12
  <2> QED
    BY <1>3, <2>4, <2>5, <2>6, <2>8, <2>11, <2>13, StepKeeps
<1> QED
  BY <1>4, <1>5

LEMMA ServeKeeps ==
  ASSUME ChatInv, NEW r \in chatReqs, Serve(r)
  PROVE  ChatInv'
<1>1. r.op \in {"create", "get", "tick"} \cup Edits
  BY DEF ChatInv, ChatTypes, AskRequests, AskOps
<1> QED
  BY <1>1, ReadIsServed, WriteIsServed, CreateIsServed

\* Polling starts for one chat, and goes on for it.
LEMMA PollingStarts ==
  ASSUME ChatTypes, NEW i \in ChatIds
  PROVE  /\ Polled(pollers, i) \in [ChatIds -> {"none", "timer", "asking"}]
         /\ Polled(pollers, i)[i] # "none"
         /\ \A j \in ChatIds \ {i} : Polled(pollers, i)[j] = pollers[j]
BY DEF Polled, ChatTypes

\* An answer goes into the store: where it shows a run at rest, a later one is due.
LEMMA StoredIsCorrected ==
  ASSUME ChatInv, NEW r \in chatReqs, r.op \in {"create", "get", "tick"}, r.id \in ChatIds, r.got # NotAnswered,
         Stored(r.id, r.got), kept' = kept, chatReqs' = chatReqs \ {r}
  PROVE  /\ chats' \in [ChatIds -> Copies] /\ newest' \in [ChatIds -> Int]
         /\ chats'[r.id] = r.got
         /\ \A j \in ChatIds \ {r.id} : chats'[j] = chats[j] /\ newest'[j] = newest[j]
         /\ \A j \in ChatIds \ {r.id} : j \in overtaken' <=> j \in overtaken
         /\ RestIsCorrected(r.id)'
         /\ Running(r.id)' => Running(r.id)
<1> DEFINE i == r.id
<1>1. ChatTypes /\ ChatHolds(i) /\ r.got \in Copies /\ r.got.ver \in Int /\ newest[i] \in Int
  BY OfEachChat, VersionsAreNumbers DEF ChatInv
<1> DEFINE top == IF r.got.ver > newest[i] THEN r.got.ver ELSE newest[i]
<1>2. top \in Int /\ top >= r.got.ver /\ top >= newest[i]
  BY <1>1
<1>3. chats' = [chats EXCEPT ![i] = r.got] /\ newest' = [newest EXCEPT ![i] = top]
  BY DEF Stored
<1> HIDE DEF top
<1>4. /\ chats' \in [ChatIds -> Copies] /\ newest' \in [ChatIds -> Int]
      /\ chats'[i] = r.got /\ newest'[i] = top
      /\ \A j \in ChatIds \ {i} : chats'[j] = chats[j] /\ newest'[j] = newest[j]
  BY <1>1, <1>2, <1>3 DEF ChatTypes
<1>5. /\ \A j \in ChatIds \ {i} : j \in overtaken' <=> j \in overtaken
      /\ Running(i)' => Running(i) /\ ~(r.got.ver < newest[i])
  BY DEF Stored, Running
<1>6. RestIsCorrected(i)'
  <2> SUFFICES ASSUME Running(i)'
               PROVE  /\ r.got.st = "idle" => Followed(chatReqs', i, r.got.ver)
                      /\ \A t \in chatReqs' : t.id = i /\ t.got.st = "idle" =>
                           t.got.ver < top \/ Followed(chatReqs', i, t.got.ver)
    BY <1>4 DEF RestIsCorrected
  <2>1. \A t \in chatReqs : t.id = i /\ t.got.st = "idle" =>
          t.got.ver < newest[i] \/ Followed(chatReqs, i, t.got.ver)
    BY <1>1, <1>5 DEF ChatHolds, RestIsCorrected
  <2>2. r.got.st = "idle" => Followed(chatReqs', i, r.got.ver)
    <3>1. ASSUME r.got.st = "idle"
          PROVE  Followed(chatReqs', i, r.got.ver)
      <4>1. ~Follows(r, i, r.got.ver)
        BY <3>1 DEF Follows
      <4>2. Followed(chatReqs, i, r.got.ver)
        BY <1>1, <1>5, <2>1, <3>1
      <4> QED
        BY <4>1, <4>2 DEF Followed
    <3> QED
      BY <3>1
  <2>3. ASSUME NEW t \in chatReqs', t.id = i, t.got.st = "idle"
        PROVE  t.got.ver < top \/ Followed(chatReqs', i, t.got.ver)
    <3>1. t.got.ver \in Int /\ t \in chatReqs
      BY <1>1, VersionsAreNumbers
    <3>2. CASE t.got.ver < newest[i]
      BY <1>1, <1>2, <3>1, <3>2
    <3>3. CASE Follows(r, i, t.got.ver)
      <4>1. r.got.ver > t.got.ver
        BY <3>3 DEF Follows
      <4> QED
        BY <1>1, <1>2, <3>1, <4>1
    <3>4. CASE ~Follows(r, i, t.got.ver) /\ Followed(chatReqs, i, t.got.ver)
      BY <3>4 DEF Followed
    <3> QED
      BY <2>1, <2>3, <3>1, <3>2, <3>3, <3>4
  <2> QED
    BY <2>2, <2>3
<1> QED
  BY <1>4, <1>5, <1>6

\* A request that is over.
LEMMA EndedIsTyped ==
  ASSUME ChatTypes, NEW r, chatReqs' = chatReqs \ {r}
  PROVE  /\ chatReqs' \subseteq AskRequests /\ {} \in SUBSET AskRequests /\ chatReqs' = (chatReqs \ {r}) \cup {}
         /\ \A q \in chatReqs' \ chatReqs : FALSE
BY DEF ChatTypes

LEMMA CreateAnswersKeeps ==
  ASSUME ChatInv, NEW r \in chatReqs, ChatIsCreated(r)
  PROVE  ChatInv'
<1> DEFINE i == r.id
<1>1. ChatTypes /\ r \in AskRequests /\ RequestMakesSense(r) /\ r.op = "create"
  BY DEF ChatInv, ChatTypes, ChatsExist, ChatIsCreated
<1>2. /\ i \in ChatIds /\ Exists(i) /\ r.got.st = "running" /\ r.got # NotAnswered /\ i \in ZeroOr(ChatIds)
      /\ r.got \in Copies /\ r.got # NoCopy
  BY <1>1, Waits DEF RequestMakesSense, ChatIsCreated, ZeroOr, AskRequests
<1>3. /\ chatReqs' = chatReqs \ {r} /\ Stored(i, r.got) /\ activeId' = i /\ pollers' = Polled(pollers, i)
      /\ listed' = ListLoaded /\ UNCHANGED <<askSteps, kept, repo, dirtyRepo, warned>>
  BY DEF ChatIsCreated
<1>4. ChatHolds(i)
  BY <1>1, <1>2, OfEachChat DEF ChatInv
<1>5. /\ chats' \in [ChatIds -> Copies] /\ newest' \in [ChatIds -> Int] /\ chats'[i] = r.got
      /\ \A j \in ChatIds \ {i} : chats'[j] = chats[j] /\ newest'[j] = newest[j]
      /\ \A j \in ChatIds \ {i} : j \in overtaken' <=> j \in overtaken
      /\ RestIsCorrected(i)'
  BY <1>1, <1>2, <1>3, StoredIsCorrected
<1>6. /\ pollers' \in [ChatIds -> {"none", "timer", "asking"}] /\ pollers'[i] # "none"
      /\ \A j \in ChatIds \ {i} : pollers'[j] = pollers[j]
  BY <1>1, <1>2, <1>3, PollingStarts
<1>7. ChatTypes'
  <2>1. listed' \subseteq ChatIds
    BY <1>3 DEF ListLoaded
  <2> QED
    BY <1>1, <1>2, <1>3, <1>5, <1>6, <2>1, EndedIsTyped DEF ChatTypes
<1>8. \A j \in ChatIds \ {i} : Elsewhere(j)
  <2> DEFINE X == {}
  <2>1. X \in SUBSET AskRequests /\ chatReqs' = (chatReqs \ {r}) \cup X /\ r.id \in {i, 0} /\ \A x \in X : x.id \in {i, 0}
    BY <1>3
  <2>2. /\ listed' \in {listed, ListLoaded} /\ activeId' \in {0, i, activeId}
        /\ \A j \in ChatIds \ {i} : /\ kept'[j] = kept[j] /\ chats'[j] = chats[j]
                                    /\ newest'[j] = newest[j] /\ pollers'[j] = pollers[j]
                                    /\ j \in overtaken' <=> j \in overtaken
    BY <1>3, <1>5, <1>6
  <2> HIDE DEF X
  <2> QED
    BY <1>2, <2>1, <2>2, OthersAreElsewhere
<1>9. ChatHolds(i)'
  <2>1. ShownIsFollowed(i)'
    BY <1>6 DEF ShownIsFollowed
  <2>2. NotAhead(kept'[i], chats'[i]) /\ \A q \in About(i)' : NotAhead(kept'[i], q.got)
    BY <1>3, <1>4, <1>5 DEF ChatHolds, About
  <2>3. Exists(i)'
    BY <1>2, <1>3 DEF Exists
  <2> QED
    BY <1>3, <1>4, <1>5, <2>1, <2>2, <2>3 DEF ChatHolds, Exists
<1>10. /\ warned' = warned /\ (Exists(i) => Exists(i)') /\ kept' = kept
       /\ dirtyRepo' # "none" => dirtyRepo' \in warned'
       /\ \A q \in chatReqs' \ chatReqs : RequestMakesSense(q)'
  BY <1>3 DEF ChatInv, ChatsExist, Exists
<1> QED
  BY <1>2, <1>7, <1>8, <1>9, <1>10, StepKeeps

\* The chooser warns of a repository: nothing but the warning and the request.
LEMMA DirtyKeeps ==
  ASSUME ChatInv, NEW r \in chatReqs, CreateIsDirty(r)
  PROVE  ChatInv'
<1>1. ChatTypes /\ r \in AskRequests /\ RequestMakesSense(r) /\ r.op = "create" /\ r.got.st = "dirty"
  BY DEF ChatInv, ChatTypes, ChatsExist, CreateIsDirty
<1>2. r.id = 0
  BY <1>1 DEF RequestMakesSense
<1>3. /\ chatReqs' = chatReqs \ {r} /\ dirtyRepo' = r.repo /\ warned' = warned \cup {r.repo}
      /\ UNCHANGED <<askSteps, listed, activeId, repo, kept, chats, pollers, newest, overtaken>>
  BY DEF CreateIsDirty
<1>4. ChatTypes'
  <2>1. r.repo \in NoneOr(Repos)
    BY <1>1 DEF AskRequests
  <2> QED
    BY <1>1, <1>3, <2>1, EndedIsTyped DEF ChatTypes
<1> DEFINE i == 0
           X == {}
<1>5. /\ X \in SUBSET AskRequests /\ chatReqs' = (chatReqs \ {r}) \cup X /\ r.id \in {i, 0}
      /\ (\A x \in X : x.id \in {i, 0}) /\ i \in ZeroOr(ChatIds) /\ i = 0
  BY <1>2, <1>3 DEF ZeroOr
<1> HIDE DEF X, i
<1>6. \A j \in ChatIds \ {i} : Elsewhere(j)
  BY <1>3, <1>5, OthersAreElsewhere
<1>7. /\ warned \subseteq warned' /\ dirtyRepo' \in warned'
      /\ \A q \in chatReqs' \ chatReqs : RequestMakesSense(q)'
  BY <1>3
<1> QED
  BY <1>4, <1>5, <1>6, <1>7, StepKeeps

\* A request that fails is forgotten; one that was to be followed is a read,
\* and its chat is no longer promised to be.
LEMMA FailureKeeps ==
  ASSUME ChatInv, NEW r \in chatReqs, AskFails(r)
  PROVE  ChatInv'
<1>1. ChatTypes /\ r \in AskRequests /\ RequestMakesSense(r) /\ r.got = NotAnswered /\ r.op # "tick"
  BY DEF ChatInv, ChatTypes, ChatsExist, AskFails
<1>2. /\ chatReqs' = chatReqs \ {r} /\ (r.op = "get" => overtaken' = overtaken \cup {r.id})
      /\ r.op # "get" => overtaken' = overtaken /\ pollers' = pollers
      /\ pollers' = pollers \/ pollers' = Polled(pollers, r.id)
      /\ UNCHANGED <<askSteps, listed, activeId, repo, dirtyRepo, kept, chats, newest, warned>>
  BY DEF AskFails
<1>3. r.op = "create" <=> r.id = 0
  BY <1>1, Waits, AssistantAssumption DEF RequestMakesSense
<1>4. r.id \in ZeroOr(ChatIds) /\ (r.id # 0 => r.id \in ChatIds)
  BY <1>1 DEF AskRequests, ZeroOr
<1>5. /\ pollers' \in [ChatIds -> {"none", "timer", "asking"}]
      /\ \A j \in ChatIds \ {r.id} : pollers'[j] = pollers[j]
      /\ r.id # 0 => (pollers[r.id] # "none" => pollers'[r.id] # "none")
  <2>1. CASE pollers' = pollers
    BY <1>1, <2>1 DEF ChatTypes
  <2>2. CASE pollers' # pollers
    <3>1. r.id \in ChatIds /\ pollers' = Polled(pollers, r.id)
      BY <1>1, <1>2, <2>2 DEF RequestMakesSense
    <3> QED
      BY <1>1, <3>1, PollingStarts
  <2> QED
    BY <2>1, <2>2
<1>6. ChatTypes'
  BY <1>1, <1>2, <1>5, EndedIsTyped DEF ChatTypes
<1> DEFINE X == {}
<1>7. /\ X \in SUBSET AskRequests /\ chatReqs' = (chatReqs \ {r}) \cup X /\ X = {}
      /\ \A x \in X : x.id \in {r.id, 0}
  BY <1>2
<1> HIDE DEF X
<1>8. \A j \in ChatIds \ {r.id} : Elsewhere(j)
  <2>1. \A j \in ChatIds \ {r.id} : /\ kept'[j] = kept[j] /\ chats'[j] = chats[j]
                                    /\ newest'[j] = newest[j] /\ pollers'[j] = pollers[j]
                                    /\ j \in overtaken' <=> j \in overtaken
    BY <1>2, <1>5
  <2>2. listed' \in {listed, ListLoaded} /\ activeId' \in {0, r.id, activeId} /\ r.id \in {r.id, 0}
    BY <1>2
  <2> QED
    BY <1>4, <1>7, <2>1, <2>2, OthersAreElsewhere
<1>9. ASSUME r.id # 0
      PROVE  ChatHolds(r.id)' /\ Exists(r.id)'
  <2> DEFINE i == r.id
  <2>1. i \in ChatIds /\ ChatHolds(i) /\ Exists(i)
    BY <1>1, <1>3, <1>4, <1>9, OfEachChat DEF ChatInv, RequestMakesSense
  <2>2. RestIsCorrected(i)' /\ ShownIsFollowed(i)'
    <3>1. CASE r.op = "get"
      <4>1. ~Running(i)'
        BY <1>2, <3>1 DEF Running
      <4> QED
        BY <4>1 DEF RestIsCorrected, ShownIsFollowed
    <3>2. CASE r.op # "get"
      <4>1. \A v \in Int : ~Follows(r, i, v)
        BY <1>1, <3>2 DEF Follows
      <4>2. Running(i)' => Running(i)
        BY <1>2, <3>2 DEF Running
      <4>3. Running(i)' => /\ r.id = i => r.op # "create"
                          /\ \A v \in Int : Follows(r, i, v) /\ v < kept[i].ver => Followed(X, i, v)
                          /\ \A q \in X : q.id = i => q.got.st # "idle"
        BY <1>3, <1>7, <1>9, <4>1
      <4>4. /\ chats'[i] = chats[i] /\ newest'[i] = newest[i] /\ (activeId' = i => activeId = i)
            /\ pollers[i] # "none" => pollers'[i] # "none"
        BY <1>2, <1>5, <1>9
      <4> QED
        BY <1>7, <2>1, <4>2, <4>3, <4>4, StillFollowed
    <3> QED
      BY <3>1, <3>2
  <2>3. \A q \in About(i)' : NotAhead(kept'[i], q.got)
    BY <1>2, <2>1 DEF ChatHolds, About
  <2> QED
    BY <1>2, <2>1, <2>2, <2>3 DEF ChatHolds, Exists
<1>10. /\ warned \subseteq warned' /\ kept' = kept
       /\ dirtyRepo' # "none" => dirtyRepo' \in warned'
       /\ \A q \in chatReqs' \ chatReqs : RequestMakesSense(q)'
  BY <1>2 DEF ChatInv, ChatsExist
<1> QED
  BY <1>4, <1>6, <1>8, <1>9, <1>10, StepKeeps

\* A timer asks for its chat.
LEMMA TickKeeps ==
  ASSUME ChatInv, NEW i \in ChatIds, Tick(i)
  PROVE  ChatInv'
<1>1. ChatTypes /\ ChatHolds(i) /\ "tick" \in AskOps /\ "none" \in Thens /\ i \in ZeroOr(ChatIds)
  BY OfEachChat DEF ChatInv, AskOps, Thens, ZeroOr
<1>2. /\ pollers[i] = "timer" /\ pollers' = [pollers EXCEPT ![i] = "asking"]
      /\ chatReqs' = chatReqs \cup {Plain("tick", i, "none")}
      /\ UNCHANGED <<askSteps, listed, kept, warned, activeId, repo, dirtyRepo, chats, newest, overtaken>>
  BY DEF Tick, Plain, UiUntouched, CopiesUntouched
<1>3. Exists(i)
  BY <1>1, <1>2 DEF ChatHolds
<1>4. PICK q \in AskRequests : q.op = "tick" /\ q.id = i /\ q.got = NotAnswered /\ chatReqs' = chatReqs \cup {q}
  BY <1>1, <1>2, PlainIsTyped
<1>5. /\ pollers' \in [ChatIds -> {"none", "timer", "asking"}] /\ pollers'[i] # "none"
      /\ \A j \in ChatIds \ {i} : pollers'[j] = pollers[j]
  BY <1>1, <1>2 DEF ChatTypes
<1>6. ChatTypes'
  BY <1>1, <1>2, <1>4, <1>5 DEF ChatTypes
<1>7. ASSUME NEW j \in ChatIds \ {i}
      PROVE  Elsewhere(j)
  <2>1. About(j)' = About(j)
    BY <1>4 DEF About
  <2>2. j \in listed => Exists(j)
    BY DEF ChatInv, ChatsExist
  <2> QED
    BY <1>2, <1>5, <2>1, <2>2 DEF Elsewhere
<1>8. ChatHolds(i)'
  <2>1. RestIsCorrected(i)'
    <3>1. Running(i)' <=> Running(i)
      BY <1>2 DEF Running
    <3>2. \A v : Followed(chatReqs, i, v) => Followed(chatReqs', i, v)
      BY <1>4 DEF Followed
    <3>3. \A t \in chatReqs' : t.got.st = "idle" => t \in chatReqs
      BY <1>4, Waits
    <3>4. Running(i) => /\ chats[i].st = "idle" => Followed(chatReqs, i, chats[i].ver)
                        /\ \A t \in chatReqs : t.id = i /\ t.got.st = "idle" =>
                             t.got.ver < newest[i] \/ Followed(chatReqs, i, t.got.ver)
      BY <1>1 DEF ChatHolds, RestIsCorrected
    <3> QED
      BY <1>2, <3>1, <3>2, <3>3, <3>4 DEF RestIsCorrected
  <2>2. ShownIsFollowed(i)'
    BY <1>5 DEF ShownIsFollowed
  <2>3. NotAhead(kept[i], NotAnswered)
    <3>1. kept[i].ver \in Int /\ kept[i].ver >= 0
      BY <1>1, <1>3, VersionsAreNumbers DEF ChatHolds
    <3> QED
      BY <3>1, Waits DEF NotAhead
  <2>4. \A t \in About(i)' : NotAhead(kept'[i], t.got)
    BY <1>1, <1>2, <1>4, <2>3 DEF ChatHolds, About
  <2> QED
    BY <1>1, <1>2, <1>3, <2>1, <2>2, <2>4 DEF ChatHolds, Exists
<1>9. RequestMakesSense(q)'
  BY <1>2, <1>3, <1>4, Waits DEF RequestMakesSense, Exists
<1>10. /\ warned' = warned /\ kept' = kept /\ Exists(i)'
       /\ dirtyRepo' # "none" => dirtyRepo' \in warned'
       /\ \A t \in chatReqs' \ chatReqs : RequestMakesSense(t)'
  BY <1>2, <1>3, <1>4, <1>9 DEF ChatInv, ChatsExist, Exists
<1> QED
  BY <1>1, <1>6, <1>7, <1>8, <1>10, StepKeeps

\* A write is answered: a turn's answer is read and followed, whatever is shown.
LEMMA WriteAnswersKeeps ==
  ASSUME ChatInv, NEW r \in chatReqs, WriteAnswers(r)
  PROVE  ChatInv'
<1> DEFINE i == r.id
<1>1. /\ ChatTypes /\ r \in AskRequests /\ RequestMakesSense(r) /\ r.op \in Edits /\ r.got # NotAnswered
      /\ r.op \notin {"create", "get", "tick"}
  BY DEF ChatInv, ChatTypes, ChatsExist, WriteAnswers, Edits
<1>2. i \in ChatIds /\ Exists(i) /\ ChatHolds(i) /\ i \in ZeroOr(ChatIds)
  BY <1>1, OfEachChat DEF ChatInv, RequestMakesSense, ZeroOr
<1>3. UNCHANGED <<askSteps, repo, dirtyRepo, kept, pollers, newest, overtaken, warned>>
  BY DEF WriteAnswers
<1>4. PICK X \in SUBSET AskRequests :
        /\ chatReqs' = (chatReqs \ {r}) \cup X
        /\ r.op \in {"cancel", "remove"} => X = {}
        /\ r.op \notin {"cancel", "remove"} =>
             \E q \in X : X = {q} /\ q.op = "get" /\ q.id = i /\ q.then = r.then /\ q.got = NotAnswered
                          /\ ~q.force /\ q.since = -1
  <2>1. CASE r.op \in {"cancel", "remove"}
    <3> DEFINE Y == {}
    <3>1. chatReqs' = (chatReqs \ {r}) \cup Y /\ Y \in SUBSET AskRequests /\ Y = {}
      BY <2>1 DEF WriteAnswers
    <3> HIDE DEF Y
    <3> QED
      BY <2>1, <3>1
  <2>2. CASE r.op \notin {"cancel", "remove"}
    <3>1. chatReqs' = (chatReqs \ {r}) \cup {[Plain("get", i, r.then) EXCEPT !.n = r.n]}
      BY <2>2 DEF WriteAnswers, Plain
    <3>2. "get" \in AskOps /\ r.then \in Thens /\ r.n \in Nat
      BY <1>1 DEF AskOps, AskRequests
    <3>3. PICK p \in AskRequests : /\ p = Plain("get", i, r.then) /\ p.op = "get" /\ p.id = i /\ p.then = r.then
                                   /\ p.got = NotAnswered /\ ~p.force /\ p.since = -1
      BY <1>1, <1>2, <3>2, PlainIsTyped
    <3> DEFINE q == [p EXCEPT !.n = r.n]
    <3>4. /\ q \in AskRequests /\ q.op = "get" /\ q.id = i /\ q.then = r.then
          /\ q.got = NotAnswered /\ ~q.force /\ q.since = -1 /\ chatReqs' = (chatReqs \ {r}) \cup {q}
      BY <3>1, <3>2, <3>3 DEF AskRequests
    <3> HIDE DEF q
    <3> DEFINE Y == {q}
    <3>5. Y \in SUBSET AskRequests /\ q \in Y
      BY <3>4
    <3> QED
      BY <2>2, <3>4, <3>5
  <2> QED
    BY <2>1, <2>2
<1>5. \A q \in X : q.id = i /\ q.op = "get" /\ q.got = NotAnswered /\ q.since = -1
  BY <1>4
<1>6. /\ r.op # "remove" => UNCHANGED <<chats, activeId, listed>>
      /\ r.op = "remove" => /\ chats' = [chats EXCEPT ![i] = NoCopy] /\ listed' = ListLoaded
                            /\ activeId' = IF activeId = i THEN 0 ELSE activeId
  BY DEF WriteAnswers
<1>7. /\ chats' \in [ChatIds -> Copies] /\ \A j \in ChatIds \ {i} : chats'[j] = chats[j]
      /\ chats'[i] \in {chats[i], NoCopy} /\ listed' \in {listed, ListLoaded} /\ activeId' \in {0, activeId}
  <2>1. chats \in [ChatIds -> Copies]
    BY <1>1 DEF ChatTypes
  <2> QED
    BY <1>2, <1>6, <2>1, Waits
<1>8. ChatTypes'
  <2>1. listed' \subseteq ChatIds
    BY <1>1, <1>7 DEF ListLoaded, ChatTypes
  <2>2. activeId' \in ZeroOr(ChatIds)
    BY <1>1, <1>7 DEF ChatTypes, ZeroOr
  <2> QED
    BY <1>1, <1>3, <1>4, <1>7, <2>1, <2>2, RequestsAreTyped DEF ChatTypes
<1>9. \A j \in ChatIds \ {i} : Elsewhere(j)
  <2>1. r.id \in {i, 0} /\ (\A q \in X : q.id \in {i, 0}) /\ activeId' \in {0, i, activeId}
    BY <1>5, <1>7
  <2> QED
    BY <1>2, <1>3, <1>4, <1>7, <2>1, OthersAreElsewhere
<1>10. RestIsCorrected(i)' /\ ShownIsFollowed(i)'
  <2>1. CASE r.op = "send"
    <3>1. PICK q \in X : q.op = "get" /\ q.id = i /\ q.then = "poll" /\ q.got = NotAnswered
      BY <1>1, <1>4, <2>1 DEF RequestMakesSense
    <3>2. q \in chatReqs' /\ \A v \in Int : Follows(q, i, v)
      BY <1>4, <3>1 DEF Follows
    <3> QED
      BY <1>2, <1>8, <3>2, WellFollowed
  <2>2. CASE r.op = "remove"
    <3>1. kept'[i].st = "gone"
      BY <1>1, <1>3, <2>2 DEF RequestMakesSense
    <3> QED
      BY <3>1 DEF RestIsCorrected, ShownIsFollowed, Running
  <2>3. CASE r.op \notin {"send", "remove"}
    <3>1. \A v \in Int : ~Follows(r, i, v)
      BY <1>1, <2>3 DEF Follows
    <3>2. Running(i)' => Running(i)
      BY <1>3 DEF Running
    <3>3. /\ chats'[i] = chats[i] /\ newest'[i] = newest[i] /\ pollers'[i] = pollers[i] /\ activeId' = activeId
          /\ Running(i)' => /\ r.id = i => r.op # "create"
                            /\ \A v \in Int : Follows(r, i, v) /\ v < kept[i].ver => Followed(X, i, v)
                            /\ \A q \in X : q.id = i => q.got.st # "idle"
      BY <1>1, <1>3, <1>5, <1>6, <2>3, <3>1, Waits
    <3> QED
      BY <1>2, <1>4, <3>2, <3>3, StillFollowed
  <2> QED
    BY <2>1, <2>2, <2>3
<1>11. ChatHolds(i)'
  <2>1. kept[i].ver \in Int /\ kept[i].ver >= 0
    BY <1>1, <1>2, VersionsAreNumbers DEF ChatHolds
  <2>2. NotAhead(kept[i], NotAnswered) /\ NotAhead(kept[i], NoCopy)
    BY <2>1, Waits DEF NotAhead
  <2>3. NotAhead(kept'[i], chats'[i])
    BY <1>2, <1>3, <1>7, <2>2 DEF ChatHolds
  <2>4. \A q \in About(i)' : NotAhead(kept'[i], q.got)
    BY <1>2, <1>3, <1>4, <1>5, <2>2 DEF ChatHolds, About
  <2> QED
    BY <1>2, <1>3, <1>10, <2>3, <2>4 DEF ChatHolds, Exists
<1>12. ASSUME NEW q \in X
       PROVE  RequestMakesSense(q)'
  BY <1>2, <1>3, <1>5, Waits DEF RequestMakesSense, Exists
<1>13. /\ warned' = warned /\ kept' = kept /\ Exists(i)'
       /\ dirtyRepo' # "none" => dirtyRepo' \in warned'
       /\ \A q \in chatReqs' \ chatReqs : RequestMakesSense(q)'
  BY <1>2, <1>3, <1>4, <1>12 DEF ChatInv, ChatsExist, Exists
<1> QED
  BY <1>2, <1>8, <1>9, <1>11, <1>13, StepKeeps

\* A read is answered: what it would have followed is followed now.
LEMMA ReadAnswersKeeps ==
  ASSUME ChatInv, NEW r \in chatReqs, ReadAnswers(r)
  PROVE  ChatInv'
<1> DEFINE i == r.id
<1>1. /\ ChatTypes /\ r \in AskRequests /\ RequestMakesSense(r) /\ r.op = "get" /\ r.got # NotAnswered
  BY DEF ChatInv, ChatTypes, ChatsExist, ReadAnswers
<1>2. i \in ChatIds /\ Exists(i) /\ ChatHolds(i) /\ i \in ZeroOr(ChatIds)
  BY <1>1, OfEachChat DEF ChatInv, RequestMakesSense, ZeroOr
<1>3. /\ chatReqs' = chatReqs \ {r} /\ pollers' = AfterRead(pollers, i, r.then, chats'[i])
      /\ IF r.got.st = "gone" THEN UNCHANGED <<chats, newest, overtaken>> ELSE Stored(i, r.got)
      /\ listed' \in {listed, ListLoaded}
      /\ UNCHANGED <<askSteps, activeId, repo, dirtyRepo, kept, warned>>
  BY DEF ReadAnswers, CopiesUntouched
<1>4. /\ pollers' \in [ChatIds -> {"none", "timer", "asking"}]
      /\ \A j \in ChatIds \ {i} : pollers'[j] = pollers[j]
      /\ pollers[i] # "none" => pollers'[i] # "none"
      /\ r.then \in {"poll", "pollIfRunning"} /\ chats'[i].st = "running" => pollers'[i] # "none"
  <2>1. pollers' \in {pollers, Polled(pollers, i)}
    BY <1>3 DEF AfterRead
  <2>2. r.then \in {"poll", "pollIfRunning"} /\ chats'[i].st = "running" => pollers' = Polled(pollers, i)
    BY <1>3 DEF AfterRead
  <2>3. pollers \in [ChatIds -> {"none", "timer", "asking"}]
    BY <1>1 DEF ChatTypes
  <2> QED
    BY <1>1, <1>2, <2>1, <2>2, <2>3, PollingStarts
<1>5. /\ chats' \in [ChatIds -> Copies] /\ newest' \in [ChatIds -> Int]
      /\ \A j \in ChatIds \ {i} : chats'[j] = chats[j] /\ newest'[j] = newest[j]
      /\ \A j \in ChatIds \ {i} : j \in overtaken' <=> j \in overtaken
      /\ chats'[i] \in {chats[i], r.got} /\ RestIsCorrected(i)'
      /\ Running(i)' => Running(i) /\ chats'[i] = r.got
  <2>1. CASE r.got.st = "gone"
    <3>1. kept'[i].st = "gone"
      BY <1>1, <1>3, <2>1 DEF RequestMakesSense
    <3> QED
      BY <1>1, <1>3, <2>1, <3>1 DEF RestIsCorrected, Running, ChatTypes
  <2>2. CASE r.got.st # "gone"
    <3>1. Stored(i, r.got)
      BY <1>3, <2>2
    <3>2. r.op \in {"create", "get", "tick"}
      BY <1>1
    <3> QED
      BY <1>1, <1>2, <1>3, <3>1, <3>2, StoredIsCorrected
  <2> QED
    BY <2>1, <2>2
<1>6. ChatTypes'
  <2>1. listed' \subseteq ChatIds
    BY <1>1, <1>3 DEF ListLoaded, ChatTypes
  <2> QED
    BY <1>1, <1>3, <1>4, <1>5, <2>1, EndedIsTyped DEF ChatTypes
<1>7. \A j \in ChatIds \ {i} : Elsewhere(j)
  <2> DEFINE X == {}
  <2>1. X \in SUBSET AskRequests /\ chatReqs' = (chatReqs \ {r}) \cup X /\ r.id \in {i, 0} /\ \A x \in X : x.id \in {i, 0}
    BY <1>3
  <2>2. /\ activeId' \in {0, i, activeId}
        /\ \A j \in ChatIds \ {i} : /\ kept'[j] = kept[j] /\ chats'[j] = chats[j]
                                    /\ newest'[j] = newest[j] /\ pollers'[j] = pollers[j]
                                    /\ j \in overtaken' <=> j \in overtaken
    BY <1>3, <1>4, <1>5
  <2> HIDE DEF X
  <2> QED
    BY <1>2, <1>3, <2>1, <2>2, OthersAreElsewhere
<1>8. ShownIsFollowed(i)'
  <2> SUFFICES ASSUME i = activeId', Running(i)', pollers'[i] = "none"
               PROVE  (\E v \in Int : Followed(chatReqs', i, v)) \/ \E q \in chatReqs' : q.id = i /\ q.op = "create"
    BY DEF ShownIsFollowed
  <2>1. (\E v \in Int : Followed(chatReqs, i, v)) \/ \E q \in chatReqs : q.id = i /\ q.op = "create"
    BY <1>2, <1>3, <1>4, <1>5 DEF ChatHolds, ShownIsFollowed
  <2>2. \A v \in Int : ~Follows(r, i, v)
    BY <1>1, <1>4, <1>5 DEF Follows
  <2> QED
    BY <1>1, <1>3, <2>1, <2>2 DEF Followed
<1>9. ChatHolds(i)'
  <2>1. NotAhead(kept'[i], chats'[i])
    BY <1>2, <1>3, <1>5 DEF ChatHolds, About
  <2>2. \A q \in About(i)' : NotAhead(kept'[i], q.got)
    BY <1>2, <1>3 DEF ChatHolds, About
  <2> QED
    BY <1>2, <1>3, <1>5, <1>8, <2>1, <2>2 DEF ChatHolds, Exists
<1>10. /\ warned' = warned /\ kept' = kept /\ Exists(i)'
       /\ dirtyRepo' # "none" => dirtyRepo' \in warned'
       /\ \A q \in chatReqs' \ chatReqs : RequestMakesSense(q)'
  BY <1>2, <1>3 DEF ChatInv, ChatsExist, Exists
<1> QED
  BY <1>2, <1>6, <1>7, <1>9, <1>10, StepKeeps

\* A tick is answered: polling ends at rest, where someone else will correct it.
LEMMA TickAnswersKeeps ==
  ASSUME ChatInv, NEW r \in chatReqs, TickAnswers(r)
  PROVE  ChatInv'
<1> DEFINE i == r.id
<1>1. /\ ChatTypes /\ r \in AskRequests /\ RequestMakesSense(r) /\ r.op = "tick"
  BY DEF ChatInv, ChatTypes, ChatsExist, TickAnswers
<1>2. i \in ChatIds /\ Exists(i) /\ ChatHolds(i) /\ i \in ZeroOr(ChatIds)
  BY <1>1, OfEachChat DEF ChatInv, RequestMakesSense, ZeroOr
<1>3. /\ chatReqs' = chatReqs \ {r} /\ UNCHANGED <<askSteps, activeId, repo, dirtyRepo, kept, warned>>
      /\ listed' \in {listed, ListLoaded}
      /\ \/ UNCHANGED <<chats, newest, overtaken>>
         \/ r.got # NotAnswered /\ Stored(i, r.got)
      /\ pollers' = [pollers EXCEPT ![i] = "timer"]
           \/ (chats'[i].st = "idle" /\ pollers' = [pollers EXCEPT ![i] = "none"])
  <2>1. CASE r.got.st \in {"waiting", "gone"}
    BY <2>1 DEF TickAnswers, CopiesUntouched, UiUntouched
  <2>2. CASE r.got.st \notin {"waiting", "gone"}
    <3>1. r.got # NotAnswered
      BY <2>2, Waits
    <3> QED
      BY <2>2, <3>1 DEF TickAnswers, TickEnds, CopiesUntouched, UiUntouched
  <2> QED
    BY <2>1, <2>2
<1>4. /\ pollers' \in [ChatIds -> {"none", "timer", "asking"}]
      /\ \A j \in ChatIds \ {i} : pollers'[j] = pollers[j]
      /\ pollers'[i] # "none" \/ chats'[i].st = "idle"
  <2>1. pollers \in [ChatIds -> {"none", "timer", "asking"}]
    BY <1>1 DEF ChatTypes
  <2> QED
    BY <1>2, <1>3, <2>1
<1>5. \A v \in Int : ~Follows(r, i, v)
  BY <1>1 DEF Follows
<1>6. /\ chats' \in [ChatIds -> Copies] /\ newest' \in [ChatIds -> Int]
      /\ \A j \in ChatIds \ {i} : chats'[j] = chats[j] /\ newest'[j] = newest[j]
      /\ \A j \in ChatIds \ {i} : j \in overtaken' <=> j \in overtaken
      /\ chats'[i] \in {chats[i], r.got} /\ RestIsCorrected(i)'
  <2>1. CASE UNCHANGED <<chats, newest, overtaken>>
    <3>1. RestIsCorrected(i)'
      <4>1. \A v \in Int : Followed(chatReqs, i, v) => Followed(chatReqs', i, v)
        BY <1>3, <1>5 DEF Followed
      <4>2. chats[i].ver \in Int /\ \A t \in chatReqs : t.got.ver \in Int
        BY <1>1, <1>2, VersionsAreNumbers
      <4>3. Running(i)' <=> Running(i)
        BY <1>3, <2>1 DEF Running
      <4>4. Running(i) => /\ chats[i].st = "idle" => Followed(chatReqs, i, chats[i].ver)
                          /\ \A t \in chatReqs : t.id = i /\ t.got.st = "idle" =>
                               t.got.ver < newest[i] \/ Followed(chatReqs, i, t.got.ver)
        BY <1>2 DEF ChatHolds, RestIsCorrected
      <4> QED
        BY <1>3, <2>1, <4>1, <4>2, <4>3, <4>4 DEF RestIsCorrected
    <3> QED
      BY <1>1, <2>1, <3>1 DEF ChatTypes
  <2>2. CASE r.got # NotAnswered /\ Stored(i, r.got)
    <3>1. r.op \in {"create", "get", "tick"}
      BY <1>1
    <3> QED
      BY <1>1, <1>2, <1>3, <2>2, <3>1, StoredIsCorrected
  <2> QED
    BY <1>3, <2>1, <2>2
<1>7. ChatTypes'
  <2>1. listed' \subseteq ChatIds
    BY <1>1, <1>3 DEF ListLoaded, ChatTypes
  <2> QED
    BY <1>1, <1>3, <1>4, <1>6, <2>1, EndedIsTyped DEF ChatTypes
<1>8. \A j \in ChatIds \ {i} : Elsewhere(j)
  <2> DEFINE X == {}
  <2>1. X \in SUBSET AskRequests /\ chatReqs' = (chatReqs \ {r}) \cup X /\ r.id \in {i, 0} /\ \A x \in X : x.id \in {i, 0}
    BY <1>3
  <2>2. /\ activeId' \in {0, i, activeId}
        /\ \A j \in ChatIds \ {i} : /\ kept'[j] = kept[j] /\ chats'[j] = chats[j]
                                    /\ newest'[j] = newest[j] /\ pollers'[j] = pollers[j]
                                    /\ j \in overtaken' <=> j \in overtaken
    BY <1>3, <1>4, <1>6
  <2> HIDE DEF X
  <2> QED
    BY <1>2, <1>3, <2>1, <2>2, OthersAreElsewhere
<1>9. ShownIsFollowed(i)'
  <2>1. CASE pollers'[i] # "none"
    BY <2>1 DEF ShownIsFollowed
  <2>2. CASE chats'[i].st = "idle"
    <3>1. chats'[i].ver \in Int
      BY <1>2, <1>6 DEF Copies
    <3>2. Running(i)' => Followed(chatReqs', i, chats'[i].ver)
      BY <1>6, <2>2 DEF RestIsCorrected
    <3> QED
      BY <3>1, <3>2 DEF ShownIsFollowed
  <2> QED
    BY <1>4, <2>1, <2>2
<1>10. ChatHolds(i)'
  <2>1. NotAhead(kept'[i], chats'[i])
    BY <1>2, <1>3, <1>6 DEF ChatHolds, About
  <2>2. \A q \in About(i)' : NotAhead(kept'[i], q.got)
    BY <1>2, <1>3 DEF ChatHolds, About
  <2> QED
    BY <1>2, <1>3, <1>6, <1>9, <2>1, <2>2 DEF ChatHolds, Exists
<1>11. /\ warned' = warned /\ kept' = kept /\ Exists(i)'
       /\ dirtyRepo' # "none" => dirtyRepo' \in warned'
       /\ \A q \in chatReqs' \ chatReqs : RequestMakesSense(q)'
  BY <1>2, <1>3 DEF ChatInv, ChatsExist, Exists
<1> QED
  BY <1>2, <1>7, <1>8, <1>10, <1>11, StepKeeps

LEMMA ChatsStepKeeps ==
  ASSUME ChatInv, ChatNext
  PROVE  ChatInv'
<1>1. CASE ChatClicks
  BY <1>1, ClicksKeep
<1>2. ASSUME NEW i \in ChatIds, AgentReports(i) \/ Tick(i)
      PROVE  ChatInv'
  BY <1>2, ReportKeeps, TickKeeps
<1>3. ASSUME NEW r \in chatReqs, \/ Serve(r) \/ ChatIsCreated(r) \/ CreateIsDirty(r) \/ AskFails(r)
                                 \/ WriteAnswers(r) \/ ReadAnswers(r) \/ TickAnswers(r)
      PROVE  ChatInv'
  BY <1>3, ServeKeeps, CreateAnswersKeeps, DirtyKeeps, FailureKeeps, WriteAnswersKeeps, ReadAnswersKeeps, TickAnswersKeeps
<1> QED
  BY <1>1, <1>2, <1>3 DEF ChatNext, ChatClicks

\* The settings: a plan's answer makes its own dialog, and what runs was planned.
LEMMA SetupStepKeeps ==
  ASSUME SetupInv, AgentsNext
  PROVE  SetupInv'
<1>1. ASSUME NEW c \in AiClients, AskPlan(c)
      PROVE  SetupInv'
  <2> DEFINE a == IF c \in rows THEN "uninstall" ELSE "install"
             m == installMode
             d == [id |-> c, action |-> a, mode |-> m, plan |-> "none"]
             q == SetupReq("plan", d, NoRows)
  <2>1. /\ dialog' = d /\ setupReqs' = setupReqs \cup {q} /\ planned' = planned
    BY <1>1 DEF AskPlan
  <2>2. a \in {"install", "uninstall"}
    OBVIOUS
  <2> HIDE DEF a, m
  <2>3. IsDialog(d) /\ d.plan = "none" /\ d.action \in {"install", "uninstall"}
    BY <2>2 DEF IsDialog
  <2> HIDE DEF d
  <2>4. q = [n |-> q.n, op |-> q.op, of |-> q.of, got |-> q.got] /\ q.op = "plan" /\ q.of = d
    BY DEF SetupReq
  <2> HIDE DEF q
  <2> QED
    BY <2>1, <2>3, <2>4 DEF SetupInv, Ours
<1>2. ASSUME NEW r \in setupReqs, NEW ok \in BOOLEAN, PlanAnswers(r, ok)
      PROVE  SetupInv'
  <2>1. /\ r.op = "plan" /\ setupReqs' = setupReqs \ {r} /\ planned \subseteq planned'
        /\ ok => dialog' = [r.of EXCEPT !.plan = r.of.id] /\ r.of \in planned'
        /\ ~ok => dialog' = r.of
    BY <1>2 DEF PlanAnswers, WithPlan
  <2>2. IsDialog(r.of) /\ r.of.plan = "none" /\ r.of.action \in {"install", "uninstall"}
    BY <2>1 DEF SetupInv
  <2>3. \A d : Ours(d) => Ours(d)'
    BY <2>1 DEF Ours
  <2>4. CASE ok
    <3> DEFINE d == [r.of EXCEPT !.plan = r.of.id]
    <3>1. IsDialog(d) /\ d.plan = d.id /\ d.action = r.of.action /\ [d EXCEPT !.plan = "none"] = r.of
      <4>1. PICK c, a, m : r.of = [id |-> c, action |-> a, mode |-> m, plan |-> "none"]
        BY <2>2 DEF IsDialog
      <4>2. d = [id |-> c, action |-> a, mode |-> m, plan |-> c]
        BY <4>1
      <4> HIDE DEF d
      <4>3. [d EXCEPT !.plan = "none"] = [id |-> c, action |-> a, mode |-> m, plan |-> "none"]
        BY <4>2
      <4>4. IsDialog(d)
        BY <4>2 DEF IsDialog
      <4> QED
        BY <4>1, <4>2, <4>3, <4>4
    <3>2. dialog' = d /\ r.of \in planned'
      BY <2>1, <2>4
    <3> HIDE DEF d
    <3> QED
      BY <2>1, <2>2, <2>3, <3>1, <3>2 DEF SetupInv, Ours
  <2>5. CASE ~ok
    BY <2>1, <2>2, <2>3, <2>5 DEF SetupInv
  <2> QED
    BY <2>4, <2>5
<1>3. CASE CancelPlan
  <2>1. IsDialog(NoDialog) /\ NoDialog.plan = "none"
    BY DEF NoDialog, IsDialog
  <2>2. dialog' = NoDialog /\ UNCHANGED <<setupReqs, planned>>
    BY <1>3 DEF CancelPlan
  <2> QED
    BY <2>1, <2>2 DEF SetupInv, Ours
<1>4. CASE RunPlan
  <2> DEFINE q == SetupReq(dialog.action, dialog, NoRows)
  <2>1. /\ dialog.plan # "none" /\ dialog' = NoDialog /\ setupReqs' = setupReqs \cup {q} /\ planned' = planned
    BY <1>4 DEF RunPlan
  <2>2. q = [n |-> q.n, op |-> q.op, of |-> q.of, got |-> q.got] /\ q.op = dialog.action /\ q.of = dialog
    BY DEF SetupReq
  <2> HIDE DEF q
  <2>3. IsDialog(NoDialog) /\ NoDialog.plan = "none"
    BY DEF NoDialog, IsDialog
  <2>4. Ours(dialog) /\ dialog.action \in {"install", "uninstall"} /\ IsDialog(dialog)
    BY <2>1 DEF SetupInv
  <2>5. \A d : Ours(d)' <=> Ours(d)
    BY <2>1 DEF Ours
  <2>6. ASSUME NEW r \in setupReqs'
        PROVE  /\ r = [n |-> r.n, op |-> r.op, of |-> r.of, got |-> r.got] /\ IsDialog(r.of)
               /\ r.op \in {"install", "uninstall"} => Ours(r.of)
               /\ r.op = "plan" => r.of.plan = "none" /\ r.of.action \in {"install", "uninstall"}
    <3>1. CASE r = q
      BY <2>2, <2>4, <3>1
    <3>2. CASE r \in setupReqs
      BY <3>2 DEF SetupInv
    <3> QED
      BY <2>1, <3>1, <3>2
  <2> QED
    BY <2>1, <2>3, <2>5, <2>6 DEF SetupInv, Ours
<1>5. CASE PickMode
  BY <1>5 DEF PickMode, SetupInv, Ours
<1>6. CASE UpdateAll \/ FlipServer \/ ReadStatus \/ RotateToken
  <2>1. PICK n, op : /\ setupReqs' = setupReqs \cup {[n |-> n, op |-> op, of |-> NoDialog, got |-> NoRows]}
                     /\ op \in {"update", "switch", "status", "clients"} /\ UNCHANGED <<dialog, planned>>
    <3>1. CASE ReadStatus
      <4>1. setupReqs' = setupReqs \cup {[n |-> 0, op |-> "status", of |-> NoDialog, got |-> NoRows]}
        BY <3>1 DEF ReadStatus, SetupReq
      <4> QED
        BY <3>1, <4>1 DEF ReadStatus
    <3>2. CASE UpdateAll
      BY <3>2 DEF UpdateAll, SetupReq
    <3>3. CASE FlipServer
      BY <3>3 DEF FlipServer, SetupReq
    <3>4. CASE RotateToken
      BY <3>4 DEF RotateToken, SetupReq
    <3> QED
      BY <1>6, <3>1, <3>2, <3>3, <3>4
  <2> DEFINE q == [n |-> n, op |-> op, of |-> NoDialog, got |-> NoRows]
  <2>2. /\ q = [n |-> q.n, op |-> q.op, of |-> q.of, got |-> q.got] /\ q.of = NoDialog
        /\ q.op \notin {"plan", "install", "uninstall"} /\ setupReqs' = setupReqs \cup {q}
    BY <2>1
  <2> HIDE DEF q
  <2>3. IsDialog(NoDialog)
    BY DEF NoDialog, IsDialog
  <2> QED
    BY <2>1, <2>2, <2>3 DEF SetupInv, Ours
<1>7. ASSUME NEW r \in setupReqs, ServeSetup(r)
      PROVE  SetupInv'
  <2>1. PICK g : /\ setupReqs' = (setupReqs \ {r}) \cup {[r EXCEPT !.got = g]} /\ UNCHANGED <<dialog, planned>>
    BY <1>7 DEF ServeSetup
  <2> DEFINE q == [r EXCEPT !.got = g]
  <2>2. r = [n |-> r.n, op |-> r.op, of |-> r.of, got |-> r.got]
    BY DEF SetupInv
  <2>3. /\ q = [n |-> q.n, op |-> q.op, of |-> q.of, got |-> q.got] /\ q.op = r.op /\ q.of = r.of
        /\ setupReqs' = (setupReqs \ {r}) \cup {q}
    BY <2>1, <2>2
  <2> HIDE DEF q
  <2> QED
    BY <2>1, <2>3 DEF SetupInv, Ours
<1>8. ASSUME NEW r \in setupReqs, SetupAnswers(r) \/ SetupFails(r) \/ StatusAnswers(r)
      PROVE  SetupInv'
  <2>1. setupReqs' = setupReqs \ {r} /\ UNCHANGED <<dialog, planned>>
    BY <1>8 DEF SetupAnswers, SetupFails, StatusAnswers
  <2> QED
    BY <2>1 DEF SetupInv, Ours
<1> QED
  BY <1>1, <1>2, <1>3, <1>4, <1>5, <1>6, <1>7, <1>8 DEF AgentsNext

LEMMA AssistantStarts ==
  ASSUME AssistInit
  PROVE  ChatInv /\ SetupInv
<1>1. ChatInv
  <2>1. ChatInit
    BY DEF AssistInit
  <2> DEFINE started == [st |-> "running", ver |-> 0, patch |-> "proposed"]
  <2>2. started \in Copies /\ started.st = "running" /\ started.ver = 0
    BY DEF Copies
  <2>3. kept \in [ChatIds -> {NoCopy, started}]
    BY <2>1 DEF ChatInit
  <2> HIDE DEF started
  <2>4. ASSUME NEW i \in ChatIds
        PROVE  /\ kept[i] \in Copies /\ chats[i] = NoCopy /\ pollers[i] = "none" /\ activeId # i
               /\ kept[i].st \in {"none", "running"} /\ (IF Exists(i) THEN kept[i].ver >= 0 ELSE kept[i].ver = -1)
               /\ NotAhead(kept[i], chats[i])
    <3>1. kept[i] = NoCopy \/ kept[i] = started
      BY <2>3
    <3>2. chats[i] = NoCopy /\ pollers[i] = "none" /\ activeId # i
      BY <2>1, AssistantAssumption DEF ChatInit
    <3> QED
      BY <2>2, <3>1, <3>2, Waits DEF Exists, NotAhead
  <2>5. ChatTypes
    <3>1. kept \in [ChatIds -> Copies]
      BY <2>3, <2>2, Waits
    <3>2. chats \in [ChatIds -> Copies] /\ newest \in [ChatIds -> Int] /\ pollers \in [ChatIds -> {"none", "timer", "asking"}]
      BY <2>1, Waits DEF ChatInit
    <3> QED
      BY <2>1, <3>1, <3>2 DEF ChatInit, ChatTypes, ListLoaded, ZeroOr, NoneOr
  <2>6. chatReqs = {} /\ dirtyRepo = "none" /\ listed = ListLoaded
    BY <2>1 DEF ChatInit
  <2>7. ASSUME NEW i \in ChatIds
        PROVE  ChatHolds(i)
    <3>1. RestIsCorrected(i) /\ ShownIsFollowed(i)
      BY <2>4, <2>6, Waits DEF RestIsCorrected, ShownIsFollowed
    <3> QED
      BY <2>4, <2>6, <3>1, ListedExist DEF ChatHolds, About
  <2> QED
    BY <2>5, <2>6, <2>7, OfEachChat
<1>2. SetupInv
  <2>1. SetupInit
    BY DEF AssistInit
  <2> DEFINE q == [n |-> 0, op |-> "clients", of |-> NoDialog, got |-> NoRows]
  <2>2. /\ q = [n |-> q.n, op |-> q.op, of |-> q.of, got |-> q.got] /\ q.of = NoDialog
        /\ q.op \notin {"plan", "install", "uninstall"}
    OBVIOUS
  <2>3. dialog = NoDialog /\ setupReqs = {q}
    BY <2>1 DEF SetupInit
  <2> HIDE DEF q
  <2>4. IsDialog(NoDialog) /\ NoDialog.plan = "none"
    BY DEF NoDialog, IsDialog
  <2> QED
    BY <2>2, <2>3, <2>4 DEF SetupInv
<1> QED
  BY <1>1, <1>2

\* What the invariant says of the properties: a chat on show is polled or asked
\* for, a forced fix is of a repository warned of, a change was shown its plan.
LEMMA AssistantKeepsIt ==
  ASSUME ChatInv, SetupInv
  PROVE  AssistantKeepsItsWord
<1>1. RunIsFollowed
  <2> SUFFICES ASSUME NEW i \in ChatIds, i = activeId, Running(i)
               PROVE  pollers[i] # "none" \/ \E r \in chatReqs : r.id = i
    BY DEF RunIsFollowed, Running
  <2>1. ShownIsFollowed(i)
    BY DEF ChatInv, FollowInv
  <2> QED
    BY <2>1 DEF ShownIsFollowed, Followed, Follows
<1>2. DirtyIsAccepted
  BY DEF DirtyIsAccepted, ChatInv, ChatsExist, RequestMakesSense
<1>3. PlansAreTheirOwn
  BY DEF PlansAreTheirOwn, SetupInv, Ours
<1> QED
  BY <1>1, <1>2, <1>3 DEF AssistantKeepsItsWord

\* The assistant acts on what was shown, whatever the order of the clicks, the
\* agents' reports and the answers: a run on show is polled or asked for, a
\* repository's uncommitted work is touched only after its own warning, and a
\* client's configuration is changed only under its own plan (aiChatStore.ts,
\* FixChooser.tsx, ClientInstallList.tsx).
THEOREM AssistantStaysTrueToItsWord == AssistSpec => []AssistantKeepsItsWord
<1> DEFINE Inv == ChatInv /\ SetupInv
<1>1. AssistInit => Inv
  BY AssistantStarts
<1>2. Inv /\ [ChatNext \/ AgentsNext]_assistVars => Inv'
  <2> SUFFICES ASSUME Inv, [ChatNext \/ AgentsNext]_assistVars
               PROVE  Inv'
    OBVIOUS
  <2>1. UNCHANGED askVars => ChatInv'
    <3> SUFFICES ASSUME UNCHANGED askVars
                 PROVE  ChatInv'
      OBVIOUS
    <3>1. /\ askSteps' \in {askSteps, askSteps + 1} /\ listed' \in {listed, ListLoaded}
          /\ repo' \in {repo} \cup NoneOr(Repos) /\ dirtyRepo' \in {"none", dirtyRepo}
          /\ activeId' \in {0, activeId}
          /\ UNCHANGED <<kept, chats, pollers, newest, overtaken, warned, chatReqs>>
      BY DEF askVars
    <3> QED
      BY <3>1, QuietClickKeeps
  <2>2. UNCHANGED setupVars => SetupInv'
    BY DEF setupVars, SetupInv, Ours
  <2>3. CASE ChatNext
    BY <2>2, <2>3, ChatsStepKeeps DEF ChatNext
  <2>4. CASE AgentsNext
    BY <2>1, <2>4, SetupStepKeeps DEF AgentsNext
  <2>5. CASE UNCHANGED assistVars
    BY <2>1, <2>2, <2>5 DEF assistVars
  <2> QED
    BY <2>3, <2>4, <2>5
<1>3. Inv => AssistantKeepsItsWord
  BY AssistantKeepsIt
<1> QED
  BY <1>1, <1>2, <1>3, PTL DEF AssistSpec
=============================================================================

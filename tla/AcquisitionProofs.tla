--------------------------- MODULE AcquisitionProofs ---------------------------
(***************************************************************************)
(* Proofs about what the program acquires: AcquireChannel, the list of     *)
(* images, for any number of processes that share the cache, any envelopes *)
(* and any clock; and Download, an image of the list, for any number of    *)
(* commands, files and blocks.  The two share no state.                    *)
(***************************************************************************)
EXTENDS AcquireChannel, DownloadAlone, TLAPS

-----------------------------------------------------------------------------
(* The catalog channel *)

Stages == {"idle", "replay", "load", "roots", "store", "catalog", "cache", "fallback", "accept"}
States == [root : AllRoots, catalog : Catalogs, acceptedAt : Int]
ProcRec == [pc : Stages, offline : BOOLEAN, root : AllRoots \cup {None},
            state : States \cup {None}, updates : Nat, candidate : AllRoots \cup {None},
            catalog : Catalogs \cup {None}]

TypeInv ==
  /\ history \in [Versions -> AllRoots \cup {None}]
  /\ \A v \in Versions : history[v] # None => history[v].version = v
  /\ day \in Int
  /\ state \in States \cup {None}
  /\ cached \in Catalogs \cup {None}
  /\ accepted \in [root : AllRoots, catalog : Catalogs] \cup {None}
  /\ proc \in [Procs -> ProcRec]

\* The root is the package's, or its payload is in the history.
Rooted(h, r) ==
  \/ r = Bootstrap
  \/ r.version > Bootstrap.version /\ h[r.version] # None /\ h[r.version].sha = r.sha

\* A rooted one's keys have signed it.
Signed(h, r) ==
  \E q \in AllRoots : Rooted(h, q) /\ r.version = q.version + 1 /\ RoleSigned(q.root, r)

Chained(h, r) == r = Bootstrap \/ (Rooted(h, r) /\ Signed(h, r))

\* The history has every root between the package's and this one.
Reaches(h, r) ==
  \A v \in (Bootstrap.version + 1)..r.version : v \in Versions /\ h[v] # None

\* The history continues the package's root, and does not contradict it.
HistoryInv ==
  \A v \in Versions : history[v] # None =>
    \/ v = Bootstrap.version /\ history[v].sha = Bootstrap.sha
    \/ v > Bootstrap.version /\ Signed(history, history[v])

\* What a refresh has established by its stage.  A root that is still to be
\* stored is signed by the trusted one; only the package's root is ever stored
\* under the version of the trusted one.
StageInv(h, stage, r) ==
  /\ stage # "idle" => r.root # None
  /\ r.root # None => Chained(h, r.root) /\ Reaches(h, r.root)
  /\ stage = "store" =>
       /\ r.candidate # None
       /\ \/ r.candidate.version = r.root.version + 1 /\ RoleSigned(r.root.root, r.candidate)
          \/ r.root = Bootstrap /\ r.candidate.version = Bootstrap.version
                                /\ r.candidate.sha = Bootstrap.sha
  /\ stage \in {"cache", "accept"} =>
       r.catalog # None /\ NotRolledBack(r.state, r.root, r.catalog)

Inv ==
  /\ TypeInv
  /\ HistoryInv
  /\ \A p \in Procs : StageInv(history, proc[p].pc, proc[p])
  /\ state # None => Chained(history, state.root) /\ Reaches(history, state.root)
  /\ accepted # None => Chained(history, accepted.root)

USE DEF At, records

-----------------------------------------------------------------------------
(* Roots *)

\* The package's root is an envelope, and no envelope is None.
LEMMA BootstrapRoot ==
  /\ Bootstrap \in AllRoots /\ Bootstrap # None
  /\ \A r \in AllRoots : r # None /\ r.version \in Nat /\ r.version \in Versions
BY NoneIsNoEnvelope, EnvelopeAssumption DEF AllRoots, Versions

\* A version is trusted with one payload.
LEMMA OnePayload ==
  ASSUME NEW h, NEW q \in AllRoots, NEW r \in AllRoots,
         Rooted(h, q), Rooted(h, r), q.version = r.version
  PROVE  q.root = r.root
BY BootstrapRoot, RootsAssumption DEF Rooted

\* A later history that keeps the payloads of an earlier one keeps what is
\* said of its roots.
Extends(h, g) ==
  \A v \in Versions : h[v] # None => g[v] # None /\ g[v].sha = h[v].sha

\* A root that is rooted stays so.
LEMMA RootedStays ==
  ASSUME NEW h, NEW g, NEW r \in AllRoots, Extends(h, g), Rooted(h, r)
  PROVE  Rooted(g, r)
BY BootstrapRoot DEF Extends, Rooted

\* A signature by a rooted root stays one.
LEMMA SignedStays ==
  ASSUME NEW h, NEW g, NEW r \in AllRoots, Extends(h, g), Signed(h, r)
  PROVE  Signed(g, r)
BY RootedStays DEF Signed

\* What the invariant says of a root stays true in a later history.
LEMMA RootStays ==
  ASSUME NEW h, NEW g, NEW r \in AllRoots, Extends(h, g)
  PROVE  /\ Chained(h, r) => Chained(g, r)
         /\ Reaches(h, r) => Reaches(g, r)
<1>1. Chained(h, r) => Chained(g, r)
  BY RootedStays, SignedStays DEF Chained
<1>2. Reaches(h, r) => Reaches(g, r)
  BY DEF Reaches, Extends
<1> QED BY <1>1, <1>2

\* What a refresh has established stays true in a later history.
LEMMA StageStays ==
  ASSUME NEW h, NEW g, NEW r \in ProcRec, NEW stage, Extends(h, g), StageInv(h, stage, r)
  PROVE  StageInv(g, stage, r)
<1>1. r.root # None => r.root \in AllRoots
  BY DEF ProcRec
<1> QED BY <1>1, RootStays DEF StageInv

\* A root that follows a chained one in the history is chained.
LEMMA NextChained ==
  ASSUME NEW h, NEW q \in AllRoots, NEW r \in AllRoots,
         Chained(h, q), Reaches(h, q),
         r.version = q.version + 1, RoleSigned(q.root, r),
         h[r.version] # None, h[r.version].sha = r.sha
  PROVE  Chained(h, r) /\ Reaches(h, r)
<1>1. Rooted(h, q)
  BY DEF Chained, Rooted
<1>2. q.version >= Bootstrap.version
  BY <1>1, BootstrapRoot DEF Rooted
<1>3. Rooted(h, r)
  BY <1>2, BootstrapRoot DEF Rooted
<1>4. Chained(h, r)
  BY <1>1, <1>3 DEF Chained, Signed
<1>5. Reaches(h, r)
  <2> SUFFICES ASSUME NEW v \in (Bootstrap.version + 1)..r.version
               PROVE  v \in Versions /\ h[v] # None
    BY DEF Reaches
  <2>1. v = r.version \/ v \in (Bootstrap.version + 1)..q.version
    BY BootstrapRoot
  <2> QED BY <2>1, BootstrapRoot DEF Reaches
<1> QED BY <1>4, <1>5

-----------------------------------------------------------------------------
(* Steps *)

\* A step of process p that leaves the records that were accepted alone keeps
\* the invariant when p's new record satisfies its part.
LEMMA ProcStep ==
  ASSUME Inv, NEW p \in Procs, NEW r \in ProcRec,
         proc' = [proc EXCEPT ![p] = r],
         cached' \in Catalogs \cup {None},
         UNCHANGED <<history, day, state, accepted>>,
         StageInv(history, r.pc, r)
  PROVE  Inv'
<1>1. TypeInv'
  BY DEF Inv, TypeInv
<1>2. \A q \in Procs : StageInv(history, proc'[q].pc, proc'[q])
  BY DEF Inv, TypeInv
<1>3. HistoryInv'
  BY DEF Inv, HistoryInv, Signed, Rooted
<1> QED
  BY <1>1, <1>2, <1>3 DEF Inv

\* A process that enters a stage keeps the shape of its record and what the
\* stages share.
LEMMA EnteringRec ==
  ASSUME NEW r \in ProcRec, NEW stage \in Stages
  PROVE  LET s == Entering(stage, r)
         IN  /\ s \in ProcRec
             /\ s.pc = stage /\ s.root = r.root /\ s.candidate = r.candidate
             /\ s.catalog = r.catalog /\ s.state = r.state
<1> DEFINE u == IF stage \in {"roots", "store"} THEN r.updates ELSE 0
           o == IF stage \in {"replay", "load"} THEN r.offline ELSE FALSE
<1>1. u \in Nat
  BY DEF ProcRec
<1>2. o \in BOOLEAN
  BY Zenon DEF ProcRec
<1>3. Entering(stage, r) = [r EXCEPT !.pc = stage, !.updates = u, !.offline = o]
  BY DEF Entering, ProcRec
<1> HIDE DEF u, o
<1> QED
  BY <1>1, <1>2, <1>3 DEF ProcRec

\* ProcStep, for a step that Step describes.
LEMMA StepKeeps ==
  ASSUME Inv, NEW p \in Procs, NEW stage \in Stages, NEW r \in ProcRec,
         Step(p, stage, r),
         cached' \in Catalogs \cup {None},
         UNCHANGED <<history, day, state, accepted>>,
         StageInv(history, stage, r)
  PROVE  Inv'
<1> DEFINE s == Entering(stage, r)
<1>1. s \in ProcRec
  BY EnteringRec
<1>2. StageInv(history, s.pc, s)
  BY EnteringRec DEF StageInv, ProcRec
<1> HIDE DEF s
<1>3. proc' = [proc EXCEPT ![p] = s]
  BY DEF Step, s
<1> QED
  BY <1>1, <1>2, <1>3, ProcStep

\* An idle process has established nothing.
LEMMA IdleRec == Idle \in ProcRec /\ StageInv(history, "idle", Idle)
BY BootstrapRoot DEF Idle, ProcRec, Stages, StageInv

\* The first refresh finds an empty cache: the invariant holds.
LEMMA InitKeeps == Init => Inv
<1> SUFFICES ASSUME Init PROVE Inv
  OBVIOUS
<1>1. TypeInv
  BY IdleRec DEF Init, TypeInv
<1>2. \A p \in Procs : StageInv(history, proc[p].pc, proc[p])
  <2>1. Idle.pc = "idle" /\ \A p \in Procs : proc[p] = Idle
    BY DEF Init, Idle
  <2>2. StageInv(history, "idle", Idle)
    BY IdleRec
  <2> QED BY <2>1, <2>2
<1> QED
  BY <1>1, <1>2 DEF Init, Inv, HistoryInv

\* A refresh starts from the package's root.
LEMMA StartKeeps ==
  ASSUME Inv, NEW p \in Procs, NEW offline \in BOOLEAN, Start(p, offline)
  PROVE  Inv'
<1> DEFINE r == [Idle EXCEPT !.offline = offline, !.root = Bootstrap]
<1>1. r \in ProcRec
  BY IdleRec, BootstrapRoot DEF ProcRec, Idle
<1>2. r.root = Bootstrap /\ r.pc = "idle"
  BY DEF Idle
<1>3. Chained(history, Bootstrap) /\ Reaches(history, Bootstrap)
  BY BootstrapRoot DEF Chained, Reaches
<1> HIDE DEF r
<1>4. StageInv(history, "replay", r)
  BY <1>1, <1>2, <1>3, BootstrapRoot DEF StageInv, ProcRec
<1> QED
  BY <1>1, <1>4, StepKeeps DEF Start, r, Stages, Inv, TypeInv

\* A root replayed from its file is chained to the one before it.
LEMMA ReplayRootKeeps ==
  ASSUME Inv, NEW p \in Procs, ReplayRoot(p, day), UNCHANGED records
  PROVE  Inv'
<1> DEFINE old == proc[p]
           next == history[NextFile(p)]
           r == [old EXCEPT !.root = next]
<1>1. old \in ProcRec /\ StageInv(history, old.pc, old) /\ old.pc = "replay"
  BY DEF Inv, TypeInv, ReplayRoot
<1>2. old.root \in AllRoots /\ Chained(history, old.root) /\ Reaches(history, old.root)
  BY <1>1 DEF StageInv, ProcRec
<1>3. next \in AllRoots /\ next.version = old.root.version + 1
      /\ RoleSigned(old.root.root, next)
  BY DEF ReplayRoot, NextMissing, VerifyRootUpdate, Inv, TypeInv
<1>4. history[next.version] = next
  BY <1>3 DEF NextFile
<1>5. Chained(history, next) /\ Reaches(history, next)
  BY <1>2, <1>3, <1>4, NextChained, BootstrapRoot
<1> HIDE DEF old, next
<1>6. r \in ProcRec
  BY <1>1, <1>3 DEF ProcRec
<1>7. StageInv(history, "replay", r)
  <2>1. r.root = next
    BY <1>1 DEF ProcRec
  <2> HIDE DEF r
  <2> QED BY <1>3, <1>5, <2>1, BootstrapRoot DEF StageInv
<1> QED
  BY <1>6, <1>7, StepKeeps DEF ReplayRoot, old, next, Stages, Inv, TypeInv

\* The replay ends at the trusted root.
LEMMA EndReplayKeeps ==
  ASSUME Inv, NEW p \in Procs, EndReplay(p, "load"), UNCHANGED records
  PROVE  Inv'
<1>1. proc[p] \in ProcRec /\ StageInv(history, "load", proc[p])
  BY DEF Inv, TypeInv, EndReplay, StageInv, ProcRec
<1> QED
  BY <1>1, StepKeeps DEF EndReplay, Stages, Inv, TypeInv

\* A refresh that is served no newer root goes on with the one it has.
LEMMA RootsNotFoundKeeps ==
  ASSUME Inv, NEW p \in Procs, RootsNotFound(p, "catalog"), UNCHANGED records
  PROVE  Inv'
<1>1. proc[p] \in ProcRec /\ StageInv(history, "catalog", proc[p])
  BY DEF Inv, TypeInv, RootsNotFound, StageInv, ProcRec
<1> QED
  BY <1>1, StepKeeps DEF RootsNotFound, Stages, Inv, TypeInv

\* A refresh that the network fails goes on with what it has.
LEMMA NetworkErrorKeeps ==
  ASSUME Inv, NEW p \in Procs, NetworkError(p)
  PROVE  Inv'
<1>1. proc[p] \in ProcRec /\ StageInv(history, "fallback", proc[p])
  BY DEF Inv, TypeInv, NetworkError, StageInv, ProcRec
<1> QED
  BY <1>1, StepKeeps DEF NetworkError, Stages, Inv, TypeInv

\* FetchRoot takes a root that the history has, or leaves it to be stored.
LEMMA FetchRootKeeps ==
  ASSUME Inv, NEW p \in Procs, NEW r \in AllRoots, FetchRoot(p, r, day), UNCHANGED records
  PROVE  Inv'
<1> DEFINE old == proc[p]
           kept == [old EXCEPT !.root = Trusted(old.root, r), !.updates = old.updates + 1]
           stored == [old EXCEPT !.candidate = r, !.updates = old.updates + 1]
<1>1. old \in ProcRec /\ StageInv(history, old.pc, old) /\ old.pc = "roots"
  BY DEF Inv, TypeInv, FetchRoot
<1>2. old.root \in AllRoots /\ old.root # None
      /\ Chained(history, old.root) /\ Reaches(history, old.root)
  BY <1>1 DEF StageInv, ProcRec
<1>3. \/ r.version = old.root.version + 1 /\ RoleSigned(old.root.root, r)
      \/ r.version = old.root.version /\ r.sha = old.root.sha
  BY DEF FetchRoot, Served, VerifyRootUpdate, SameRoot
<1>4. history[r.version] \in {None, r}
  BY DEF FetchRoot
<1>5. KeepOrStore(p, r) /\ UNCHANGED <<history, day, state, cached, accepted>>
  BY DEF FetchRoot
<1>6. cached' \in Catalogs \cup {None}
  BY <1>5 DEF Inv, TypeInv
<1>7. CASE history[r.version] = r
  <2>1. Step(p, "roots", kept)
    BY <1>5, <1>7 DEF KeepOrStore
  <2>2. /\ Trusted(old.root, r) \in AllRoots /\ Trusted(old.root, r) # None
        /\ Chained(history, Trusted(old.root, r)) /\ Reaches(history, Trusted(old.root, r))
    <3> HIDE DEF old
    <3>1. CASE r.version = old.root.version
      BY <1>2, <3>1 DEF Trusted
    <3>2. CASE r.version # old.root.version
      <4>1. Trusted(old.root, r) = r
        BY <3>2 DEF Trusted
      <4>2. Chained(history, r) /\ Reaches(history, r)
        BY <1>2, <1>3, <1>7, <3>2, NextChained, BootstrapRoot
      <4> QED BY <4>1, <4>2, BootstrapRoot
    <3> QED BY <3>1, <3>2
  <2>3. kept \in ProcRec /\ StageInv(history, "roots", kept)
    <3> HIDE DEF old
    <3> DEFINE root == Trusted(old.root, r)
    <3> HIDE DEF root
    <3>1. root \in AllRoots /\ root # None /\ Chained(history, root) /\ Reaches(history, root)
      BY <2>2 DEF root
    <3>2. old \in ProcRec /\ old.updates + 1 \in Nat
      BY <1>1 DEF ProcRec
    <3> DEFINE n == old.updates + 1
    <3>4. n \in Nat /\ kept = [old EXCEPT !.root = root, !.updates = n]
      BY <3>2 DEF root
    <3> HIDE DEF n, kept
    <3>3. kept \in ProcRec /\ kept.root = root
      BY <3>1, <3>2, <3>4 DEF ProcRec
    <3> QED BY <3>1, <3>3 DEF StageInv
  <2> QED
    BY <1>5, <1>6, <2>1, <2>3, StepKeeps DEF Stages
<1>8. CASE history[r.version] # r
  <2>1. Step(p, "store", stored)
    BY <1>5, <1>8 DEF KeepOrStore
  <2>2. \/ r.version = old.root.version + 1 /\ RoleSigned(old.root.root, r)
        \/ old.root = Bootstrap /\ r.version = Bootstrap.version /\ r.sha = Bootstrap.sha
    <3> HIDE DEF old
    <3>1. CASE old.root = Bootstrap
      BY <1>3, <3>1
    <3>2. CASE old.root # Bootstrap
      BY <1>2, <1>3, <1>4, <1>8, <3>2 DEF Chained, Rooted
    <3> QED BY <3>1, <3>2
  <2>3. stored \in ProcRec /\ StageInv(history, "store", stored)
    <3> HIDE DEF old
    <3>0. old \in ProcRec /\ old.updates + 1 \in Nat
      BY <1>1 DEF ProcRec
    <3> DEFINE n == old.updates + 1
    <3>2. n \in Nat /\ stored = [old EXCEPT !.candidate = r, !.updates = n]
      BY <3>0
    <3> HIDE DEF n, stored
    <3>1. stored \in ProcRec /\ stored.root = old.root /\ stored.candidate = r
      BY <3>0, <3>2 DEF ProcRec
    <3> QED BY <1>2, <2>2, <3>1, BootstrapRoot DEF StageInv
  <2> QED
    BY <1>5, <1>6, <2>1, <2>3, StepKeeps DEF Stages
<1> QED BY <1>7, <1>8

\* StoreRoot replaces a file by one of the same payload, or extends the
\* history by a successor of the trusted root.
LEMMA StoreRootKeeps ==
  ASSUME Inv, NEW p \in Procs, StoreRoot(p), UNCHANGED records
  PROVE  Inv'
<1> DEFINE old == proc[p]
           c == old.candidate
           next == Trusted(old.root, c)
           r == [old EXCEPT !.root = next, !.candidate = None]
           s == Entering("roots", r)
<1>1. old \in ProcRec /\ StageInv(history, "store", old)
  BY DEF Inv, TypeInv, StoreRoot
<1>2. /\ old.root \in AllRoots /\ c \in AllRoots
      /\ Chained(history, old.root) /\ Reaches(history, old.root)
  BY <1>1 DEF StageInv, ProcRec
<1>3. \/ c.version = old.root.version + 1 /\ RoleSigned(old.root.root, c)
      \/ old.root = Bootstrap /\ c.version = Bootstrap.version /\ c.sha = Bootstrap.sha
  BY <1>1 DEF StageInv
<1>4. /\ history' = [history EXCEPT ![c.version] = c] /\ proc' = [proc EXCEPT ![p] = s]
      /\ UNCHANGED <<day, state, cached, accepted>>
  BY DEF StoreRoot, Step
<1> HIDE DEF old, c
<1>5. Rooted(history, old.root) /\ old.root.version >= Bootstrap.version
  BY <1>2, BootstrapRoot DEF Chained, Rooted
<1>6. /\ history' \in [Versions -> AllRoots \cup {None}]
      /\ \A v \in Versions : history'[v] = IF v = c.version THEN c ELSE history[v]
      /\ c.version \in Versions /\ c # None
  BY <1>2, <1>4, BootstrapRoot DEF Inv, TypeInv
<1>7. Extends(history, history')
  <2> SUFFICES ASSUME history[c.version] # None
               PROVE  history[c.version].sha = c.sha
    BY <1>6 DEF Extends
  <2> DEFINE h == history[c.version]
  <2>1. h \in AllRoots /\ h.version = c.version
    BY <1>6 DEF Inv, TypeInv
  <2>2. \/ h.version = Bootstrap.version /\ h.sha = Bootstrap.sha
        \/ h.version > Bootstrap.version /\ Signed(history, h)
    BY <1>6, <2>1 DEF Inv, HistoryInv
  <2> HIDE DEF h
  <2>3. CASE h.version = Bootstrap.version /\ h.sha = Bootstrap.sha
    BY <1>2, <1>3, <1>5, <2>1, <2>3, BootstrapRoot DEF h
  <2>4. CASE h.version > Bootstrap.version /\ Signed(history, h)
    <3>1. PICK q \in AllRoots : /\ Rooted(history, q) /\ h.version = q.version + 1
                                /\ RoleSigned(q.root, h)
      BY <2>4 DEF Signed
    <3>2. c.version = old.root.version + 1 /\ RoleSigned(old.root.root, c)
      BY <1>3, <2>1, <2>4, BootstrapRoot
    <3>3. q.version = old.root.version
      <4>1. q.version \in Nat /\ old.root.version \in Nat
        BY <1>2, BootstrapRoot
      <4>2. q.version + 1 = old.root.version + 1
        BY <2>1, <3>1, <3>2
      <4> QED BY <4>1, <4>2
    <3>4. q.root = old.root.root
      BY <1>2, <1>5, <3>1, <3>3, OnePayload
    <3>5. h.version = old.root.version + 1 /\ RoleSigned(old.root.root, h)
      BY <2>1, <3>1, <3>2, <3>4
    <3>6. h.sha = c.sha
      BY <1>2, <2>1, <3>2, <3>5, RootsAssumption
    <3> QED BY <3>6 DEF h
  <2> QED BY <2>2, <2>3, <2>4
<1>8. HistoryInv'
  <2> SUFFICES ASSUME NEW v \in Versions, history'[v] # None
               PROVE  \/ v = Bootstrap.version /\ history'[v].sha = Bootstrap.sha
                      \/ v > Bootstrap.version /\ Signed(history', history'[v])
    BY DEF HistoryInv
  <2>1. CASE v = c.version
    <3>1. CASE c.version = old.root.version + 1 /\ RoleSigned(old.root.root, c)
      <4>1. Signed(history', c)
        BY <1>2, <1>5, <1>7, <3>1, RootedStays DEF Signed
      <4> QED BY <1>2, <1>5, <1>6, <2>1, <3>1, <4>1, BootstrapRoot
    <3>2. CASE old.root = Bootstrap /\ c.version = Bootstrap.version /\ c.sha = Bootstrap.sha
      BY <1>6, <2>1, <3>2
    <3> QED BY <1>3, <3>1, <3>2
  <2>2. CASE v # c.version
    <3>1. history'[v] = history[v] /\ history[v] \in AllRoots
      BY <1>6, <2>2 DEF Inv, TypeInv
    <3> QED BY <1>7, <3>1, SignedStays DEF Inv, HistoryInv
  <2> QED BY <2>1, <2>2
<1>9. next \in AllRoots /\ Chained(history', next) /\ Reaches(history', next)
  <2>1. CASE c.version = old.root.version
    BY <1>2, <1>7, <2>1, RootStays DEF Trusted
  <2>2. CASE c.version # old.root.version
    <3>1. next = c
      BY <2>2 DEF Trusted
    <3>2. c.version = old.root.version + 1 /\ RoleSigned(old.root.root, c)
      BY <1>3, <2>2
    <3>3. Chained(history', old.root) /\ Reaches(history', old.root)
      BY <1>2, <1>7, RootStays
    <3>4. history'[c.version] = c
      BY <1>6
    <3> QED BY <1>2, <1>6, <3>1, <3>2, <3>3, <3>4, NextChained
  <2> QED BY <2>1, <2>2
<1> HIDE DEF next
<1>10. r \in ProcRec /\ r.root = next
  BY <1>1, <1>9 DEF ProcRec
<1> HIDE DEF r
<1>11. s \in ProcRec /\ s.pc = "roots" /\ s.root = next
  BY <1>10, EnteringRec DEF Stages
<1> HIDE DEF s
<1>12. StageInv(history', s.pc, s)
  BY <1>9, <1>11, BootstrapRoot DEF StageInv
<1>13. TypeInv'
  <2>1. proc' \in [Procs -> ProcRec]
    BY <1>4, <1>11 DEF Inv, TypeInv
  <2>2. \A v \in Versions : history'[v] # None => history'[v].version = v
    BY <1>6 DEF Inv, TypeInv
  <2> QED BY <1>4, <1>6, <2>1, <2>2 DEF Inv, TypeInv
<1>14. \A q \in Procs : StageInv(history', proc'[q].pc, proc'[q])
  <2> TAKE q \in Procs
  <2>1. CASE q = p
    BY <1>4, <1>12, <2>1 DEF Inv, TypeInv
  <2>2. CASE q # p
    <3>1. proc'[q] = proc[q] /\ proc[q] \in ProcRec
      BY <1>4, <2>2 DEF Inv, TypeInv
    <3> QED BY <1>7, <3>1, StageStays DEF Inv
  <2> QED BY <2>1, <2>2
<1>15. /\ (state # None => Chained(history, state.root) /\ Reaches(history, state.root))'
       /\ (accepted # None => Chained(history, accepted.root))'
  <2>1. /\ state # None => state.root \in AllRoots
        /\ accepted # None => accepted.root \in AllRoots
    BY DEF Inv, TypeInv, States
  <2> QED BY <1>4, <1>7, <2>1, RootStays DEF Inv
<1> QED BY <1>8, <1>13, <1>14, <1>15 DEF Inv

\* The state that is read has the shape of the recorded one.
LEMMA LoadStateKeeps ==
  ASSUME Inv, NEW p \in Procs, LoadState(p)
  PROVE  Inv'
<1> DEFINE old == proc[p]
           stage == IF old.offline THEN "fallback" ELSE "roots"
           r == [old EXCEPT !.state = state]
<1>1. /\ old \in ProcRec /\ old.root # None
      /\ Chained(history, old.root) /\ Reaches(history, old.root)
  BY DEF Inv, TypeInv, StageInv, LoadState
<1>2. Step(p, stage, r) /\ UNCHANGED <<history, day, state, cached, accepted>>
  BY DEF LoadState
<1>3. stage \in Stages /\ stage \notin {"idle", "store", "cache", "accept"}
  BY DEF Stages
<1> HIDE DEF old, stage
<1>4. r \in ProcRec /\ r.root = old.root
  BY <1>1 DEF ProcRec, Inv, TypeInv
<1> HIDE DEF r
<1>5. StageInv(history, stage, r)
  BY <1>1, <1>3, <1>4 DEF StageInv
<1> QED
  BY <1>2, <1>3, <1>4, <1>5, StepKeeps DEF Inv, TypeInv

\* A catalog that was checked against the state that was read.
LEMMA CheckedCatalog ==
  ASSUME Inv, NEW p \in Procs, NEW c \in Catalogs, NEW stage \in {"cache", "accept"},
         proc[p].pc # "idle", NotRolledBack(proc[p].state, proc[p].root, c),
         Step(p, stage, [proc[p] EXCEPT !.catalog = c]),
         UNCHANGED <<history, day, state, cached, accepted>>
  PROVE  Inv'
<1> DEFINE old == proc[p]
           r == [old EXCEPT !.catalog = c]
<1>1. /\ old \in ProcRec /\ old.root # None
      /\ Chained(history, old.root) /\ Reaches(history, old.root)
  BY DEF Inv, TypeInv, StageInv
<1>2. Step(p, stage, r) /\ NotRolledBack(old.state, old.root, c)
  OBVIOUS
<1> HIDE DEF old
<1>3. r \in ProcRec /\ r.root = old.root /\ r.state = old.state /\ r.catalog = c
  BY <1>1 DEF ProcRec
<1> HIDE DEF r
<1>4. c # None
  BY NoneIsNoEnvelope
<1>5. StageInv(history, stage, r)
  BY <1>1, <1>2, <1>3, <1>4 DEF StageInv
<1> QED
  BY <1>2, <1>3, <1>5, StepKeeps DEF Stages, Inv, TypeInv

\* A fetched catalog was checked.
LEMMA FetchCatalogKeeps ==
  ASSUME Inv, NEW p \in Procs, NEW c \in Catalogs, FetchCatalog(p, c)
  PROVE  Inv'
BY CheckedCatalog DEF FetchCatalog

\* A cached catalog is checked as a fetched one is.
LEMMA LoadCachedKeeps ==
  ASSUME Inv, NEW p \in Procs, LoadCached(p)
  PROVE  Inv'
<1>1. cached \in Catalogs
  BY DEF LoadCached, Inv, TypeInv
<1> QED BY <1>1, CheckedCatalog DEF LoadCached

\* The catalog that is cached is the one that was checked.
LEMMA CacheCatalogKeeps ==
  ASSUME Inv, NEW p \in Procs, CacheCatalog(p)
  PROVE  Inv'
<1>1. proc[p] \in ProcRec /\ StageInv(history, "accept", proc[p])
  BY DEF Inv, TypeInv, CacheCatalog, StageInv
<1>2. cached' \in Catalogs \cup {None}
  BY <1>1 DEF CacheCatalog, ProcRec
<1> QED
  BY <1>1, <1>2, StepKeeps DEF CacheCatalog, Stages

\* A process that stops has nothing left to establish.
LEMMA StopKeeps ==
  ASSUME Inv, NEW p \in Procs, proc' = [proc EXCEPT ![p] = Idle], history' = history
  PROVE  /\ proc' \in [Procs -> ProcRec]
         /\ \A q \in Procs : StageInv(history', proc'[q].pc, proc'[q])
<1>1. Idle \in ProcRec /\ Idle.pc = "idle" /\ StageInv(history, "idle", Idle)
  BY IdleRec DEF Idle
<1> QED BY <1>1 DEF Inv, TypeInv

\* Accept records the root and the catalog that the process holds.
LEMMA AcceptKeeps ==
  ASSUME Inv, NEW p \in Procs, Accept(p)
  PROVE  Inv'
<1> DEFINE old == proc[p]
<1>1. /\ old \in ProcRec /\ old.root \in AllRoots /\ old.catalog \in Catalogs
      /\ Chained(history, old.root) /\ Reaches(history, old.root)
  BY DEF Inv, TypeInv, StageInv, Accept, ProcRec
<1>2. AcceptedAt(old.state) \in Int
  <2>1. old.state \in States \cup {None} /\ day \in Int
    BY <1>1 DEF ProcRec, Inv, TypeInv
  <2> QED BY <2>1 DEF AcceptedAt, Later, States
<1>3. /\ state' = [root |-> old.root, catalog |-> old.catalog,
                   acceptedAt |-> AcceptedAt(old.state)]
      /\ accepted' = [root |-> old.root, catalog |-> old.catalog]
      /\ UNCHANGED <<history, day, cached>> /\ proc' = [proc EXCEPT ![p] = Idle]
  BY DEF Accept
<1> HIDE DEF old
<1>4. state' \in States /\ accepted' \in [root : AllRoots, catalog : Catalogs]
  BY <1>1, <1>2, <1>3 DEF States
<1>5. TypeInv'
  BY <1>3, <1>4, StopKeeps DEF Inv, TypeInv
<1>6. HistoryInv'
  BY <1>3 DEF Inv, HistoryInv, Signed, Rooted
<1>7. state'.root = old.root /\ accepted'.root = old.root
  BY <1>3
<1> QED BY <1>1, <1>3, <1>5, <1>6, <1>7, StopKeeps DEF Inv

\* A refresh that fails, or dies, leaves the records as they are.
LEMMA FailKeeps ==
  ASSUME Inv, NEW p \in Procs, Fail(p)
  PROVE  Inv'
<1>1. TypeInv'
  BY StopKeeps DEF Fail, Inv, TypeInv
<1>2. HistoryInv'
  BY DEF Fail, Inv, HistoryInv, Signed, Rooted
<1> QED BY <1>1, <1>2, StopKeeps DEF Fail, Inv

\* The records do not depend on the clock.
LEMMA ClockKeeps ==
  ASSUME Inv, day' \in Int, UNCHANGED <<history, proc, records>>
  PROVE  Inv'
<1>1. TypeInv'
  BY DEF Inv, TypeInv
<1>2. HistoryInv'
  BY DEF Inv, HistoryInv, Signed, Rooted
<1> QED BY <1>1, <1>2 DEF Inv

\* Every step keeps the invariant.
LEMMA NextKeeps ==
  ASSUME Inv, [Next]_vars
  PROVE  Inv'
<1>1. CASE Clock /\ UNCHANGED records
  BY <1>1, EnvelopeAssumption, ClockKeeps DEF Clock
<1>2. ASSUME NEW p \in Procs, RefreshRoots(p), UNCHANGED records
      PROVE  Inv'
  BY <1>2, ReplayRootKeeps, EndReplayKeeps, FetchRootKeeps, StoreRootKeeps, RootsNotFoundKeeps
  DEF RefreshRoots
<1>3. ASSUME NEW p \in Procs,
             (\E offline \in BOOLEAN : Start(p, offline)) \/ LoadState(p) \/ NetworkError(p)
      PROVE  Inv'
  BY <1>3, StartKeeps, LoadStateKeeps, NetworkErrorKeeps
<1>4. ASSUME NEW p \in Procs,
             \/ \E c \in Catalogs : FetchCatalog(p, c)
             \/ CacheCatalog(p) \/ LoadCached(p) \/ Accept(p) \/ Fail(p)
      PROVE  Inv'
  BY <1>4, FetchCatalogKeeps, CacheCatalogKeeps, LoadCachedKeeps, AcceptKeeps, FailKeeps
<1>5. CASE UNCHANGED vars
  BY <1>5, ClockKeeps DEF vars, Inv, TypeInv
<1> QED BY <1>1, <1>2, <1>3, <1>4, <1>5 DEF Next

\* The inductive invariant holds.
LEMMA Invariant == Spec => []Inv
BY InitKeeps, NextKeeps, PTL DEF Spec

-----------------------------------------------------------------------------
(* Theorems *)

\* A chained root is linked to the file its predecessor is replayed from.
LEMMA ChainedLinked ==
  ASSUME Inv, NEW r \in AllRoots, Chained(history, r)
  PROVE  Linked(r)
<1>1. CASE r = Bootstrap
  BY <1>1 DEF Linked
<1>2. CASE r # Bootstrap
  <2>1. PICK q \in AllRoots : /\ Rooted(history, q) /\ r.version = q.version + 1
                              /\ RoleSigned(q.root, r)
    BY <1>2 DEF Chained, Signed
  <2>2. CASE q = Bootstrap
    BY <2>1, <2>2, BootstrapRoot DEF Linked
  <2>3. CASE q # Bootstrap
    <3> DEFINE s == history[q.version]
    <3>1. s \in AllRoots /\ s.version = q.version /\ s.sha = q.sha
      BY <2>1, <2>3, BootstrapRoot DEF Rooted, Inv, TypeInv
    <3>2. s.root = q.root /\ history[s.version] = s
      BY <3>1, RootsAssumption
    <3> HIDE DEF s
    <3> QED BY <2>1, <3>1, <3>2 DEF Linked
  <2> QED BY <2>2, <2>3
<1> QED BY <1>1, <1>2

\* RefreshChannel never trusts, stores for replay or accepts a root that does
\* not descend from the package's bootstrap root.
THEOREM RootsLinkedHolds == Spec => []RootsLinked
<1>1. ASSUME Inv PROVE RootsLinked
  <2>1. ASSUME NEW v \in Versions, v > Bootstrap.version, history[v] # None
        PROVE  Linked(history[v])
    <3>1. history[v] \in AllRoots /\ history[v].version = v
      BY <1>1, <2>1 DEF Inv, TypeInv
    <3>2. Signed(history, history[v])
      BY <1>1, <2>1, BootstrapRoot DEF Inv, HistoryInv
    <3>3. Chained(history, history[v])
      BY <2>1, <3>1, <3>2 DEF Chained, Rooted
    <3> QED BY <1>1, <3>1, <3>3, ChainedLinked
  <2>2. ASSUME NEW p \in Procs, proc[p].root # None
        PROVE  Linked(proc[p].root)
    <3>1. proc[p] \in ProcRec /\ Chained(history, proc[p].root)
      BY <1>1, <2>2 DEF Inv, TypeInv, StageInv
    <3>2. proc[p].root \in AllRoots
      BY <2>2, <3>1 DEF ProcRec
    <3> QED BY <1>1, <3>1, <3>2, ChainedLinked
  <2>3. ASSUME accepted # None
        PROVE  Linked(accepted.root)
    BY <1>1, <2>3, ChainedLinked DEF Inv, TypeInv
  <2> QED BY <2>1, <2>2, <2>3 DEF RootsLinked
<1> QED BY <1>1, Invariant, PTL

\* The root that state.json records can be replayed from the root history,
\* wherever refreshes were interrupted: loadChannelState's check of the next
\* refresh finds no trusted root behind the recorded one.
THEOREM HistoryReachesHolds == Spec => []HistoryReaches
<1>1. ASSUME Inv PROVE HistoryReaches
  <2> SUFFICES ASSUME state # None, NEW v \in (Bootstrap.version + 1)..state.root.version
               PROVE  /\ history[v] # None
                      /\ v = state.root.version => history[v].sha = state.root.sha
    BY DEF HistoryReaches
  <2>1. state.root \in AllRoots /\ Chained(history, state.root) /\ Reaches(history, state.root)
    BY <1>1 DEF Inv, TypeInv, States
  <2>2. state.root.version \in Nat /\ Bootstrap.version \in Nat
    BY <2>1, BootstrapRoot
  <2>3. history[v] # None
    BY <2>1 DEF Reaches
  <2>4. v = state.root.version => state.root # Bootstrap
    BY <2>2
  <2> QED BY <2>1, <2>3, <2>4 DEF Chained, Rooted
<1> QED BY <1>1, Invariant, PTL

\* A refresh that no other one overtook does not take the records back,
\* whatever was served, cached or stored meanwhile and however the clock moved.
THEOREM KeptUnlessOvertakenHolds == Spec => KeptUnlessOvertaken
<1> DEFINE Overtaken(p) == At(p, "accept") /\ proc'[p].pc = "idle" /\ proc[p].state = state
<1>1. ASSUME Inv, [Next]_vars, state' # state, NEW p \in Procs, Overtaken(p)
      PROVE  Kept
  <2> SUFFICES ASSUME state # None PROVE Kept
    BY DEF Kept
  <2>1. PICK q \in Procs : Accept(q)
    BY <1>1 DEF Next, vars, RefreshRoots, Clock, Start, LoadState, NetworkError,
                FetchCatalog, CacheCatalog, LoadCached, Fail
  <2>2. q = p
    <3>1. proc' = [proc EXCEPT ![q] = Idle]
      BY <2>1 DEF Accept
    <3> QED BY <1>1, <3>1 DEF Inv, TypeInv
  <2>3. NotRolledBack(state, proc[p].root, proc[p].catalog)
    BY <1>1 DEF Inv, StageInv
  <2>4. AcceptedAt(state) >= state.acceptedAt
    <3>1. state \in States /\ day \in Int
      BY <1>1 DEF Inv, TypeInv
    <3> QED BY <3>1 DEF AcceptedAt, Later, States
  <2>5. state' = [root |-> proc[p].root, catalog |-> proc[p].catalog,
                  acceptedAt |-> AcceptedAt(state)]
    BY <1>1, <2>1, <2>2 DEF Accept
  <2> QED BY <2>3, <2>4, <2>5 DEF Kept, NotRolledBack
<1>2. ASSUME Inv, [Next]_vars
      PROVE  [(\E p \in Procs : Overtaken(p)) => Kept]_state
  BY <1>1, <1>2
<1> QED
  BY <1>2, Invariant, PTL DEF Spec, KeptUnlessOvertaken

HIDE DEF At, records

-----------------------------------------------------------------------------
(* The download of an image *)

\* JobStages with a descriptor of the partial; after "lock" a resumable one is locked.
Locking == {"inspect", "transfer", "verify", "chmod", "close", "discard"}
Holding == Locking \cup {"lock"}
JobStages == Holding \cup {"idle", "open", "install", "remove", "remove again", "unlink"}

JobRec == [pc : JobStages, resume : BOOLEAN, replace : BOOLEAN, file : Files \cup {Nil}]
FileRec == [len : Nat, good : BOOLEAN, private : BOOLEAN, foreign : BOOLEAN]

JobTypeInv ==
  /\ file \in [Files -> FileRec]
  /\ part \in Files \cup {Nil}
  /\ dest \in Files \cup {Nil}
  /\ locked \in [Files -> Jobs \cup {Nil}]
  /\ job \in [Jobs -> JobRec]

\* What a command may rely on: a resumable partial by its lock, one with a
\* random name because nothing else refers to it.
CommandInv(p) ==
  /\ job[p].pc \in Holding => job[p].file \in Files
  /\ job[p].pc \in {"lock", "inspect"} => job[p].resume
  /\ job[p].pc \in Locking /\ job[p].resume => locked[job[p].file] = p
  /\ ~job[p].resume /\ job[p].file # Nil =>
       /\ job[p].file \notin {part, dest}
       /\ \A q \in Jobs \ {p} : job[q].file # job[p].file
  /\ job[p].pc = "transfer" => file[job[p].file].private

JobInv == JobTypeInv /\ \A p \in Jobs : CommandInv(p)

USE NilIsNoValue DEF JobAt

-----------------------------------------------------------------------------
\* Two commands that have passed the lock have different files.
LEMMA Exclusive ==
  ASSUME JobInv, NEW p \in Jobs, NEW q \in Jobs, p # q,
         job[p].pc \in Locking, job[q].pc \in Locking
  PROVE  job[p].file # job[q].file
<1>1. job[p].resume \in BOOLEAN /\ job[q].resume \in BOOLEAN
      /\ job[p].file \in Files /\ job[q].file \in Files
  BY DEF JobInv, JobTypeInv, JobRec, CommandInv, Holding
<1>2. CASE ~job[p].resume \/ ~job[q].resume
  BY <1>1, <1>2 DEF JobInv, CommandInv
<1>3. CASE job[p].resume /\ job[q].resume
  BY <1>1, <1>3 DEF JobInv, CommandInv
<1> QED BY <1>1, <1>2, <1>3

\* A step of one command: what it must establish of its own record, and what
\* it must leave to the others.
LEMMA OneCommand ==
  ASSUME JobInv, NEW p \in Jobs, NEW r \in JobRec,
         job' = [job EXCEPT ![p] = r],
         file' \in [Files -> FileRec],
         part' \in Files \cup {Nil}, dest' \in Files \cup {Nil},
         locked' \in [Files -> Jobs \cup {Nil}],
         \A q \in Jobs \ {p}, f \in Files : locked[f] = q => locked'[f] = q,
         \A q \in Jobs \ {p} : job[q].pc = "transfer" =>
           (file[job[q].file].private => file'[job[q].file].private),
         \A q \in Jobs \ {p} : ~job[q].resume /\ job[q].file # Nil =>
           job[q].file \notin {part', dest', r.file},
         r.pc \in Holding => r.file \in Files,
         r.pc \in {"lock", "inspect"} => r.resume,
         r.pc \in Locking /\ r.resume => locked'[r.file] = p,
         ~r.resume /\ r.file # Nil =>
           /\ r.file \notin {part', dest'}
           /\ \A q \in Jobs \ {p} : job[q].file # r.file,
         r.pc = "transfer" => file'[r.file].private
  PROVE  JobInv'
<1>1. job' \in [Jobs -> JobRec] /\ job'[p] = r /\ \A q \in Jobs \ {p} : job'[q] = job[q]
  BY DEF JobInv, JobTypeInv
<1>2. JobTypeInv'
  BY <1>1 DEF JobTypeInv
<1>3. CommandInv(p)'
  BY <1>1 DEF CommandInv
<1>4. ASSUME NEW q \in Jobs \ {p} PROVE CommandInv(q)'
  <2>1. CommandInv(q) /\ job[q] \in JobRec /\ job'[q] = job[q]
    BY <1>1, <1>4 DEF JobInv, JobTypeInv
  <2>2. job[q].pc \in Locking /\ job[q].resume => locked'[job[q].file] = q
    BY <2>1 DEF CommandInv, Holding
  <2>3. ~job[q].resume /\ job[q].file # Nil =>
          \A o \in Jobs \ {q} : job'[o].file # job[q].file
    BY <1>1, <2>1 DEF CommandInv
  <2> QED BY <2>1, <2>2, <2>3 DEF CommandInv
<1> QED BY <1>2, <1>3, <1>4 DEF JobInv

\* A step that only moves on to a stage with no more to rely on.
LEMMA GotoKeeps ==
  ASSUME JobInv, NEW p \in Jobs, NEW stage \in JobStages, Goto(p, stage),
         UNCHANGED <<file, part, dest, locked>>,
         stage \in Locking => job[p].pc \in Locking,
         stage = "inspect" => job[p].resume,
         stage = "transfer" => file[job[p].file].private,
         stage # "lock"
  PROVE  JobInv'
<1> DEFINE r == [job[p] EXCEPT !.pc = stage]
<1>1. r \in JobRec /\ r.pc = stage /\ r.file = job[p].file /\ r.resume = job[p].resume
  BY DEF JobInv, JobTypeInv, JobRec
<1>2. job' = [job EXCEPT ![p] = r]
  BY DEF Goto
<1> HIDE DEF r
<1>3. CommandInv(p) /\ job[p] \in JobRec
  BY DEF JobInv, JobTypeInv
<1>4. \A q \in Jobs \ {p} : ~job[q].resume /\ job[q].file # Nil =>
        job[q].file \notin {part, dest, r.file}
  BY <1>1 DEF JobInv, CommandInv
<1> QED BY <1>1, <1>2, <1>3, <1>4, OneCommand DEF JobInv, JobTypeInv, CommandInv, Holding, Locking

\* A command that ends, or whose descriptor the kernel closes.
LEMMA EndKeeps ==
  ASSUME JobInv, NEW p \in Jobs, End(p), UNCHANGED <<file, dest>>,
         part' = part \/ RemovePart(p),
         locked' = locked \/ Unlock(p)
  PROVE  JobInv'
<1>1. NoJob \in JobRec /\ NoJob.pc = "idle" /\ NoJob.file = Nil
  BY DEF NoJob, JobRec, JobStages
<1>2. job' = [job EXCEPT ![p] = NoJob]
  BY DEF End
<1>3. locked' \in [Files -> Jobs \cup {Nil}]
      /\ \A q \in Jobs \ {p}, f \in Files : locked[f] = q => locked'[f] = q
  BY DEF JobInv, JobTypeInv, Unlock
<1>4. part' \in {part, Nil}
  BY DEF RemovePart
<1>5. \A q \in Jobs \ {p} : ~job[q].resume /\ job[q].file # Nil =>
        job[q].file \notin {part', dest', NoJob.file}
  BY <1>1, <1>4 DEF JobInv, CommandInv
<1> QED BY <1>1, <1>2, <1>3, <1>4, <1>5, OneCommand DEF JobInv, JobTypeInv, Holding, Locking

\* A command that gives up its descriptor and its lock, and goes on.
LEMMA CloseKeeps ==
  ASSUME JobInv, NEW p \in Jobs, NEW stage \in {"install", "remove", "remove again"},
         job' = [job EXCEPT ![p].pc = stage, ![p].file = Nil], Unlock(p),
         UNCHANGED <<file, part, dest>>
  PROVE  JobInv'
<1> DEFINE r == [job[p] EXCEPT !.pc = stage, !.file = Nil]
<1>1. r \in JobRec /\ r.pc = stage /\ r.file = Nil
  BY DEF JobInv, JobTypeInv, JobRec, JobStages
<1>2. job' = [job EXCEPT ![p] = r]
  BY DEF JobInv, JobTypeInv
<1> HIDE DEF r
<1>3. locked' \in [Files -> Jobs \cup {Nil}]
      /\ \A q \in Jobs \ {p}, f \in Files : locked[f] = q => locked'[f] = q
  BY DEF JobInv, JobTypeInv, Unlock
<1>4. \A q \in Jobs \ {p} : ~job[q].resume /\ job[q].file # Nil =>
        job[q].file \notin {part, dest, r.file}
  BY <1>1 DEF JobInv, CommandInv
<1> QED BY <1>1, <1>2, <1>3, <1>4, OneCommand DEF JobInv, JobTypeInv, Holding, Locking

-----------------------------------------------------------------------------
(* The actions *)

\* A command begins with no descriptor.
LEMMA StartDownloadKeeps ==
  ASSUME JobInv, NEW p \in Jobs, NEW resume \in BOOLEAN, NEW replace \in BOOLEAN,
         StartDownload(p, resume, replace)
  PROVE  JobInv'
<1> DEFINE r == [pc |-> "open", resume |-> resume, replace |-> replace, file |-> Nil]
<1>1. r \in JobRec /\ r.pc = "open" /\ r.file = Nil
  BY DEF JobRec, JobStages
<1>2. job' = [job EXCEPT ![p] = r] /\ UNCHANGED <<file, part, dest, locked>>
  BY DEF StartDownload
<1> HIDE DEF r
<1>3. \A q \in Jobs \ {p} : ~job[q].resume /\ job[q].file # Nil =>
        job[q].file \notin {part, dest, r.file}
  BY <1>1 DEF JobInv, CommandInv
<1> QED BY <1>1, <1>2, <1>3, OneCommand DEF JobInv, JobTypeInv, Holding, Locking

\* A file that is created is free: no other command has it.
LEMMA CreateKeeps ==
  ASSUME JobInv, NEW p \in Jobs, NEW f \in Files, Create(p, f)
  PROVE  JobInv'
<1> DEFINE stage == IF job[p].resume THEN "lock" ELSE "transfer"
           r == [job[p] EXCEPT !.pc = stage, !.file = f]
<1>1. /\ stage \in {"lock", "transfer"} /\ stage \in JobStages
      /\ stage = "transfer" => ~job[p].resume
      /\ stage = "lock" => job[p].resume
  BY DEF JobStages, Holding, Locking
<1>2. /\ job' = [job EXCEPT ![p] = r] /\ UNCHANGED <<dest, locked>>
      /\ file' = [file EXCEPT ![f] = Empty]
      /\ part' = IF job[p].resume THEN f ELSE part
      /\ f \notin {part, dest} /\ \A q \in Jobs : job[q].file # f
  BY DEF Create, Free, JobInv, JobTypeInv
<1> HIDE DEF stage
<1>3. r \in JobRec /\ r.pc = stage /\ r.file = f /\ r.resume = job[p].resume
  BY <1>1 DEF JobInv, JobTypeInv, JobRec
<1> HIDE DEF r
<1>4. Empty \in FileRec /\ Empty.private
  BY DEF Empty, FileRec
<1>5. /\ file' \in [Files -> FileRec] /\ file'[f].private
      /\ \A g \in Files : g # f => file'[g] = file[g]
      /\ part' \in Files \cup {Nil} /\ dest \in Files \cup {Nil}
  BY <1>2, <1>4 DEF JobInv, JobTypeInv
<1>6. \A q \in Jobs \ {p} : job[q].pc = "transfer" =>
        (file[job[q].file].private => file'[job[q].file].private)
  BY <1>2, <1>5 DEF JobInv, CommandInv, Holding, Locking
<1>7. \A q \in Jobs \ {p} : ~job[q].resume /\ job[q].file # Nil =>
        job[q].file \notin {part', dest', r.file}
  BY <1>2, <1>3 DEF JobInv, CommandInv
<1>8. ~r.resume => r.file \notin {part', dest'}
  BY <1>2, <1>3
<1> QED
  BY <1>1, <1>2, <1>3, <1>5, <1>6, <1>7, <1>8, OneCommand DEF JobInv, JobTypeInv, Holding, Locking

\* The fixed name is not that of a partial with a random name.
LEMMA ReopenKeeps ==
  ASSUME JobInv, NEW p \in Jobs, Reopen(p)
  PROVE  JobInv'
<1> DEFINE r == [job[p] EXCEPT !.file = part, !.pc = "lock"]
<1>1. r \in JobRec /\ r.pc = "lock" /\ r.file = part /\ r.resume = job[p].resume
  BY DEF JobInv, JobTypeInv, JobRec, JobStages, Holding
<1>2. /\ job' = [job EXCEPT ![p] = r] /\ UNCHANGED <<file, part, dest, locked>>
      /\ job[p].resume /\ part \in Files
  BY DEF Reopen, JobInv, JobTypeInv
<1> HIDE DEF r
<1>3. \A q \in Jobs \ {p} : ~job[q].resume /\ job[q].file # Nil =>
        job[q].file \notin {part, dest, r.file}
  BY <1>1 DEF JobInv, CommandInv
<1> QED BY <1>1, <1>2, <1>3, OneCommand DEF JobInv, JobTypeInv, Holding, Locking

\* The lock is taken when nobody has it.
LEMMA LockPartialKeeps ==
  ASSUME JobInv, NEW p \in Jobs, LockPartial(p)
  PROVE  JobInv'
<1> DEFINE r == [job[p] EXCEPT !.pc = "inspect"]
<1>1. r \in JobRec /\ r.pc = "inspect" /\ r.file = job[p].file /\ r.resume = job[p].resume
  BY DEF JobInv, JobTypeInv, JobRec, JobStages, Holding, Locking
<1>2. /\ job' = [job EXCEPT ![p] = r] /\ UNCHANGED <<file, part, dest>>
      /\ locked' = [locked EXCEPT ![r.file] = p]
      /\ locked[r.file] = Nil
  BY <1>1 DEF LockPartial, Goto
<1> HIDE DEF r
<1>3. r.file \in Files /\ r.resume
  BY <1>1 DEF LockPartial, JobInv, CommandInv, Holding
<1>4. /\ locked' \in [Files -> Jobs \cup {Nil}] /\ locked'[r.file] = p
      /\ \A q \in Jobs \ {p}, f \in Files : locked[f] = q => locked'[f] = q
  BY <1>2, <1>3 DEF JobInv, JobTypeInv
<1>5. \A q \in Jobs \ {p} : ~job[q].resume /\ job[q].file # Nil =>
        job[q].file \notin {part, dest, r.file}
  BY <1>1 DEF JobInv, CommandInv
<1> QED BY <1>1, <1>2, <1>3, <1>4, <1>5, OneCommand DEF JobInv, JobTypeInv, Holding, Locking

\* A retained partial is written only if it is an owner-only file.
LEMMA InspectKeeps ==
  ASSUME JobInv, NEW p \in Jobs, Inspect(p)
  PROVE  JobInv'
BY GotoKeeps DEF Inspect, Reusable, JobStages, Holding, Locking

\* What the server sends changes neither the mode of the file nor who has it.
LEMMA ReceiveKeeps ==
  ASSUME JobInv, NEW p \in Jobs, NEW right \in BOOLEAN, Receive(p, right)
  PROVE  JobInv'
<1> DEFINE f == job[p].file
<1>1. f \in Files /\ file[f] \in FileRec
  BY DEF Receive, JobInv, JobTypeInv, CommandInv, Holding, Locking
<1>2. /\ file' = [file EXCEPT ![f] = [file[f] EXCEPT !.len = @ + 1, !.good = @ /\ right]]
      /\ UNCHANGED <<part, dest, locked, job>>
  BY <1>1 DEF Receive, JobInv, JobTypeInv
<1> HIDE DEF f
<1>3. (file[f].good /\ right) \in BOOLEAN /\ file[f].len + 1 \in Nat
  BY <1>1 DEF FileRec
<1>4. /\ [file[f] EXCEPT !.len = @ + 1, !.good = @ /\ right] \in FileRec
      /\ [file[f] EXCEPT !.len = @ + 1, !.good = @ /\ right].private = file[f].private
  BY <1>1, <1>3 DEF FileRec
<1>5. /\ file' \in [Files -> FileRec]
      /\ \A g \in Files : file'[g].private = file[g].private
  BY <1>1, <1>2, <1>4 DEF JobInv, JobTypeInv
<1>6. \A q \in Jobs : CommandInv(q)'
  BY <1>2, <1>5 DEF JobInv, CommandInv, Holding, Locking
<1> QED BY <1>2, <1>5, <1>6 DEF JobInv, JobTypeInv

\* The fixed name is removed, whatever it refers to.
LEMMA RemoveKeeps ==
  ASSUME JobInv, NEW p \in Jobs, Remove(p)
  PROVE  JobInv'
<1> DEFINE r == [job[p] EXCEPT !.pc = "remove again"]
<1>1. r \in JobRec /\ r.pc = "remove again" /\ r.file = job[p].file /\ r.resume = job[p].resume
  BY DEF JobInv, JobTypeInv, JobRec, JobStages
<1>2. /\ job' = [job EXCEPT ![p] = r] /\ UNCHANGED <<file, dest, locked>>
      /\ part' \in {part, Nil}
  BY DEF Remove, Goto, RemovePart
<1> HIDE DEF r
<1>3. CommandInv(p)
  BY DEF JobInv
<1>4. \A q \in Jobs \ {p} : ~job[q].resume /\ job[q].file # Nil =>
        job[q].file \notin {part', dest', r.file}
  BY <1>1, <1>2 DEF JobInv, CommandInv
<1>5. ~r.resume /\ r.file # Nil =>
        /\ r.file \notin {part', dest'}
        /\ \A q \in Jobs \ {p} : job[q].file # r.file
  BY <1>1, <1>2, <1>3 DEF CommandInv
<1>6. part' \in Files \cup {Nil}
  BY <1>2 DEF JobInv, JobTypeInv
<1> QED
  BY <1>1, <1>2, <1>4, <1>5, <1>6, OneCommand DEF JobInv, JobTypeInv, Holding, Locking

\* The mode is changed by the only command that has passed the lock.
LEMMA ChmodKeeps ==
  ASSUME JobInv, NEW p \in Jobs, Chmod(p)
  PROVE  JobInv'
<1> DEFINE r == [job[p] EXCEPT !.pc = "close"]
           f == job[p].file
<1>1. /\ r \in JobRec /\ r.pc = "close" /\ r.file = f /\ r.resume = job[p].resume
      /\ f \in Files /\ file[f] \in FileRec
  <2>1. r \in JobRec /\ r.pc = "close" /\ r.file = f /\ r.resume = job[p].resume
    BY DEF JobInv, JobTypeInv, JobRec, JobStages, Holding, Locking
  <2>2. f \in Files /\ file[f] \in FileRec
    BY DEF Chmod, JobInv, JobTypeInv, CommandInv, Holding, Locking
  <2> QED BY <2>1, <2>2
<1>2. /\ job' = [job EXCEPT ![p] = r] /\ UNCHANGED <<part, dest, locked>>
      /\ file' = [file EXCEPT ![f] = [file[f] EXCEPT !.private = FALSE]]
  BY <1>1 DEF Chmod, Goto, JobInv, JobTypeInv
<1>3. \A q \in Jobs \ {p} : job[q].pc = "transfer" => job[q].file \in Files \ {f}
  BY Exclusive DEF Chmod, JobInv, CommandInv, Holding, Locking
<1> HIDE DEF r
<1>4. CommandInv(p) /\ job[p].pc = "chmod"
  BY DEF JobInv, Chmod
<1> HIDE DEF f
<1>5. [file[f] EXCEPT !.private = FALSE] \in FileRec
  BY <1>1 DEF FileRec
<1>6. file' \in [Files -> FileRec] /\ \A g \in Files \ {f} : file'[g] = file[g]
  BY <1>1, <1>2, <1>5 DEF JobInv, JobTypeInv
<1>7. \A q \in Jobs \ {p} : ~job[q].resume /\ job[q].file # Nil =>
        job[q].file \notin {part', dest', r.file}
  BY <1>1, <1>2 DEF JobInv, CommandInv, f
<1>8. /\ r.resume => locked[r.file] = p
      /\ ~r.resume => /\ r.file \notin {part, dest}
                      /\ \A q \in Jobs \ {p} : job[q].file # r.file
  BY <1>1, <1>4 DEF CommandInv, Locking, f
<1> QED
  BY <1>1, <1>2, <1>3, <1>6, <1>7, <1>8, OneCommand DEF JobInv, JobTypeInv, Holding, Locking

\* The lock goes with the descriptor; a random name still refers to the file.
LEMMA CloseFileKeeps ==
  ASSUME JobInv, NEW p \in Jobs, Close(p)
  PROVE  JobInv'
<1>1. CASE job[p].resume
  BY <1>1, CloseKeeps DEF Close
<1>2. CASE ~job[p].resume
  <2> DEFINE r == [job[p] EXCEPT !.pc = "install"]
  <2>1. r \in JobRec /\ r.pc = "install" /\ r.file = job[p].file /\ r.resume = job[p].resume
    BY DEF JobInv, JobTypeInv, JobRec, JobStages
  <2>2. job' = [job EXCEPT ![p] = r] /\ UNCHANGED <<file, part, dest>>
    BY <1>2 DEF Close, JobInv, JobTypeInv, JobRec
  <2> HIDE DEF r
  <2>3. locked' \in [Files -> Jobs \cup {Nil}]
        /\ \A q \in Jobs \ {p}, f \in Files : locked[f] = q => locked'[f] = q
    BY DEF Close, JobInv, JobTypeInv, Unlock
  <2>4. \A q \in Jobs \ {p} : ~job[q].resume /\ job[q].file # Nil =>
          job[q].file \notin {part, dest, r.file}
    BY <2>1 DEF JobInv, CommandInv
  <2>5. r.file # Nil => /\ r.file \notin {part, dest}
                         /\ \A q \in Jobs \ {p} : job[q].file # r.file
    BY <1>2, <2>1 DEF JobInv, CommandInv
  <2> QED BY <1>2, <2>1, <2>2, <2>3, <2>4, <2>5, OneCommand DEF JobInv, JobTypeInv, Holding,
                                                                Locking
<1> QED BY <1>1, <1>2

\* The file that is renamed belongs to nobody's random name but the command's own.
LEMMA InstallKeeps ==
  ASSUME JobInv, NEW p \in Jobs, Install(p)
  PROVE  JobInv'
<1> DEFINE r == [job[p] EXCEPT !.pc = "unlink", !.file = Nil]
<1>1. r \in JobRec /\ r.pc = "unlink" /\ r.file = Nil
  BY DEF JobInv, JobTypeInv, JobRec, JobStages
<1>2. /\ job' = [job EXCEPT ![p] = r] /\ UNCHANGED <<file, locked>>
      /\ part' \in {part, Nil} /\ dest' = Named(p) /\ Named(p) \in Files
      /\ Named(p) \in {part, job[p].file}
  BY DEF Install, RemovePart, Named, JobInv, JobTypeInv, JobRec
<1> HIDE DEF r
<1>3. \A q \in Jobs \ {p} : ~job[q].resume /\ job[q].file # Nil =>
        job[q].file \notin {part', dest', r.file}
  BY <1>1, <1>2 DEF JobInv, CommandInv
<1> QED BY <1>1, <1>2, <1>3, OneCommand DEF JobInv, JobTypeInv, Holding, Locking

\* The user's file is one that no command has.
LEMMA UserKeeps ==
  ASSUME JobInv, (\E f \in Files : UserCreates(f)) \/ UserRemoves
  PROVE  JobInv'
<1>1. ASSUME NEW f \in Files, UserCreates(f) PROVE JobInv'
  <2>1. /\ file' = [file EXCEPT ![f] = [Empty EXCEPT !.foreign = TRUE]] /\ dest' = f
        /\ UNCHANGED <<part, locked, job>> /\ \A q \in Jobs : job[q].file # f
    BY <1>1 DEF UserCreates, Free
  <2>2. [Empty EXCEPT !.foreign = TRUE] \in FileRec
    BY DEF Empty, FileRec
  <2>3. file' \in [Files -> FileRec] /\ \A g \in Files \ {f} : file'[g] = file[g]
    BY <2>1, <2>2 DEF JobInv, JobTypeInv
  <2>4. \A q \in Jobs : CommandInv(q)'
    BY <2>1, <2>3 DEF JobInv, CommandInv, Holding, Locking
  <2> QED BY <2>1, <2>3, <2>4 DEF JobInv, JobTypeInv
<1>2. CASE UserRemoves
  <2>1. \A q \in Jobs : CommandInv(q)'
    BY <1>2 DEF UserRemoves, JobInv, CommandInv
  <2> QED BY <1>2, <2>1 DEF UserRemoves, JobInv, JobTypeInv
<1> QED BY <1>1, <1>2

\* Nothing is in progress at first.
LEMMA DownloadInitKeeps == DownloadInit => JobInv
<1> SUFFICES ASSUME DownloadInit PROVE JobInv
  OBVIOUS
<1>1. NoJob \in JobRec /\ NoJob.pc = "idle" /\ NoJob.file = Nil /\ Empty \in FileRec
  BY DEF NoJob, JobRec, JobStages, Empty, FileRec
<1> QED BY <1>1 DEF DownloadInit, JobInv, JobTypeInv, CommandInv, Holding, Locking

\* Every step keeps the invariant.
LEMMA DownloadNextKeeps ==
  ASSUME JobInv, [DownloadNext]_downloadVars
  PROVE  JobInv'
<1>1. ASSUME NEW p \in Jobs,
             \/ Busy(p) \/ RefusePartial(p) \/ Interrupted(p) \/ RemoveAgain(p)
             \/ InstallRefused(p) \/ Unlink(p) \/ Kill(p)
      PROVE  JobInv'
  BY <1>1, EndKeeps DEF Busy, RefusePartial, Interrupted, RemoveAgain, InstallRefused, Unlink,
                        Kill
<1>2. ASSUME NEW p \in Jobs, ProtocolError(p) \/ Received(p) \/ Verify(p)
      PROVE  JobInv'
  BY <1>2, GotoKeeps DEF ProtocolError, Received, Verify, JobStages, Holding, Locking
<1>3. ASSUME NEW p \in Jobs, RefuseOversize(p) \/ Discard(p)
      PROVE  JobInv'
  BY <1>3, CloseKeeps DEF RefuseOversize, Discard
<1>4. ASSUME NEW p \in Jobs,
             \/ \E resume, replace \in BOOLEAN : StartDownload(p, resume, replace)
             \/ \E f \in Files : Create(p, f)
             \/ Reopen(p) \/ LockPartial(p) \/ Inspect(p)
      PROVE  JobInv'
  BY <1>4, StartDownloadKeeps, CreateKeeps, ReopenKeeps, LockPartialKeeps, InspectKeeps
<1>5. ASSUME NEW p \in Jobs,
             \/ \E right \in BOOLEAN : Receive(p, right)
             \/ Remove(p) \/ Chmod(p) \/ Close(p) \/ Install(p)
      PROVE  JobInv'
  BY <1>5, ReceiveKeeps, RemoveKeeps, ChmodKeeps, CloseFileKeeps, InstallKeeps
<1>6. CASE UNCHANGED downloadVars
  BY <1>6 DEF downloadVars, JobInv, JobTypeInv, CommandInv
<1> QED BY <1>1, <1>2, <1>3, <1>4, <1>5, <1>6, UserKeeps DEF DownloadNext

\* The inductive invariant holds.
LEMMA JobInvariant == DownloadSpec => []JobInv
BY DownloadInitKeeps, DownloadNextKeeps, PTL DEF DownloadSpec

-----------------------------------------------------------------------------
(* Commands that run one at a time *)

\* The command that runs knows what the name of its resumable partial refers
\* to, and of the file what it has checked so far.
HeldByName(p) == job[p].pc \in Holding /\ job[p].resume => part = job[p].file
Checked(p) ==
  /\ job[p].pc = "verify" => file[job[p].file].len = Size
  /\ job[p].pc \in {"chmod", "close"} => Complete(job[p].file)
  /\ job[p].pc = "install" /\ Named(p) # Nil => Complete(Named(p))

AloneInv ==
  /\ OneAtATime
  /\ InstalledVerified
  /\ part # Nil => part # dest
  /\ \A p \in Jobs : HeldByName(p) /\ Checked(p)

\* A step of a command leaves the records of the others alone.
LEMMA OthersStay ==
  ASSUME JobInv, NEW p \in Jobs,
         \/ \E resume, replace \in BOOLEAN : StartDownload(p, resume, replace)
         \/ \E f \in Files : Create(p, f)
         \/ Reopen(p) \/ LockPartial(p) \/ Busy(p)
         \/ Inspect(p) \/ RefusePartial(p) \/ RefuseOversize(p)
         \/ \E right \in BOOLEAN : Receive(p, right)
         \/ Interrupted(p) \/ ProtocolError(p) \/ Received(p) \/ Verify(p)
         \/ Discard(p) \/ Remove(p) \/ RemoveAgain(p)
         \/ Chmod(p) \/ Close(p) \/ Install(p) \/ InstallRefused(p) \/ Unlink(p)
         \/ Kill(p)
  PROVE  \A q \in Jobs \ {p} : job'[q] = job[q]
BY DEF JobInv, JobTypeInv, StartDownload, Create, Reopen, LockPartial, Busy, Inspect,
       RefusePartial,
       RefuseOversize, Receive, Interrupted, ProtocolError, Received, Verify, Discard,
       Remove, RemoveAgain, Chmod, Close, Install, InstallRefused, Unlink, Kill, Goto, End

\* While one command runs the others are idle, so that a step of it must
\* account for its own record and the two names only.
LEMMA AloneStep ==
  ASSUME JobInv, AloneInv, OneAtATime', NEW p \in Jobs,
         \A q \in Jobs \ {p} : job'[q] = job[q],
         job[p].pc # "idle" \/ job'[p].pc # "idle",
         InstalledVerified', part' # Nil => part' # dest',
         HeldByName(p)', Checked(p)'
  PROVE  AloneInv'
<1>1. ASSUME NEW q \in Jobs \ {p} PROVE job'[q].pc = "idle"
  BY DEF AloneInv, OneAtATime
<1>2. ASSUME NEW q \in Jobs \ {p} PROVE HeldByName(q)' /\ Checked(q)'
  BY <1>1 DEF HeldByName, Checked, Holding, Locking
<1> QED BY <1>2 DEF AloneInv

\* A step that touches no file and only removes the partial's name.
LEMMA QuietStep ==
  ASSUME JobInv, AloneInv, OneAtATime', NEW p \in Jobs,
         \A q \in Jobs \ {p} : job'[q] = job[q],
         job[p].pc # "idle" \/ job'[p].pc # "idle",
         UNCHANGED <<file, dest>>, part' = part \/ part' = Nil,
         HeldByName(p)', Checked(p)'
  PROVE  AloneInv'
<1>1. InstalledVerified'
  BY DEF AloneInv, InstalledVerified, Complete
<1>2. part' # Nil => part' # dest'
  BY DEF AloneInv
<1> QED BY <1>1, <1>2, AloneStep

\* A command that stops at a stage without a descriptor relies on nothing.
LEMMA LeavingStep ==
  ASSUME JobInv, AloneInv, OneAtATime', NEW p \in Jobs,
         \/ Busy(p) \/ RefusePartial(p) \/ RefuseOversize(p) \/ Interrupted(p)
         \/ Discard(p) \/ Remove(p) \/ RemoveAgain(p) \/ InstallRefused(p) \/ Unlink(p)
         \/ Kill(p)
  PROVE  AloneInv'
<1>1. \A q \in Jobs \ {p} : job'[q] = job[q]
  BY OthersStay
<1>2. job[p].pc # "idle"
  BY DEF Busy, RefusePartial, RefuseOversize, Interrupted, Discard, Remove, RemoveAgain,
         InstallRefused, Unlink, Kill
<1>3. UNCHANGED <<file, dest>> /\ (part' = part \/ part' = Nil)
  BY DEF Busy, RefusePartial, RefuseOversize, Interrupted, Discard, Remove, RemoveAgain,
         InstallRefused, Unlink, Kill, RemovePart
<1>4. job'[p].pc \in {"idle", "remove", "remove again"}
  <2>1. CASE RefuseOversize(p) \/ Discard(p) \/ Remove(p)
    <3>1. job[p] \in JobRec /\ job \in [Jobs -> JobRec]
      BY DEF JobInv, JobTypeInv
    <3>2. CASE RefuseOversize(p)
      BY <3>1, <3>2 DEF JobRec, RefuseOversize
    <3>3. CASE Discard(p)
      BY <3>1, <3>3 DEF JobRec, Discard
    <3>4. CASE Remove(p)
      BY <3>1, <3>4 DEF JobRec, Remove, Goto
    <3> QED BY <2>1, <3>2, <3>3, <3>4
  <2>2. CASE ~(RefuseOversize(p) \/ Discard(p) \/ Remove(p))
    <3>1. job' = [job EXCEPT ![p] = NoJob]
      BY <2>2 DEF Busy, RefusePartial, Interrupted, RemoveAgain, InstallRefused, Unlink, Kill, End
    <3> QED BY <3>1 DEF JobInv, JobTypeInv, NoJob
  <2> QED BY <2>1, <2>2
<1>5. HeldByName(p)' /\ Checked(p)'
  BY <1>4 DEF HeldByName, Checked, Holding, Locking
<1> QED BY <1>1, <1>2, <1>3, <1>5, QuietStep

\* A command that begins, opens the partial or passes a check of it.
LEMMA OpeningStep ==
  ASSUME JobInv, AloneInv, OneAtATime', NEW p \in Jobs,
         \/ \E resume, replace \in BOOLEAN : StartDownload(p, resume, replace)
         \/ Reopen(p) \/ LockPartial(p) \/ Inspect(p) \/ ProtocolError(p)
         \/ Received(p) \/ Verify(p)
  PROVE  AloneInv'
<1>1. \A q \in Jobs \ {p} : job'[q] = job[q]
  BY OthersStay
<1>2. UNCHANGED <<file, part, dest>>
  BY DEF StartDownload, Reopen, LockPartial, Inspect, ProtocolError, Received, Verify
<1>3. job[p] \in JobRec /\ HeldByName(p) /\ Checked(p)
  BY DEF JobInv, JobTypeInv, AloneInv
<1>4. CASE \E resume, replace \in BOOLEAN : StartDownload(p, resume, replace)
  <2>1. job'[p].pc = "open"
    BY <1>4 DEF StartDownload, JobInv, JobTypeInv
  <2>2. HeldByName(p)' /\ Checked(p)'
    BY <2>1 DEF HeldByName, Checked, Holding, Locking
  <2> QED BY <1>1, <1>2, <2>1, <2>2, QuietStep
<1>5. CASE Reopen(p)
  <2>1. job[p].pc = "open" /\ job'[p].pc = "lock" /\ job'[p].file = part
    BY <1>3, <1>5 DEF Reopen, JobInv, JobTypeInv, JobRec
  <2>2. HeldByName(p)' /\ Checked(p)'
    BY <1>2, <2>1 DEF HeldByName, Checked
  <2> QED BY <1>1, <1>2, <2>1, <2>2, QuietStep
<1>6. CASE LockPartial(p) \/ Inspect(p) \/ ProtocolError(p) \/ Received(p) \/ Verify(p)
  <2>1. /\ job[p].pc \in Holding
        /\ job'[p].file = job[p].file /\ job'[p].resume = job[p].resume
    BY <1>3, <1>6 DEF LockPartial, Inspect, ProtocolError, Received, Verify, Goto, JobInv,
                      JobTypeInv,
                      JobRec, Holding, Locking
  <2>2. HeldByName(p)'
    BY <1>2, <1>3, <2>1 DEF HeldByName
  <2>3. /\ job'[p].pc \in {"inspect", "transfer", "verify", "chmod", "discard"}
        /\ job'[p].pc = "verify" => file[job[p].file].len = Size
        /\ job'[p].pc = "chmod" => Complete(job[p].file)
    BY <1>3, <1>6 DEF LockPartial, Inspect, ProtocolError, Received, Verify, Verified, Goto,
                      JobInv,
                      JobTypeInv, JobRec, Checked, Complete
  <2>4. Checked(p)'
    BY <1>2, <2>1, <2>3 DEF Checked, Complete
  <2>5. job[p].pc # "idle"
    BY <2>1 DEF Holding, Locking
  <2> QED BY <1>1, <1>2, <2>2, <2>4, <2>5, QuietStep
<1> QED BY <1>4, <1>5, <1>6

\* The file that is created is neither the partial's nor the destination's.
LEMMA CreateAlone ==
  ASSUME JobInv, AloneInv, OneAtATime', NEW p \in Jobs, NEW f \in Files, Create(p, f)
  PROVE  AloneInv'
<1>1. \A q \in Jobs \ {p} : job'[q] = job[q]
  BY OthersStay
<1>2. /\ job[p].pc = "open" /\ job'[p].file = f /\ job'[p].resume = job[p].resume
      /\ job'[p].pc \in {"lock", "transfer"}
  BY DEF Create, JobInv, JobTypeInv, JobRec
<1>3. /\ f \notin {part, dest} /\ UNCHANGED dest
      /\ part' = IF job[p].resume THEN f ELSE part
      /\ \A g \in Files \ {f} : file'[g] = file[g]
  BY DEF Create, Free, JobInv, JobTypeInv
<1>4. InstalledVerified'
  BY <1>3 DEF AloneInv, InstalledVerified, Complete, JobInv, JobTypeInv
<1>5. part' # Nil => part' # dest'
  BY <1>3 DEF AloneInv
<1>6. HeldByName(p)' /\ Checked(p)'
  BY <1>2, <1>3 DEF HeldByName, Checked
<1> QED BY <1>1, <1>2, <1>4, <1>5, <1>6, AloneStep

\* A command that writes does not have the destination's file.
LEMMA NotInstalled ==
  ASSUME JobInv, AloneInv, NEW p \in Jobs, job[p].pc \in Locking
  PROVE  job[p].file \in Files /\ job[p].file # dest
BY DEF JobInv, AloneInv, CommandInv, HeldByName, Holding

\* The server's bytes go to the partial.
LEMMA ReceiveAlone ==
  ASSUME JobInv, AloneInv, OneAtATime', NEW p \in Jobs, NEW right \in BOOLEAN, Receive(p, right)
  PROVE  AloneInv'
<1>1. job[p].pc = "transfer" /\ UNCHANGED <<part, dest, job>>
  BY DEF Receive
<1>2. job[p].file # dest
  BY <1>1, NotInstalled DEF Locking
<1>3. \A g \in Files \ {job[p].file} : file'[g] = file[g]
  BY DEF Receive, JobInv, JobTypeInv
<1>4. InstalledVerified'
  BY <1>1, <1>2, <1>3 DEF AloneInv, InstalledVerified, Complete, JobInv, JobTypeInv
<1>5. HeldByName(p)' /\ Checked(p)'
  BY <1>1 DEF AloneInv, HeldByName, Checked
<1> QED BY <1>1, <1>4, <1>5, AloneStep DEF AloneInv

\* The new mode is no part of what was verified.
LEMMA ChmodAlone ==
  ASSUME JobInv, AloneInv, OneAtATime', NEW p \in Jobs, Chmod(p)
  PROVE  AloneInv'
<1>1. \A q \in Jobs \ {p} : job'[q] = job[q]
  BY OthersStay
<1>2. /\ job[p].pc = "chmod" /\ job'[p].pc = "close" /\ UNCHANGED <<part, dest>>
      /\ job'[p].file = job[p].file /\ job'[p].resume = job[p].resume
  BY DEF Chmod, Goto, JobInv, JobTypeInv, JobRec
<1>3. job[p].file \in Files /\ job[p].file # dest
  BY <1>2, NotInstalled DEF Locking
<1>4. \A g \in Files : g # job[p].file => file'[g] = file[g]
  BY DEF Chmod, JobInv, JobTypeInv
<1>5. /\ file'[job[p].file].len = file[job[p].file].len
      /\ file'[job[p].file].good = file[job[p].file].good
  BY <1>3 DEF Chmod, JobInv, JobTypeInv, FileRec
<1>6. InstalledVerified'
  BY <1>2, <1>3, <1>4 DEF AloneInv, InstalledVerified, Complete, JobInv, JobTypeInv
<1>7. HeldByName(p)'
  BY <1>2 DEF AloneInv, HeldByName, Holding, Locking
<1>8. Checked(p)'
  BY <1>2, <1>5 DEF AloneInv, Checked, Complete
<1> QED BY <1>1, <1>2, <1>6, <1>7, <1>8, AloneStep DEF AloneInv

\* What the partial's name refers to after the close is what was verified.
LEMMA CloseAlone ==
  ASSUME JobInv, AloneInv, OneAtATime', NEW p \in Jobs, Close(p)
  PROVE  AloneInv'
<1>1. \A q \in Jobs \ {p} : job'[q] = job[q]
  BY OthersStay
<1>2. /\ job[p].pc = "close" /\ job'[p].pc = "install" /\ UNCHANGED <<file, part, dest>>
      /\ job'[p].resume = job[p].resume
      /\ ~job[p].resume => job'[p].file = job[p].file
  BY DEF Close, JobInv, JobTypeInv, JobRec
<1>3. Complete(job[p].file) /\ (job[p].resume => part = job[p].file)
  BY <1>2 DEF AloneInv, Checked, HeldByName, Holding, Locking
<1>4. HeldByName(p)' /\ Checked(p)'
  BY <1>2, <1>3 DEF HeldByName, Checked, Named, Complete, Holding, Locking
<1> QED BY <1>1, <1>2, <1>4, QuietStep

\* The rename puts the verified file at the destination.
LEMMA InstallAlone ==
  ASSUME JobInv, AloneInv, OneAtATime', NEW p \in Jobs, Install(p)
  PROVE  AloneInv'
<1>1. \A q \in Jobs \ {p} : job'[q] = job[q]
  BY OthersStay
<1>2. /\ job[p].pc = "install" /\ job'[p].pc = "unlink" /\ UNCHANGED file
      /\ Named(p) # Nil /\ dest' = Named(p)
      /\ part' = IF job[p].resume THEN Nil ELSE part
  BY DEF Install, RemovePart, JobInv, JobTypeInv, JobRec
<1>3. InstalledVerified'
  BY <1>2 DEF AloneInv, Checked, InstalledVerified, Complete
<1>4. part' # Nil => part' # dest'
  BY <1>2 DEF JobInv, CommandInv, Named
<1>5. HeldByName(p)' /\ Checked(p)'
  BY <1>2 DEF HeldByName, Checked, Holding, Locking
<1> QED BY <1>1, <1>2, <1>3, <1>4, <1>5, AloneStep

\* The user's file is none that a command will install.
LEMMA UserAlone ==
  ASSUME JobInv, AloneInv, OneAtATime', (\E f \in Files : UserCreates(f)) \/ UserRemoves
  PROVE  AloneInv'
<1>1. ASSUME NEW f \in Files, UserCreates(f) PROVE AloneInv'
  <2>1. /\ UNCHANGED <<part, job>> /\ dest' = f /\ part # f
        /\ \A q \in Jobs : job[q].file # f
        /\ \A g \in Files \cup {Nil} : g # f => file'[g] = file[g]
        /\ file'[f].foreign
    <3>1. [Empty EXCEPT !.foreign = TRUE].foreign
      BY DEF Empty
    <3>2. ASSUME NEW g \in Files \cup {Nil}, g # f PROVE file'[g] = file[g]
      BY <1>1, <3>2 DEF UserCreates, JobInv, JobTypeInv
    <3> QED BY <1>1, <3>1, <3>2 DEF UserCreates, Free, JobInv, JobTypeInv
  <2>2. InstalledVerified' /\ part' # dest'
    BY <2>1 DEF InstalledVerified
  <2>3. ASSUME NEW q \in Jobs PROVE HeldByName(q)' /\ Checked(q)'
    <3>1. HeldByName(q) /\ Checked(q) /\ job[q].file \in Files \cup {Nil}
      BY DEF AloneInv, JobInv, JobTypeInv, JobRec
    <3>2. Named(q) \in Files \cup {Nil} /\ Named(q) # f
      BY <2>1, <3>1 DEF Named, JobInv, JobTypeInv
    <3> QED BY <2>1, <3>1, <3>2 DEF HeldByName, Checked, Complete, Named
  <2> QED BY <2>2, <2>3 DEF AloneInv
<1>2. CASE UserRemoves
  BY <1>2 DEF UserRemoves, AloneInv, InstalledVerified, HeldByName, Checked, Named, Complete
<1> QED BY <1>1, <1>2

\* Every step of a behaviour in which commands wait for each other.
LEMMA AloneKeeps ==
  ASSUME JobInv, alone => AloneInv, [AloneNext]_<<downloadVars, alone>>
  PROVE  (alone => AloneInv)'
<1> SUFFICES ASSUME alone' PROVE AloneInv'
  OBVIOUS
<1>1. CASE UNCHANGED <<downloadVars, alone>>
  BY <1>1 DEF downloadVars, AloneInv, OneAtATime, InstalledVerified, HeldByName, Checked,
              Named, Complete
<1>2. CASE AloneNext
  <2>1. DownloadNext /\ AloneInv /\ OneAtATime'
    BY <1>2 DEF AloneNext
  <2> QED BY <2>1, LeavingStep, OpeningStep, CreateAlone, ReceiveAlone, ChmodAlone, CloseAlone,
             InstallAlone, UserAlone DEF DownloadNext
<1> QED BY <1>1, <1>2

-----------------------------------------------------------------------------
(* Theorems *)

\* Download never writes to a file whose mode says it was verified, and two
\* commands never write one file, whichever of them opened the partial before
\* it was renamed or removed.
THEOREM FinishedUntouchedHolds == DownloadSpec => []FinishedUntouched
<1>1. ASSUME JobInv PROVE FinishedUntouched
  BY <1>1, Exclusive DEF FinishedUntouched, JobInv, CommandInv, Locking
<1> QED BY <1>1, JobInvariant, PTL

\* A file that the user puts at the destination is replaced only by a command
\* that was told --replace.
THEOREM ForeignKeptHolds == DownloadSpec => ForeignKept
<1> DEFINE Told == \E p \in Jobs : job[p].replace /\ job'[p].pc = "unlink"
<1>1. ASSUME JobInv, [DownloadNext]_downloadVars, dest # Nil, dest' \notin {Nil, dest}
      PROVE  Told
  <2>1. PICK p \in Jobs : Install(p)
    BY <1>1 DEF DownloadNext, downloadVars, StartDownload, Create, Reopen, LockPartial, Busy,
                Inspect, RefusePartial,
                RefuseOversize, Receive, Interrupted, ProtocolError, Received, Verify, Discard,
                Remove, RemoveAgain, Chmod, Close, InstallRefused, Unlink, Kill, UserCreates,
                UserRemoves
  <2>2. job[p].replace
    BY <1>1, <2>1 DEF Install, Installable
  <2>3. job'[p].pc = "unlink"
    BY <1>1, <2>1 DEF Install, JobInv, JobTypeInv, JobRec
  <2> QED BY <2>2, <2>3
<1>2. ASSUME JobInv, [DownloadNext]_downloadVars
      PROVE  [dest # Nil /\ dest' \notin {Nil, dest} => Told]_downloadVars
  BY <1>1, <1>2
<1> QED BY <1>2, JobInvariant, PTL DEF DownloadSpec, ForeignKept

\* With one download at a time, however it is killed, resumed or served, the
\* destination is the user's own file or has the signed size and digest: the
\* partial's name still refers to the verified file when it is renamed.
THEOREM AloneVerifiedHolds == AloneSpec => []AloneVerified
<1>1. AloneInit => JobInv /\ (alone => AloneInv)
  <2> SUFFICES ASSUME AloneInit PROVE JobInv /\ AloneInv
    OBVIOUS
  <2>1. \A p \in Jobs : job[p].pc = "idle"
    BY DEF AloneInit, DownloadInit, NoJob
  <2>2. OneAtATime /\ \A p \in Jobs : HeldByName(p) /\ Checked(p)
    BY <2>1 DEF OneAtATime, HeldByName, Checked, Holding, Locking
  <2>3. InstalledVerified /\ part = Nil
    BY DEF AloneInit, DownloadInit, InstalledVerified
  <2> QED BY <2>2, <2>3, DownloadInitKeeps DEF AloneInit, AloneInv
<1>2. JobInv /\ (alone => AloneInv) /\ [AloneNext]_<<downloadVars, alone>> =>
        JobInv' /\ (alone => AloneInv)'
  <2> SUFFICES ASSUME JobInv, alone => AloneInv, [AloneNext]_<<downloadVars, alone>>
               PROVE  JobInv' /\ (alone => AloneInv)'
    OBVIOUS
  <2>1. [DownloadNext]_downloadVars
    BY DEF AloneNext
  <2> QED BY <2>1, DownloadNextKeeps, AloneKeeps
<1>3. JobInv /\ (alone => AloneInv) => AloneVerified
  BY DEF AloneInv, AloneVerified
<1> QED BY <1>1, <1>2, <1>3, PTL DEF AloneSpec
================================================================================

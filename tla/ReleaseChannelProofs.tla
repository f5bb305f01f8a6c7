------------------------- MODULE ReleaseChannelProofs -------------------------
(***************************************************************************)
(* Proofs about ReleaseChannel, for any number of processes, any envelopes *)
(* and any clock.                                                          *)
(***************************************************************************)
EXTENDS ReleaseChannel, TLAPS

ProcRec == [pc : Stages, offline : BOOLEAN, now : 0..MaxDay,
            root : AllRoots \cup {None}, state : States \cup {None},
            updates : 0..MaxRootUpdates, candidate : AllRoots \cup {None},
            release : Releases \cup {None}]

\* What a process has established by the stage it is in: it has a root, past
\* the fetch a release that the root authorizes and that was fresh when the
\* command started, and behind the lock a state that is still the recorded one.
StageInv(r, s) ==
  /\ r.pc # "idle" => r.root # None
  /\ r.pc = "store" => r.candidate # None
  /\ r.pc \in {"cache", "accept", "locked", "publish"} =>
       r.release # None /\ VerifyOnline(r.root, r.release, r.now)
  /\ r.pc = "publish" =>
       /\ r.state = s
       /\ ClockAccepted(s, r.now)
       /\ NotRolledBack(s, r.root, r.release)

Inv ==
  /\ TypeOK
  /\ StateSigned
  /\ NotFrozen
  /\ \A p \in Procs : StageInv(proc[p], state)

USE DEF At

-----------------------------------------------------------------------------
\* The records of TypeOK.
LEMMA TypeProc == TypeOK => proc \in [Procs -> ProcRec]
  BY DEF TypeOK, ProcRec

\* A step of process p that leaves the records on disk and the lock alone keeps
\* the invariant when p's new record satisfies its part.
LEMMA ProcStep ==
  ASSUME Inv, NEW p \in Procs, NEW r \in ProcRec,
         proc' = [proc EXCEPT ![p] = r],
         history' \in [Versions -> AllRoots \cup {None}],
         cached' \in Releases \cup {None},
         UNCHANGED <<day, state, lock>>,
         r.pc \in {"locked", "publish"} => lock = p,
         StageInv(r, state)
  PROVE  Inv'
<1> USE DEF Inv
<1>1. proc \in [Procs -> ProcRec]
  BY TypeProc
<1>2. proc' \in [Procs -> ProcRec]
  BY <1>1
<1>3. \A q \in Procs : proc'[q] = IF q = p THEN r ELSE proc[q]
  BY <1>1
<1>4. TypeOK'
  BY <1>2, <1>3 DEF TypeOK, ProcRec
<1>5. StateSigned' /\ NotFrozen'
  BY DEF StateSigned, NotFrozen
<1>6. \A q \in Procs : StageInv(proc'[q], state')
  BY <1>3
<1> QED
  BY <1>4, <1>5, <1>6

\* A process that enters a stage keeps the shape of its record and what the
\* stages share.
LEMMA EnteringRec ==
  ASSUME NEW r \in ProcRec, NEW stage \in Stages
  PROVE  LET s == Entering(stage, r)
         IN  /\ s \in ProcRec
             /\ s.pc = stage /\ s.root = r.root /\ s.candidate = r.candidate
             /\ s.release = r.release /\ s.now = r.now /\ s.state = r.state
<1> DEFINE u == IF stage \in {"roots", "store"} THEN r.updates ELSE 0
           o == IF stage \in {"replay", "load"} THEN r.offline ELSE FALSE
<1>1. u \in 0..MaxRootUpdates
  BY EnvelopeAssumption DEF ProcRec
<1>2. o \in BOOLEAN
  BY Zenon DEF ProcRec
<1>3. Entering(stage, r) = [r EXCEPT !.pc = stage, !.updates = u, !.offline = o]
  BY DEF Entering, ProcRec
<1> HIDE DEF u, o
<1> QED
  BY <1>1, <1>2, <1>3 DEF ProcRec

\* ProcStep, for a step that Step describes.
LEMMA StepKeeps ==
  ASSUME Inv, NEW p \in Procs, NEW stage \in Stages \ {"locked", "publish"}, NEW r \in ProcRec,
         Step(p, stage, r),
         history' \in [Versions -> AllRoots \cup {None}],
         cached' \in Releases \cup {None},
         UNCHANGED <<day, state, lock>>,
         stage # "idle" => r.root # None,
         stage = "store" => r.candidate # None,
         stage \in {"cache", "accept"} =>
           r.release # None /\ VerifyOnline(r.root, r.release, r.now)
  PROVE  Inv'
<1> DEFINE s == Entering(stage, r)
<1>1. s \in ProcRec
  BY EnteringRec
<1>2. /\ s.pc = stage /\ s.root = r.root /\ s.candidate = r.candidate
      /\ s.release = r.release /\ s.now = r.now /\ s.state = r.state
  BY EnteringRec
<1>3. StageInv(s, state)
  BY <1>2 DEF StageInv
<1> HIDE DEF s
<1>4. proc' = [proc EXCEPT ![p] = s]
  BY DEF Step, s
<1> QED
  BY <1>1, <1>2, <1>3, <1>4, ProcStep

\* The record of an idle process.
LEMMA IdleRecord == Idle \in ProcRec /\ Idle.pc = "idle"
  BY EnvelopeAssumption DEF Idle, ProcRec, Stages

-----------------------------------------------------------------------------
\* A refresh that starts.
LEMMA RefreshKeeps ==
  ASSUME Inv, NEW p \in Procs, NEW offline \in BOOLEAN, Refresh(p, offline)
  PROVE  Inv'
<1> DEFINE r == [Idle EXCEPT !.offline = offline, !.now = day, !.root = Bootstrap, !.state = state]
<1>1. r \in ProcRec /\ r.root # None
  BY IdleRecord, NoneIsNoValue DEF Inv, TypeOK, ProcRec, Idle, AllRoots
<1> HIDE DEF r
<1>2. Step(p, "replay", r)
  BY DEF Refresh, r
<1> QED
  BY <1>1, <1>2, StepKeeps DEF Refresh, records, Stages, Inv, TypeOK

\* A verification of the user's own files.
LEMMA VerifyLocalKeeps ==
  ASSUME Inv, NEW p \in Procs, NEW root \in AllRoots, NEW e \in Releases, VerifyLocal(p, root, e)
  PROVE  Inv'
<1> DEFINE r == [Idle EXCEPT !.now = day, !.root = root, !.release = e]
<1>1. r \in ProcRec /\ r.root = root /\ r.release = e /\ r.now = day
  BY IdleRecord DEF Inv, TypeOK, ProcRec, Idle
<1>2. root # None /\ e # None
  BY NoneIsNoValue
<1> HIDE DEF r
<1>3. Step(p, "accept", r)
  BY DEF VerifyLocal, r
<1>4. VerifyOnline(root, e, day)
  BY DEF VerifyLocal
<1> QED
  BY <1>1, <1>2, <1>3, <1>4, StepKeeps DEF VerifyLocal, records, Stages, Inv, TypeOK

\* The steps that establish the trusted root.
LEMMA RefreshRootsKeeps ==
  ASSUME Inv, NEW p \in Procs, RefreshRoots(p), UNCHANGED records
  PROVE  Inv'
<1>1. proc[p] \in ProcRec /\ StageInv(proc[p], state)
  BY TypeProc DEF Inv
<1>2. history \in [Versions -> AllRoots \cup {None}] /\ UNCHANGED <<state, lock>>
      /\ cached' \in Releases \cup {None}
  BY DEF Inv, TypeOK, records
<1>3. CASE ReplayRoot(p, proc[p].now)
  <2> DEFINE r == [proc[p] EXCEPT !.root = history[NextFile(p)]]
  <2>1. history[NextFile(p)] # None /\ NextFile(p) \in Versions
    BY <1>3 DEF ReplayRoot, NextMissing
  <2>2. r \in ProcRec /\ r.root # None
    BY <1>1, <1>2, <2>1 DEF ProcRec
  <2> HIDE DEF r
  <2>3. Step(p, "replay", r) /\ UNCHANGED <<history, day>>
    BY <1>3 DEF ReplayRoot, r
  <2> QED
    BY <1>2, <2>2, <2>3, StepKeeps DEF Stages
<1>4. CASE EndReplay(p, IF proc[p].offline THEN "offline" ELSE "roots")
  <2>1. proc[p].root # None /\ UNCHANGED <<history, day>>
    BY <1>1, <1>4 DEF EndReplay, StageInv
  <2>2. \/ Step(p, "offline", proc[p])
        \/ Step(p, "roots", proc[p])
    BY <1>4 DEF EndReplay
  <2> QED
    BY <1>1, <1>2, <2>1, <2>2, StepKeeps DEF Stages
<1>5. ASSUME NEW e \in AllRoots, FetchRoot(p, e, proc[p].now)
      PROVE  Inv'
  <2>1. proc[p].root # None /\ e # None /\ UNCHANGED <<history, day>>
        /\ proc[p].updates < MaxRootUpdates
    BY <1>1, <1>5, NoneIsNoValue DEF FetchRoot, StageInv
  <2> DEFINE kept == [proc[p] EXCEPT !.root = Trusted(@, e), !.updates = @ + 1]
             fetched == [proc[p] EXCEPT !.candidate = e, !.updates = @ + 1]
  <2>2. proc[p].updates + 1 \in 0..MaxRootUpdates
    BY <1>1, <2>1, EnvelopeAssumption DEF ProcRec
  <2>3. Trusted(proc[p].root, e) \in AllRoots
    BY <1>1, <2>1 DEF ProcRec, Trusted
  <2>4. kept \in ProcRec /\ kept.root # None
    BY <1>1, <2>2, <2>3, NoneIsNoValue DEF ProcRec
  <2>5. fetched \in ProcRec /\ fetched.root # None /\ fetched.candidate # None
    BY <1>1, <2>1, <2>2 DEF ProcRec
  <2> HIDE DEF kept, fetched
  <2>6. Step(p, "roots", kept) \/ Step(p, "store", fetched)
    BY <1>5 DEF FetchRoot, KeepOrStore, kept, fetched
  <2> QED
    BY <1>2, <2>1, <2>4, <2>5, <2>6, StepKeeps DEF Stages
<1>6. CASE StoreRoot(p)
  <2>1. proc[p].candidate \in AllRoots /\ proc[p].root # None /\ UNCHANGED day
    BY <1>1, <1>6 DEF StoreRoot, StageInv, ProcRec
  <2> DEFINE r == [proc[p] EXCEPT !.root = Trusted(@, proc[p].candidate), !.candidate = None]
  <2>2. r \in ProcRec /\ r.root # None
    BY <1>1, <2>1, NoneIsNoValue DEF ProcRec, Trusted
  <2> HIDE DEF r
  <2>3. Step(p, "roots", r)
    BY <1>6 DEF StoreRoot, r
  <2>4. history' \in [Versions -> AllRoots \cup {None}]
    BY <1>2, <1>6, <2>1 DEF StoreRoot, Versions
  <2> QED
    BY <1>2, <2>1, <2>2, <2>3, <2>4, StepKeeps DEF Stages
<1>7. CASE RootsNotFound(p, "rooted")
  <2>1. proc[p].root # None /\ Step(p, "rooted", proc[p]) /\ UNCHANGED <<history, day>>
    BY <1>1, <1>7 DEF RootsNotFound, StageInv
  <2> QED
    BY <1>1, <1>2, <2>1, StepKeeps DEF Stages
<1> QED
  BY <1>3, <1>4, <1>5, <1>6, <1>7 DEF RefreshRoots

\* The steps of a refresh that find and cache the release.
LEMMA ReleaseKeeps ==
  ASSUME Inv, NEW p \in Procs,
         \/ NetworkError(p) \/ CheckRoot(p) \/ CacheRelease(p) \/ LoadCached(p)
         \/ \E e \in Releases : FetchRelease(p, e)
  PROVE  Inv'
<1>1. proc[p] \in ProcRec /\ StageInv(proc[p], state)
  BY TypeProc DEF Inv
<1>2. history \in [Versions -> AllRoots \cup {None}] /\ cached \in Releases \cup {None}
  BY DEF Inv, TypeOK
<1>3. CASE NetworkError(p)
  <2>1. proc[p].root # None
    BY <1>1, <1>3 DEF NetworkError, StageInv
  <2>2. Step(p, "offline", proc[p]) \/ Step(p, "fallback", proc[p])
    BY <1>3 DEF NetworkError
  <2> QED
    BY <1>1, <1>2, <1>3, <2>1, <2>2, StepKeeps DEF NetworkError, records, Stages
<1>4. CASE CheckRoot(p)
  <2>1. proc[p].root # None
    BY <1>1, <1>4 DEF CheckRoot, StageInv
  <2>2. Step(p, "release", proc[p]) \/ Step(p, "fallback", proc[p])
    BY <1>4 DEF CheckRoot
  <2> QED
    BY <1>1, <1>2, <1>4, <2>1, <2>2, StepKeeps DEF CheckRoot, records, Stages
<1>5. CASE CacheRelease(p)
  <2>1. proc[p].root # None /\ proc[p].release \in Releases
        /\ VerifyOnline(proc[p].root, proc[p].release, proc[p].now)
    BY <1>1, <1>5 DEF CacheRelease, StageInv, ProcRec
  <2>2. Step(p, "accept", proc[p]) /\ cached' = proc[p].release
        /\ UNCHANGED <<history, day, state, lock>>
    BY <1>5 DEF CacheRelease
  <2> QED
    BY <1>1, <1>2, <2>1, <2>2, NoneIsNoValue, StepKeeps DEF Stages
<1>6. ASSUME NEW e \in Releases, NEW stage \in {"cache", "accept"}, proc[p].root # None,
             ReleaseVerified(p, e), Step(p, stage, [proc[p] EXCEPT !.release = e]),
             UNCHANGED <<history, day, records>>
      PROVE  Inv'
  <2> DEFINE r == [proc[p] EXCEPT !.release = e]
  <2>1. r \in ProcRec /\ r.root = proc[p].root /\ r.release = e /\ r.now = proc[p].now
    BY <1>1 DEF ProcRec
  <2>2. e # None /\ VerifyOnline(proc[p].root, e, proc[p].now)
    BY <1>6, NoneIsNoValue DEF ReleaseVerified
  <2> HIDE DEF r
  <2>3. Step(p, stage, r) /\ UNCHANGED <<history, day, state, cached, lock>>
    BY <1>6 DEF r, records
  <2> QED
    BY <1>2, <1>6, <2>1, <2>2, <2>3, StepKeeps DEF Stages
<1>7. CASE LoadCached(p)
  BY <1>1, <1>2, <1>6, <1>7 DEF LoadCached, StageInv
<1>8. CASE \E e \in Releases : FetchRelease(p, e)
  BY <1>1, <1>6, <1>8 DEF FetchRelease, StageInv
<1> QED
  BY <1>3, <1>4, <1>5, <1>7, <1>8

-----------------------------------------------------------------------------
\* Taking the lock.
LEMMA LockKeeps ==
  ASSUME Inv, NEW p \in Procs, Lock(p)
  PROVE  Inv'
<1> DEFINE r == Entering("locked", proc[p])
<1>1. proc \in [Procs -> ProcRec] /\ StageInv(proc[p], state) /\ proc[p].pc = "accept"
  BY TypeProc DEF Inv, Lock
<1>2. r \in ProcRec /\ r.pc = "locked" /\ r.root = proc[p].root /\ r.release = proc[p].release
      /\ r.now = proc[p].now
  BY <1>1, EnteringRec DEF Stages
<1>3. StageInv(r, state)
  BY <1>1, <1>2 DEF StageInv
<1>4. proc' = [proc EXCEPT ![p] = r] /\ lock = None /\ lock' = p
      /\ UNCHANGED <<history, day, state, cached>>
  BY DEF Lock, Step
<1> HIDE DEF r
<1>5. \A q \in Procs : proc'[q] = IF q = p THEN r ELSE proc[q]
  BY <1>1, <1>4
<1>6. proc' \in [Procs -> ProcRec]
  BY <1>1, <1>2, <1>4
<1>7. \A q \in Procs : proc[q].pc \notin {"locked", "publish"}
  BY <1>4, NoneIsNoValue DEF Inv, TypeOK
<1>8. TypeOK'
  BY <1>4, <1>5, <1>6, <1>7 DEF Inv, TypeOK, ProcRec
<1> QED
  BY <1>3, <1>4, <1>5, <1>8 DEF Inv, StateSigned, NotFrozen

\* Reading the state behind the lock.
LEMMA LoadStateKeeps ==
  ASSUME Inv, NEW p \in Procs, LoadState(p)
  PROVE  Inv'
<1> DEFINE r == Entering("publish", [proc[p] EXCEPT !.state = state])
<1>0. /\ [proc[p] EXCEPT !.state = state] \in ProcRec
      /\ [proc[p] EXCEPT !.state = state].root = proc[p].root
      /\ [proc[p] EXCEPT !.state = state].release = proc[p].release
      /\ [proc[p] EXCEPT !.state = state].now = proc[p].now
      /\ [proc[p] EXCEPT !.state = state].state = state
  BY TypeProc DEF Inv, TypeOK, ProcRec
<1>1. proc[p] \in ProcRec /\ StageInv(proc[p], state) /\ proc[p].pc = "locked"
  BY TypeProc DEF Inv, LoadState
<1>2. r \in ProcRec /\ r.pc = "publish" /\ r.root = proc[p].root /\ r.release = proc[p].release
      /\ r.now = proc[p].now /\ r.state = state
  BY <1>1, <1>0, EnteringRec DEF Stages
<1>3. ClockAccepted(state, proc[p].now) /\ NotRolledBack(state, proc[p].root, proc[p].release)
  BY DEF LoadState
<1>4. StageInv(r, state)
  BY <1>1, <1>2, <1>3 DEF StageInv
<1>5. lock = p
  BY <1>1 DEF Inv, TypeOK
<1>6. proc' = [proc EXCEPT ![p] = r] /\ UNCHANGED <<history, day, records>>
  BY DEF LoadState, Step
<1> HIDE DEF r
<1> QED
  BY <1>2, <1>4, <1>5, <1>6, ProcStep DEF records, Inv, TypeOK

\* What a process that publishes finds: the state it has read is the recorded
\* one, and the time it records is no earlier and at most Skew ahead.
LEMMA PublishFacts ==
  ASSUME Inv, NEW p \in Procs, Publish(p)
  PROVE  /\ proc[p].root \in AllRoots /\ proc[p].release \in Releases
         /\ state' = [root |-> proc[p].root, release |-> proc[p].release,
                      acceptedAt |-> AcceptedAt(p)]
         /\ AcceptedAt(p) \in 0..MaxDay
         /\ AcceptedAt(p) <= proc[p].now + Skew
         /\ state # None => AcceptedAt(p) >= state.acceptedAt
         /\ proc[p].state = state
         /\ NotRolledBack(state, proc[p].root, proc[p].release)
         /\ VerifyOnline(proc[p].root, proc[p].release, proc[p].now)
<1>1. proc[p] \in ProcRec /\ StageInv(proc[p], state) /\ proc[p].pc = "publish"
  BY TypeProc DEF Inv, Publish
<1>2. proc[p].root \in AllRoots /\ proc[p].release \in Releases /\ proc[p].now \in 0..MaxDay
      /\ proc[p].state = state /\ ClockAccepted(state, proc[p].now)
  BY <1>1 DEF StageInv, ProcRec
<1>3. state # None => state.acceptedAt \in 0..MaxDay
  BY DEF Inv, TypeOK, States
<1>4. AcceptedAt(p) \in 0..MaxDay /\ AcceptedAt(p) <= proc[p].now + Skew
      /\ (state # None => AcceptedAt(p) >= state.acceptedAt)
  BY <1>2, <1>3, EnvelopeAssumption DEF AcceptedAt, Later, ClockAccepted
<1> QED
  BY <1>1, <1>2, <1>4 DEF StageInv, Publish

\* Publishing the new state.
LEMMA PublishKeeps ==
  ASSUME Inv, NEW p \in Procs, Publish(p)
  PROVE  Inv'
<1> DEFINE at == AcceptedAt(p)
<1>1. /\ proc[p].root \in AllRoots /\ proc[p].release \in Releases
      /\ state' = [root |-> proc[p].root, release |-> proc[p].release, acceptedAt |-> at]
      /\ at \in 0..MaxDay /\ at <= proc[p].now + Skew
      /\ VerifyOnline(proc[p].root, proc[p].release, proc[p].now)
  BY PublishFacts
<1>2. proc \in [Procs -> ProcRec] /\ proc[p].pc = "publish" /\ lock = p /\ proc[p].now \in 0..MaxDay
  BY TypeProc DEF Inv, TypeOK, Publish
<1>3. /\ proc' = [proc EXCEPT ![p] = Idle] /\ lock' = None
      /\ UNCHANGED <<history, day, cached>>
  BY DEF Publish
<1> HIDE DEF at
<1>4. state' \in States /\ state'.root = proc[p].root /\ state'.release = proc[p].release
      /\ state'.acceptedAt = at
  BY <1>1 DEF States
<1>5. \A q \in Procs : proc'[q] = IF q = p THEN Idle ELSE proc[q]
  BY <1>2, <1>3
<1>6. proc' \in [Procs -> ProcRec]
  BY <1>2, <1>3, IdleRecord
<1>7. \A q \in Procs : q # p => proc[q].pc \notin {"locked", "publish"}
  BY <1>2 DEF Inv, TypeOK
<1>8. \A q \in Procs : proc'[q].pc \notin {"locked", "publish"}
  BY <1>5, <1>7, IdleRecord
<1>9. TypeOK'
  BY <1>3, <1>4, <1>6, <1>8 DEF Inv, TypeOK, ProcRec
<1>10. StateSigned'
  BY <1>1, <1>4 DEF StateSigned, VerifyOnline
<1>11. NotFrozen'
  <2>1. proc[p].root.expires \in Nat /\ proc[p].release.expires \in Nat
    BY <1>1, EnvelopeAssumption
  <2>2. proc[p].root.expires > proc[p].now /\ proc[p].release.expires > proc[p].now
    BY <1>1 DEF VerifyOnline
  <2>3. proc[p].root.expires > at - Skew /\ proc[p].release.expires > at - Skew
    BY <1>1, <1>2, <2>1, <2>2, EnvelopeAssumption
  <2> QED
    BY <1>4, <2>3 DEF NotFrozen
<1>12. \A q \in Procs : StageInv(proc'[q], state')
  <2> TAKE q \in Procs
  <2>1. StageInv(proc[q], state)
    BY DEF Inv
  <2> QED
    BY <1>5, <1>8, <2>1, IdleRecord DEF StageInv
<1> QED
  BY <1>9, <1>10, <1>11, <1>12 DEF Inv

\* A command that ends or dies.
LEMMA FailKeeps ==
  ASSUME Inv, NEW p \in Procs, Fail(p)
  PROVE  Inv'
<1>1. proc \in [Procs -> ProcRec]
  BY TypeProc DEF Inv
<1>2. /\ proc' = [proc EXCEPT ![p] = Idle]
      /\ lock' = IF lock = p THEN None ELSE lock
      /\ UNCHANGED <<history, day, state, cached>>
  BY DEF Fail
<1>3. \A q \in Procs : proc'[q] = IF q = p THEN Idle ELSE proc[q]
  BY <1>1, <1>2
<1>4. proc' \in [Procs -> ProcRec]
  BY <1>1, <1>2, IdleRecord
<1>5. \A q \in Procs : proc'[q].pc \in {"locked", "publish"} => lock' = q
  BY <1>2, <1>3, IdleRecord DEF Inv, TypeOK
<1>6. TypeOK'
  BY <1>2, <1>4, <1>5 DEF Inv, TypeOK, ProcRec
<1>7. \A q \in Procs : StageInv(proc'[q], state')
  BY <1>2, <1>3, IdleRecord DEF Inv, StageInv
<1> QED
  BY <1>2, <1>6, <1>7 DEF Inv, StateSigned, NotFrozen

-----------------------------------------------------------------------------
\* The invariant holds initially.
LEMMA InitInv == Init => Inv
<1> SUFFICES ASSUME Init PROVE Inv
  OBVIOUS
<1>1. proc \in [Procs -> ProcRec] /\ \A p \in Procs : proc[p] = Idle
  BY IdleRecord DEF Init
<1>2. TypeOK
  BY <1>1, IdleRecord, EnvelopeAssumption DEF Init, TypeOK, ProcRec
<1> QED
  BY <1>1, <1>2, IdleRecord DEF Init, Inv, StateSigned, NotFrozen, StageInv

\* Every step keeps it.
LEMMA NextInv == Inv /\ [Next]_vars => Inv'
<1> SUFFICES ASSUME Inv, [Next]_vars PROVE Inv'
  OBVIOUS
<1>1. CASE UNCHANGED vars
  BY <1>1 DEF vars, Inv, TypeOK, StateSigned, NotFrozen, StageInv
<1>2. CASE Clock /\ UNCHANGED records
  BY <1>2 DEF Clock, records, Inv, TypeOK, StateSigned, NotFrozen, StageInv
<1>3. ASSUME NEW p \in Procs, NEW offline \in BOOLEAN, Refresh(p, offline) PROVE Inv'
  BY <1>3, RefreshKeeps
<1>4. ASSUME NEW p \in Procs, RefreshRoots(p), UNCHANGED records PROVE Inv'
  BY <1>4, RefreshRootsKeeps
<1>5. ASSUME NEW p \in Procs,
             \/ NetworkError(p) \/ CheckRoot(p) \/ CacheRelease(p) \/ LoadCached(p)
             \/ \E e \in Releases : FetchRelease(p, e)
      PROVE  Inv'
  BY <1>5, ReleaseKeeps
<1>6. ASSUME NEW p \in Procs, NEW r \in AllRoots, NEW e \in Releases, VerifyLocal(p, r, e)
      PROVE  Inv'
  BY <1>6, VerifyLocalKeeps
<1>7. ASSUME NEW p \in Procs, Lock(p) \/ LoadState(p) \/ Publish(p) \/ Fail(p) PROVE Inv'
  BY <1>7, LockKeeps, LoadStateKeeps, PublishKeeps, FailKeeps
<1> QED
  BY <1>1, <1>2, <1>3, <1>4, <1>5, <1>6, <1>7 DEF Next

\* Only Publish writes the rollback state.
LEMMA OnlyPublish ==
  ASSUME Next, state' # state
  PROVE  \E p \in Procs : Publish(p)
BY DEF Next, records, Clock, Refresh, NetworkError, CheckRoot, FetchRelease, CacheRelease,
       LoadCached, VerifyLocal, Lock, LoadState, Fail

\* The rollback state moves forward.
LEMMA NextMonotone ==
  ASSUME Inv, Next, state' # state, state # None
  PROVE  /\ state' # None
         /\ NotBehind(state'.root, state.root)
         /\ NotBehind(state'.release, state.release)
         /\ state'.release.release >= state.release.release
         /\ state'.acceptedAt >= state.acceptedAt
<1>1. PICK p \in Procs : Publish(p)
  BY OnlyPublish
<1> DEFINE at == AcceptedAt(p)
<1>2. /\ state' = [root |-> proc[p].root, release |-> proc[p].release, acceptedAt |-> at]
      /\ at >= state.acceptedAt
      /\ NotRolledBack(state, proc[p].root, proc[p].release)
      /\ at \in 0..MaxDay
      /\ proc[p].root \in AllRoots /\ proc[p].release \in Releases
  BY <1>1, PublishFacts
<1> HIDE DEF at
<1>3. state'.root = proc[p].root /\ state'.release = proc[p].release /\ state'.acceptedAt = at
  BY <1>2
<1>4. state' # None
  BY <1>2, NoneIsNoValue DEF States
<1> QED
  BY <1>2, <1>3, <1>4 DEF NotRolledBack

-----------------------------------------------------------------------------
(* The root history: what a refresh trusts descends from the package's root *)

\* The stages in which a refresh holds the root it has established.  "accept"
\* is not one: the user's own root files reach it too.
Refreshing == {"replay", "roots", "store", "rooted", "offline", "release", "fallback", "cache"}

\* The root is the package's, or its payload is in the history.
Rooted(h, r) ==
  \/ r = Bootstrap
  \/ r.version > Bootstrap.version /\ h[r.version] # None /\ h[r.version].sha = r.sha

\* The keys of a root like that have signed it.
Signs(h, r) ==
  \E q \in AllRoots : Rooted(h, q) /\ r.version = q.version + 1 /\ RoleSigned(q.root, r)

Chained(h, r) == r = Bootstrap \/ (Rooted(h, r) /\ Signs(h, r))

\* What replaces the trusted root in the history: its successor, or the
\* package's root itself, which alone is trusted without having a file.
Storable(root, candidate) ==
  \/ candidate.version = root.version + 1 /\ RoleSigned(root.root, candidate)
  \/ root = Bootstrap /\ candidate.version = Bootstrap.version /\ candidate.sha = Bootstrap.sha

ChainStage(h, r) ==
  /\ r.pc \in Refreshing => Chained(h, r.root)
  /\ r.pc = "store" => Storable(r.root, r.candidate)

\* The history continues the package's root, and does not contradict it.
HistoryInv ==
  \A v \in Versions : history[v] # None =>
    /\ history[v].version = v
    /\ \/ v = Bootstrap.version /\ history[v].sha = Bootstrap.sha
       \/ v > Bootstrap.version /\ Signs(history, history[v])

ChainInv == HistoryInv /\ \A p \in Procs : ChainStage(history, proc[p])

\* The package's root is an envelope, and no envelope is None.
LEMMA BootstrapRoot ==
  /\ Bootstrap \in AllRoots /\ Bootstrap # None
  /\ \A r \in AllRoots : r # None /\ r.version \in Nat /\ r.version \in Versions
BY NoneIsNoValue, EnvelopeAssumption DEF AllRoots, Versions

\* A version is trusted with one payload.
LEMMA OnePayload ==
  ASSUME NEW h, NEW q \in AllRoots, NEW r \in AllRoots,
         Rooted(h, q), Rooted(h, r), q.version = r.version
  PROVE  q.root = r.root
BY BootstrapRoot, RootsAssumption DEF Rooted

\* A later history that keeps the payloads of an earlier one.
Extends(h, g) ==
  \A v \in Versions : h[v] # None => g[v] # None /\ g[v].sha = h[v].sha

\* What is said of a root stays true in a later history.
LEMMA RootStays ==
  ASSUME NEW h, NEW g, NEW r \in AllRoots, Extends(h, g)
  PROVE  /\ Rooted(h, r) => Rooted(g, r)
         /\ Signs(h, r) => Signs(g, r)
         /\ Chained(h, r) => Chained(g, r)
<1>1. \A q \in AllRoots : Rooted(h, q) => Rooted(g, q)
  BY BootstrapRoot DEF Extends, Rooted
<1>2. Signs(h, r) => Signs(g, r)
  BY <1>1 DEF Signs
<1> QED BY <1>1, <1>2 DEF Chained

\* A root that follows a chained one in the history is chained.
LEMMA NextChained ==
  ASSUME NEW h, NEW q \in AllRoots, NEW r \in AllRoots, Chained(h, q),
         r.version = q.version + 1, RoleSigned(q.root, r),
         h[r.version] # None, h[r.version].sha = r.sha
  PROVE  Chained(h, r)
<1>1. Rooted(h, q)
  BY DEF Chained, Rooted
<1>2. q.version >= Bootstrap.version
  BY <1>1, BootstrapRoot DEF Rooted
<1>3. Rooted(h, r)
  BY <1>2, BootstrapRoot DEF Rooted
<1> QED BY <1>1, <1>3 DEF Chained, Signs

\* A step of process p that leaves the history alone keeps the chain when p's
\* new record satisfies its part.
LEMMA ChainStep ==
  ASSUME Inv, ChainInv, NEW p \in Procs, NEW r, proc' = [proc EXCEPT ![p] = r],
         history' = history, ChainStage(history, r)
  PROVE  ChainInv'
<1>1. proc \in [Procs -> ProcRec]
  BY TypeProc DEF Inv
<1>2. \A q \in Procs : proc'[q] = IF q = p THEN r ELSE proc[q]
  BY <1>1
<1>3. HistoryInv'
  BY DEF ChainInv, HistoryInv, Signs, Rooted
<1> QED BY <1>2, <1>3 DEF ChainInv

\* ChainStep, for a step that Step describes.
LEMMA ChainStepTo ==
  ASSUME Inv, ChainInv, NEW p \in Procs, NEW stage \in Stages, NEW r \in ProcRec,
         Step(p, stage, r), history' = history,
         stage \in Refreshing => Chained(history, r.root),
         stage = "store" => Storable(r.root, r.candidate)
  PROVE  ChainInv'
<1> DEFINE s == Entering(stage, r)
<1>1. s.pc = stage /\ s.root = r.root /\ s.candidate = r.candidate
  BY EnteringRec
<1>2. proc' = [proc EXCEPT ![p] = s]
  BY DEF Step
<1> HIDE DEF s
<1>3. ChainStage(history, s)
  BY <1>1 DEF ChainStage
<1> QED BY <1>2, <1>3, ChainStep

\* ReplayRoot and FetchRoot: the next root is signed by the trusted one, and it
\* is trusted once the history has it.
LEMMA FetchChains ==
  ASSUME Inv, ChainInv, NEW p \in Procs,
         \/ ReplayRoot(p, proc[p].now)
         \/ \E e \in AllRoots : FetchRoot(p, e, proc[p].now)
  PROVE  ChainInv'
<1> DEFINE old == proc[p]
<1>1. old \in ProcRec /\ ChainStage(history, old) /\ StageInv(old, state)
  BY TypeProc DEF Inv, ChainInv
<1>2. history \in [Versions -> AllRoots \cup {None}]
  BY DEF Inv, TypeOK
<1>3. old.pc \in {"replay", "roots"}
  BY DEF ReplayRoot, FetchRoot
<1>4. old.root \in AllRoots /\ Chained(history, old.root)
  BY <1>1, <1>3 DEF StageInv, ChainStage, ProcRec, Refreshing
<1>5. CASE ReplayRoot(p, proc[p].now)
  <2> DEFINE next == history[NextFile(p)]
             r == [old EXCEPT !.root = next]
  <2>1. next \in AllRoots /\ next.version = old.root.version + 1
        /\ RoleSigned(old.root.root, next)
    BY <1>2, <1>5 DEF ReplayRoot, NextMissing, VerifyRootUpdate
  <2>2. history[next.version] = next
    BY <2>1 DEF NextFile
  <2>3. Step(p, "replay", r) /\ history' = history
    BY <1>5 DEF ReplayRoot
  <2> HIDE DEF next, old
  <2>4. Chained(history, next)
    BY <1>4, <2>1, <2>2, NextChained, BootstrapRoot
  <2>5. r \in ProcRec /\ r.root = next
    BY <1>1, <2>1 DEF ProcRec
  <2> HIDE DEF r
  <2> QED BY <2>3, <2>4, <2>5, ChainStepTo DEF Stages
<1>6. ASSUME NEW e \in AllRoots, FetchRoot(p, e, proc[p].now) PROVE ChainInv'
  <2> DEFINE root == Trusted(old.root, e)
             n == old.updates + 1
             kept == [old EXCEPT !.root = root, !.updates = n]
             stored == [old EXCEPT !.candidate = e, !.updates = n]
  <2>1. \/ e.version = old.root.version + 1 /\ RoleSigned(old.root.root, e)
        \/ e.version = old.root.version /\ e.sha = old.root.sha
    BY <1>6 DEF FetchRoot, Served, VerifyRootUpdate, SameRoot
  <2>2. history[e.version] \in {None, e} /\ KeepOrStore(p, e) /\ history' = history
    BY <1>6 DEF FetchRoot
  <2>3. n \in 0..MaxRootUpdates
    BY <1>1, <1>6, EnvelopeAssumption DEF FetchRoot, ProcRec
  <2>4. \/ history[e.version] = e /\ Step(p, "roots", kept)
        \/ history[e.version] = None /\ Step(p, "store", stored)
    BY <2>2 DEF KeepOrStore
  <2> HIDE DEF old, n
  <2>5. CASE history[e.version] = e /\ Step(p, "roots", kept)
    <3>1. Chained(history, root) /\ root \in AllRoots
      BY <1>4, <2>1, <2>5, NextChained, BootstrapRoot DEF Trusted
    <3> HIDE DEF root
    <3>2. kept \in ProcRec /\ kept.root = root
      BY <1>1, <2>3, <3>1 DEF ProcRec
    <3> HIDE DEF kept
    <3> QED BY <2>2, <2>5, <3>1, <3>2, ChainStepTo DEF Stages
  <2>6. CASE history[e.version] = None /\ Step(p, "store", stored)
    <3>1. Storable(old.root, e)
      BY <1>4, <2>1, <2>6 DEF Storable, Chained, Rooted
    <3>2. stored \in ProcRec /\ stored.root = old.root /\ stored.candidate = e
      BY <1>1, <2>3 DEF ProcRec
    <3> HIDE DEF stored
    <3> QED BY <1>4, <2>2, <2>6, <3>1, <3>2, ChainStepTo DEF Stages
  <2> QED BY <2>4, <2>5, <2>6
<1> QED BY <1>5, <1>6

\* storeRootHistory replaces a file by one of the same payload, or extends the
\* history by a successor of the trusted root.
LEMMA StoreExtends ==
  ASSUME Inv, ChainInv, NEW root \in AllRoots, NEW c \in AllRoots,
         Chained(history, root), Storable(root, c),
         history' = [history EXCEPT ![c.version] = c]
  PROVE  Extends(history, history') /\ HistoryInv'
<1>1. Rooted(history, root) /\ root.version >= Bootstrap.version
  BY BootstrapRoot DEF Chained, Rooted
<1>2. history \in [Versions -> AllRoots \cup {None}]
  BY DEF Inv, TypeOK
<1>3. /\ \A v \in Versions : history'[v] = IF v = c.version THEN c ELSE history[v]
      /\ c.version \in Versions /\ c # None
  BY <1>2, BootstrapRoot
<1>4. Extends(history, history')
  <2> DEFINE h == history[c.version]
  <2> SUFFICES ASSUME h # None PROVE h.sha = c.sha
    BY <1>3 DEF Extends
  <2>1. h \in AllRoots /\ h.version = c.version
        /\ \/ h.version = Bootstrap.version /\ h.sha = Bootstrap.sha
           \/ h.version > Bootstrap.version /\ Signs(history, h)
    BY <1>2, <1>3 DEF ChainInv, HistoryInv
  <2> HIDE DEF h
  <2>2. CASE h.version = Bootstrap.version /\ h.sha = Bootstrap.sha
    BY <1>1, <2>1, <2>2, BootstrapRoot DEF Storable
  <2>3. CASE h.version > Bootstrap.version /\ Signs(history, h)
    <3>1. PICK q \in AllRoots : /\ Rooted(history, q) /\ h.version = q.version + 1
                                /\ RoleSigned(q.root, h)
      BY <2>3 DEF Signs
    <3>2. c.version = root.version + 1 /\ RoleSigned(root.root, c)
      BY <2>1, <2>3, BootstrapRoot DEF Storable
    <3>3. q.version = root.version
      <4>1. q.version \in Nat /\ root.version \in Nat
        BY BootstrapRoot
      <4>2. q.version + 1 = root.version + 1
        BY <2>1, <3>1, <3>2
      <4> QED BY <4>1, <4>2
    <3>4. q.root = root.root
      BY <1>1, <3>1, <3>3, OnePayload
    <3> QED BY <2>1, <3>1, <3>2, <3>3, <3>4, RootsAssumption
  <2> QED BY <2>1, <2>2, <2>3
<1>5. ASSUME NEW v \in Versions, history'[v] # None
      PROVE  /\ history'[v].version = v
             /\ \/ v = Bootstrap.version /\ history'[v].sha = Bootstrap.sha
                \/ v > Bootstrap.version /\ Signs(history', history'[v])
  <2>1. CASE v = c.version
    <3>1. CASE c.version = root.version + 1 /\ RoleSigned(root.root, c)
      <4>1. Signs(history', c)
        BY <1>1, <1>4, <3>1, RootStays DEF Signs
      <4> QED BY <1>1, <1>3, <2>1, <3>1, <4>1, BootstrapRoot
    <3>2. CASE root = Bootstrap /\ c.version = Bootstrap.version /\ c.sha = Bootstrap.sha
      BY <1>3, <2>1, <3>2
    <3> QED BY <3>1, <3>2 DEF Storable
  <2>2. CASE v # c.version
    <3>1. history'[v] = history[v] /\ history[v] \in AllRoots
      BY <1>2, <1>3, <1>5, <2>2
    <3> QED BY <1>4, <1>5, <3>1, RootStays DEF ChainInv, HistoryInv
  <2> QED BY <2>1, <2>2
<1> QED BY <1>4, <1>5 DEF HistoryInv

\* StoreRoot keeps the chain of every refresh, and extends its own.
LEMMA StoreChains ==
  ASSUME Inv, ChainInv, NEW p \in Procs, StoreRoot(p)
  PROVE  ChainInv'
<1> DEFINE old == proc[p]
           c == old.candidate
           next == Trusted(old.root, c)
           r == [old EXCEPT !.root = next, !.candidate = None]
           s == Entering("roots", r)
<1>1. proc \in [Procs -> ProcRec] /\ ChainStage(history, old) /\ StageInv(old, state)
      /\ old.pc = "store"
  BY TypeProc DEF Inv, ChainInv, StoreRoot
<1>2. old.root \in AllRoots /\ c \in AllRoots /\ Chained(history, old.root) /\ Storable(old.root, c)
  BY <1>1 DEF StageInv, ChainStage, ProcRec, Refreshing
<1>3. history' = [history EXCEPT ![c.version] = c] /\ proc' = [proc EXCEPT ![p] = s]
  BY DEF StoreRoot, Step
<1>4. history \in [Versions -> AllRoots \cup {None}]
  BY DEF Inv, TypeOK
<1>5. old \in ProcRec
  BY <1>1
<1> HIDE DEF old, c
<1>6. Extends(history, history') /\ HistoryInv'
  BY <1>2, <1>3, StoreExtends
<1>7. history'[c.version] = c /\ c # None
  BY <1>2, <1>3, <1>4, BootstrapRoot
<1>8. next \in AllRoots /\ Chained(history', next)
  <2>1. Chained(history', old.root)
    BY <1>2, <1>6, RootStays
  <2> QED BY <1>2, <1>7, <2>1, NextChained DEF Storable, Trusted
<1> HIDE DEF next
<1>9. r \in ProcRec /\ r.root = next
  BY <1>5, <1>8 DEF ProcRec
<1> HIDE DEF r
<1>10. s.pc = "roots" /\ s.root = next
  BY <1>9, EnteringRec DEF Stages
<1> HIDE DEF s
<1>11. \A q \in Procs : proc'[q] = IF q = p THEN s ELSE proc[q]
  BY <1>1, <1>3
<1>12. ASSUME NEW q \in Procs PROVE ChainStage(history', proc'[q])
  <2>1. CASE q = p
    BY <1>8, <1>10, <1>11, <2>1 DEF ChainStage
  <2>2. CASE q # p
    <3>1. proc'[q] = proc[q] /\ proc[q] \in ProcRec /\ StageInv(proc[q], state)
          /\ ChainStage(history, proc[q])
      BY <1>1, <1>11, <2>2 DEF Inv, ChainInv
    <3>2. proc[q].pc \in Refreshing => proc[q].root \in AllRoots
      BY <3>1 DEF StageInv, ProcRec, Refreshing
    <3> QED BY <1>6, <3>1, <3>2, RootStays DEF ChainStage
  <2> QED BY <2>1, <2>2
<1> QED BY <1>6, <1>12 DEF ChainInv

\* Every step keeps the chain.
LEMMA NextChain == Inv /\ ChainInv /\ [Next]_vars => ChainInv'
<1> SUFFICES ASSUME Inv, ChainInv, [Next]_vars PROVE ChainInv'
  OBVIOUS
<1>1. CASE UNCHANGED <<history, proc>>
  BY <1>1 DEF ChainInv, HistoryInv, Signs, Rooted
<1>2. ASSUME NEW p \in Procs, NEW offline \in BOOLEAN, Refresh(p, offline) PROVE ChainInv'
  <2> DEFINE r == [Idle EXCEPT !.offline = offline, !.now = day, !.root = Bootstrap,
                               !.state = state]
  <2>1. r \in ProcRec /\ r.root = Bootstrap
    BY IdleRecord, BootstrapRoot DEF Inv, TypeOK, ProcRec, Idle
  <2>2. Step(p, "replay", r) /\ history' = history
    BY <1>2 DEF Refresh
  <2> HIDE DEF r
  <2> QED BY <2>1, <2>2, ChainStepTo DEF Stages, Chained
<1>3. ASSUME NEW p \in Procs, NEW root \in AllRoots, NEW e \in Releases, VerifyLocal(p, root, e)
      PROVE  ChainInv'
  <2> DEFINE r == [Idle EXCEPT !.now = day, !.root = root, !.release = e]
  <2>1. r \in ProcRec
    BY IdleRecord DEF Inv, TypeOK, ProcRec, Idle
  <2>2. Step(p, "accept", r) /\ history' = history
    BY <1>3 DEF VerifyLocal
  <2> HIDE DEF r
  <2> QED BY <2>1, <2>2, ChainStepTo DEF Stages, Refreshing
<1>4. ASSUME NEW p \in Procs, RefreshRoots(p) PROVE ChainInv'
  <2>1. CASE EndReplay(p, IF proc[p].offline THEN "offline" ELSE "roots")
    <3>1. proc[p] \in ProcRec /\ Chained(history, proc[p].root) /\ history' = history
      BY <2>1, TypeProc DEF Inv, ChainInv, ChainStage, EndReplay, Refreshing
    <3>2. Step(p, "offline", proc[p]) \/ Step(p, "roots", proc[p])
      BY <2>1 DEF EndReplay
    <3> QED BY <3>1, <3>2, ChainStepTo DEF Stages
  <2>2. CASE RootsNotFound(p, "rooted")
    <3>1. proc[p] \in ProcRec /\ Chained(history, proc[p].root) /\ history' = history
          /\ Step(p, "rooted", proc[p])
      BY <2>2, TypeProc DEF Inv, ChainInv, ChainStage, RootsNotFound, Refreshing
    <3> QED BY <3>1, ChainStepTo DEF Stages
  <2> QED BY <1>4, <2>1, <2>2, FetchChains, StoreChains DEF RefreshRoots
<1>5. ASSUME NEW p \in Procs, NetworkError(p) \/ CheckRoot(p) \/ CacheRelease(p) PROVE ChainInv'
  <2>1. proc[p] \in ProcRec /\ Chained(history, proc[p].root) /\ history' = history
    BY <1>5, TypeProc DEF Inv, ChainInv, ChainStage, NetworkError, CheckRoot, CacheRelease, Refreshing
  <2>2. PICK stage \in {"offline", "fallback", "release", "accept"} : Step(p, stage, proc[p])
    BY <1>5 DEF NetworkError, CheckRoot, CacheRelease
  <2> QED BY <2>1, <2>2, ChainStepTo DEF Stages
<1>6. ASSUME NEW p \in Procs, NEW e \in Releases, FetchRelease(p, e) PROVE ChainInv'
  <2> DEFINE r == [proc[p] EXCEPT !.release = e]
  <2>1. proc[p] \in ProcRec /\ Chained(history, proc[p].root) /\ history' = history
    BY <1>6, TypeProc DEF Inv, ChainInv, ChainStage, FetchRelease, Refreshing
  <2>2. r \in ProcRec /\ r.root = proc[p].root
    BY <2>1 DEF ProcRec
  <2>3. Step(p, "cache", r)
    BY <1>6 DEF FetchRelease
  <2> HIDE DEF r
  <2> QED BY <2>1, <2>2, <2>3, ChainStepTo DEF Stages
<1>7. ASSUME NEW p \in Procs, NEW stage \in {"accept", "locked", "publish"}, NEW r \in ProcRec,
             Step(p, stage, r), history' = history
      PROVE  ChainInv'
  BY <1>7, ChainStepTo DEF Stages, Refreshing
<1>8. ASSUME NEW p \in Procs, LoadCached(p) \/ Lock(p) \/ LoadState(p) PROVE ChainInv'
  <2>1. proc[p] \in ProcRec /\ state \in States \cup {None} /\ cached \in Releases \cup {None}
    BY TypeProc DEF Inv, TypeOK
  <2>2. [proc[p] EXCEPT !.release = cached] \in ProcRec
        /\ [proc[p] EXCEPT !.state = state] \in ProcRec
    BY <2>1 DEF ProcRec
  <2> QED BY <1>7, <1>8, <2>1, <2>2 DEF LoadCached, Lock, LoadState
<1>9. ASSUME NEW p \in Procs, Publish(p) \/ Fail(p) PROVE ChainInv'
  <2>1. proc' = [proc EXCEPT ![p] = Idle] /\ history' = history
    BY <1>9 DEF Publish, Fail
  <2>2. ChainStage(history, Idle)
    BY IdleRecord DEF ChainStage, Refreshing
  <2> QED BY <2>1, <2>2, ChainStep
<1> QED
  BY <1>1, <1>2, <1>3, <1>4, <1>5, <1>6, <1>8, <1>9 DEF Next, vars, Clock

-----------------------------------------------------------------------------
\* The inductive invariant.
LEMMA InvAlways == Spec => []Inv
  BY InitInv, NextInv, PTL DEF Spec

\* Every variable keeps its shape and a process between flock and unlock is
\* the only one there, for any number of commands and any envelopes.
THEOREM TypeCorrect == Spec => []TypeOK
  BY InvAlways, PTL DEF Inv

\* What AcceptReleaseMetadata records was signed by the recorded root's role.
THEOREM Signed == Spec => []StateSigned
  BY InvAlways, PTL DEF Inv

\* What AcceptReleaseMetadata records had not expired, up to the tolerated
\* clock rollback.
THEOREM Fresh == Spec => []NotFrozen
  BY InvAlways, PTL DEF Inv

\* However commands overlap, the rollback state only moves forward.
THEOREM Monotone == Spec => StateMonotone
<1>1. Inv /\ [Next]_vars =>
        [state # None =>
           /\ state' # None
           /\ NotBehind(state'.root, state.root)
           /\ NotBehind(state'.release, state.release)
           /\ state'.release.release >= state.release.release
           /\ state'.acceptedAt >= state.acceptedAt]_state
  BY NextMonotone DEF vars
<1> QED
  BY <1>1, InvAlways, PTL DEF Spec, StateMonotone

\* However refreshes share the cache, and whatever roots a user names to the
\* commands beside them, RefreshReleaseChannel trusts no root that does not
\* descend from the package's bootstrap root.
THEOREM RefreshLinkedHolds == Spec => []RefreshLinked
<1>1. Init => ChainInv
  <2> SUFFICES ASSUME Init PROVE ChainInv
    OBVIOUS
  <2>1. \A p \in Procs : ChainStage(history, proc[p])
    BY IdleRecord DEF Init, ChainStage, Refreshing
  <2> QED BY <2>1 DEF Init, ChainInv, HistoryInv
<1>2. Inv /\ ChainInv => RefreshLinked
  <2> SUFFICES ASSUME Inv, ChainInv, NEW p \in Procs,
                      proc[p].pc \in {"rooted", "offline", "release", "fallback", "cache"}
               PROVE  Linked(proc[p].root)
    BY DEF RefreshLinked
  <2> DEFINE r == proc[p].root
  <2>1. r \in AllRoots /\ Chained(history, r)
    BY TypeProc DEF Inv, ChainInv, ChainStage, StageInv, ProcRec, Refreshing
  <2> HIDE DEF r
  <2>2. CASE r = Bootstrap
    BY <2>2 DEF Linked, r
  <2>3. CASE r # Bootstrap
    <3>1. PICK q \in AllRoots : /\ Rooted(history, q) /\ r.version = q.version + 1
                                /\ RoleSigned(q.root, r)
      BY <2>1, <2>3 DEF Chained, Signs
    <3>2. CASE q = Bootstrap
      BY <3>1, <3>2, BootstrapRoot DEF Linked, r
    <3>3. CASE q # Bootstrap
      <4> DEFINE s == history[q.version]
      <4>1. s \in AllRoots /\ s.version = q.version /\ s.sha = q.sha
        BY <3>1, <3>3, BootstrapRoot DEF Rooted, Inv, TypeOK, ChainInv, HistoryInv
      <4>2. s.root = q.root /\ history[s.version] = s
        BY <4>1, RootsAssumption
      <4> HIDE DEF s
      <4> QED BY <3>1, <4>1, <4>2 DEF Linked, r
    <3> QED BY <3>2, <3>3
  <2> QED BY <2>2, <2>3
<1> QED
  BY <1>1, <1>2, InvAlways, NextChain, PTL DEF Spec
==============================================================================

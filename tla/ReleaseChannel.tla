---------------------------- MODULE ReleaseChannel ----------------------------
(***************************************************************************)
(* The signed release metadata of RufusArm64 itself                        *)
(* (internal/acquisition/release_channel.go, update_state_linux.go):       *)
(* `update refresh' fetches or replays the root chain and the release      *)
(* envelope into an unlocked cache, `update verify' and `update download'  *)
(* read a root chain and a release envelope that the user supplies, and    *)
(* all of them accept the result through the rollback state under an       *)
(* exclusive flock.  A command reads the clock once, when it starts.       *)
(***************************************************************************)
EXTENDS RootHistory

CONSTANTS
  Releases,   \* release envelopes that exist; .release is the release version
  Installed   \* the installed version

\* What the rollback state can record.
States == [root : AllRoots, release : Releases, acceptedAt : 0..MaxDay]

ASSUME NoneIsNoValue == None \notin AllRoots \cup Releases \cup Procs \cup States

ASSUME EnvelopeAssumption ==
  /\ \A e \in AllRoots \cup Releases : e.version \in Nat /\ e.expires \in Nat
  /\ \A e \in Releases : e.release \in Nat
  /\ Skew \in Nat
  /\ MaxDay \in Nat
  /\ MaxRootUpdates \in Nat

VARIABLES
  state,    \* the rollback state: [root, release, acceptedAt]
  cached,   \* release.json
  lock      \* the process that holds the flock on state.json.lock

vars == <<history, day, proc, state, cached, lock>>
records == <<state, cached, lock>>

-----------------------------------------------------------------------------
Idle == [pc |-> "idle", offline |-> FALSE, now |-> 0, root |-> None, state |-> None,
         updates |-> 0, candidate |-> None, release |-> None]

\* Mutant: the clock is not compared with the last acceptance.
ClockIgnored(s, now) == TRUE

\* enforceUpdateStateClock.
ClockAccepted(s, now) == s # None => now >= s.acceptedAt - Skew

\* enforceReleaseChannelRootState.
RootNotBehind(s, root) == s # None => NotBehind(root, s.root)

\* enforceUpdateStateRollback.
NotRolledBack(s, root, release) ==
  s # None => /\ NotBehind(root, s.root)
              /\ NotBehind(release, s.release)
              /\ release.release >= s.release.release

-----------------------------------------------------------------------------
(* update refresh: RefreshReleaseChannel *)

\* The rollback state is read, without the lock, and the bootstrap verified.
Refresh(p, offline) ==
  /\ At(p, "idle")
  /\ ClockAccepted(state, day)
  /\ VerifyBootstrapRoot(Bootstrap, day)
  /\ Step(p, "replay", [Idle EXCEPT !.offline = offline, !.now = day,
                                    !.root = Bootstrap, !.state = state])
  /\ UNCHANGED <<history, day, records>>

RefreshRoots(p) ==
  \/ ReplayRoot(p, proc[p].now)
  \/ EndReplay(p, IF proc[p].offline THEN "offline" ELSE "roots")
  \/ \E r \in AllRoots : FetchRoot(p, r, proc[p].now)
  \/ StoreRoot(p)
  \/ RootsNotFound(p, "rooted")

\* A server that cannot be reached: AllowCachedOnNetworkError is always set.
NetworkError(p) ==
  /\ proc[p].pc \in {"roots", "release"}
  /\ Step(p, IF At(p, "roots") THEN "offline" ELSE "fallback", proc[p])
  /\ UNCHANGED <<history, day, records>>

CheckRoot(p) ==
  /\ proc[p].pc \in {"rooted", "offline"}
  /\ RootNotBehind(proc[p].state, proc[p].root)
  /\ Step(p, IF At(p, "rooted") THEN "release" ELSE "fallback", proc[p])
  /\ UNCHANGED <<history, day, records>>

ReleaseVerified(p, e) ==
  /\ VerifyOnline(proc[p].root, e, proc[p].now)
  /\ NotRolledBack(proc[p].state, proc[p].root, e)

FetchRelease(p, e) ==
  /\ At(p, "release")
  /\ ReleaseVerified(p, e)
  /\ Step(p, "cache", [proc[p] EXCEPT !.release = e])
  /\ UNCHANGED <<history, day, records>>

CacheRelease(p) ==
  /\ At(p, "cache")
  /\ cached' = proc[p].release
  /\ Step(p, "accept", proc[p])
  /\ UNCHANGED <<history, day, state, lock>>

\* Mutant: the signatures of what was cached are not verified again.
CacheTrusted(p) ==
  /\ At(p, "fallback")
  /\ cached # None
  /\ cached.expires > proc[p].now /\ proc[p].root.expires > proc[p].now
  /\ NotRolledBack(proc[p].state, proc[p].root, cached)
  /\ Step(p, "accept", [proc[p] EXCEPT !.release = cached])
  /\ UNCHANGED <<history, day, records>>

LoadCached(p) ==
  /\ At(p, "fallback")
  /\ cached # None
  /\ ReleaseVerified(p, cached)
  /\ Step(p, "accept", [proc[p] EXCEPT !.release = cached])
  /\ UNCHANGED <<history, day, records>>

-----------------------------------------------------------------------------
(* update verify, update download: the user's files *)

\* Any chain of roots the user names starts with a root that signs itself; so
\* does the last one, which is what the chain amounts to.
VerifyLocal(p, r, e) ==
  /\ At(p, "idle")
  /\ VerifyBootstrapRoot(r, day)
  /\ VerifyOnline(r, e, day)
  /\ Step(p, "accept", [Idle EXCEPT !.now = day, !.root = r, !.release = e])
  /\ UNCHANGED <<history, day, records>>

-----------------------------------------------------------------------------
(* AcceptReleaseMetadata *)

\* flock(LOCK_EX) waits.
Lock(p) ==
  /\ At(p, "accept")
  /\ lock = None
  /\ lock' = p
  /\ Step(p, "locked", proc[p])
  /\ UNCHANGED <<history, day, state, cached>>

\* Mutant: the state the refresh read before the lock is trusted.
TrustSnapshot(p) ==
  /\ At(p, "locked")
  /\ ClockAccepted(proc[p].state, proc[p].now)
  /\ NotRolledBack(proc[p].state, proc[p].root, proc[p].release)
  /\ proc[p].release.release >= Installed
  /\ Step(p, "publish", proc[p])
  /\ UNCHANGED <<history, day, records>>

\* The state is read again under the lock, and EvaluateRelease refuses a
\* release below the installed one.
LoadState(p) ==
  /\ At(p, "locked")
  /\ ClockAccepted(state, proc[p].now)
  /\ NotRolledBack(state, proc[p].root, proc[p].release)
  /\ proc[p].release.release >= Installed
  /\ Step(p, "publish", [proc[p] EXCEPT !.state = state])
  /\ UNCHANGED <<history, day, records>>

Later(a, b) == IF a > b THEN a ELSE b

AcceptedAt(p) ==
  IF proc[p].state = None THEN proc[p].now ELSE Later(proc[p].now, proc[p].state.acceptedAt)

Publish(p) ==
  /\ At(p, "publish")
  /\ state' = [root |-> proc[p].root, release |-> proc[p].release,
               acceptedAt |-> AcceptedAt(p)]
  /\ lock' = None
  /\ proc' = [proc EXCEPT ![p] = Idle]
  /\ UNCHANGED <<history, day, cached>>

\* Every other return, and the death of the process: the kernel drops the lock.
Fail(p) ==
  /\ ~At(p, "idle")
  /\ proc' = [proc EXCEPT ![p] = Idle]
  /\ lock' = IF lock = p THEN None ELSE lock
  /\ UNCHANGED <<history, day, state, cached>>

-----------------------------------------------------------------------------
Init ==
  /\ history = [v \in Versions |-> None]
  /\ state = None
  /\ cached = None
  /\ lock = None
  /\ day = 0
  /\ proc = [p \in Procs |-> Idle]

Next ==
  \/ Clock /\ UNCHANGED records
  \/ \E p \in Procs :
       \/ \E offline \in BOOLEAN : Refresh(p, offline)
       \/ RefreshRoots(p) /\ UNCHANGED records
       \/ NetworkError(p) \/ CheckRoot(p)
       \/ \E e \in Releases : FetchRelease(p, e)
       \/ CacheRelease(p) \/ LoadCached(p)
       \/ \E r \in AllRoots, e \in Releases : VerifyLocal(p, r, e)
       \/ Lock(p) \/ LoadState(p) \/ Publish(p) \/ Fail(p)

Spec == Init /\ [][Next]_vars

-----------------------------------------------------------------------------
(* Properties *)

Stages == {"idle", "replay", "roots", "store", "rooted", "offline", "release",
           "fallback", "cache", "accept", "locked", "publish"}

\* Every variable has its shape, and a process behind the lock holds it.
TypeOK ==
  /\ history \in [Versions -> AllRoots \cup {None}]
  /\ day \in 0..MaxDay
  /\ state \in States \cup {None}
  /\ cached \in Releases \cup {None}
  /\ proc \in [Procs -> [pc : Stages, offline : BOOLEAN, now : 0..MaxDay,
                         root : AllRoots \cup {None}, state : States \cup {None},
                         updates : 0..MaxRootUpdates, candidate : AllRoots \cup {None},
                         release : Releases \cup {None}]]
  /\ lock \in Procs \cup {None}
  /\ \A p \in Procs : proc[p].pc \in {"locked", "publish"} => lock = p

\* The recorded root, metadata version, release version and acceptance time
\* never go back, and no version is accepted with another payload, however
\* many refreshes, verifications and downloads overlap, whatever they read
\* before the lock, and wherever one dies.
StateMonotone ==
  [][state # None =>
       /\ state' # None
       /\ NotBehind(state'.root, state.root)
       /\ NotBehind(state'.release, state.release)
       /\ state'.release.release >= state.release.release
       /\ state'.acceptedAt >= state.acceptedAt]_state

\* The recorded release is signed by the release role of the very root that is
\* recorded with it.
StateSigned == state # None => RoleSigned(state.root.online, state.release)

\* The recorded release and root had not expired when they were accepted, give
\* or take the clock rollback that is tolerated: a server that keeps serving
\* the same files can hold a client back no longer than that.
NotFrozen ==
  state # None =>
    /\ state.release.expires > state.acceptedAt - Skew
    /\ state.root.expires > state.acceptedAt - Skew

\* A root that a refresh trusts descends from the package's bootstrap root,
\* although the user's own root files reach the rollback state.
RefreshLinked ==
  \A p \in Procs : proc[p].pc \in {"rooted", "offline", "release", "fallback", "cache"}
                     => Linked(proc[p].root)
==============================================================================

----------------------------- MODULE RootHistory -----------------------------
(***************************************************************************)
(* The part of a refresh that establishes the trusted root, shared by      *)
(* RefreshChannel and RefreshReleaseChannel (internal/acquisition): replay *)
(* the cached roots over the package's bootstrap root, then fetch newer    *)
(* roots and store each one before it is used.  The directory is not       *)
(* locked.                                                                 *)
(*                                                                         *)
(* The network is free to serve any envelope that exists, old or new, for  *)
(* any request, or to fail.  A process may die between any two steps; each *)
(* file is replaced by an atomic rename.                                   *)
(***************************************************************************)
EXTENDS RootChain

CONSTANTS
  Procs,          \* processes that refresh a channel
  Bootstrap,      \* the package-owned root
  Roots,          \* other root envelopes that exist
  MaxRootUpdates, \* maxChannelRootUpdates
  MaxDay,         \* bound on the wall clock
  None

AllRoots == Roots \cup {Bootstrap}
Versions == {r.version : r \in AllRoots}

ASSUME BootstrapAssumption ==
  /\ RoleSigned(Bootstrap.root, Bootstrap)
  /\ ValidRole(Bootstrap.root, 2) /\ ValidRole(Bootstrap.online, 1)

\* The hash is of the payload, and the holders of a root's keys sign one
\* successor of it.
ASSUME RootsAssumption ==
  /\ \A r, s \in AllRoots : r.sha = s.sha => r.version = s.version /\ r.root = s.root
  /\ \A q, r, s \in AllRoots :
       /\ r.version = q.version + 1 /\ s.version = q.version + 1
       /\ RoleSigned(q.root, r) /\ RoleSigned(q.root, s)
       => r.sha = s.sha

VARIABLES
  history,  \* roots/root.<version>.json
  day,      \* the wall clock
  proc      \* the refreshes in progress

At(p, stage) == proc[p].pc = stage
\* updates counts the turns of the loop that fetches roots, offline chooses how
\* the replay goes on: they are out of scope elsewhere.
Entering(stage, r) ==
  [r EXCEPT !.pc = stage,
            !.updates = IF stage \in {"roots", "store"} THEN @ ELSE 0,
            !.offline = IF stage \in {"replay", "load"} THEN @ ELSE FALSE]
Step(p, stage, r) == proc' = [proc EXCEPT ![p] = Entering(stage, r)]

-----------------------------------------------------------------------------
NextFile(p) == proc[p].root.version + 1
NextMissing(p) == NextFile(p) \in Versions => history[NextFile(p)] = None

\* One turn of replayCachedRoots.
ReplayRoot(p, now) ==
  /\ At(p, "replay")
  /\ ~NextMissing(p)
  /\ VerifyRootUpdate(proc[p].root, history[NextFile(p)], now)
  /\ Step(p, "replay", [proc[p] EXCEPT !.root = history[NextFile(p)]])
  /\ UNCHANGED <<history, day>>

EndReplay(p, stage) ==
  /\ At(p, "replay")
  /\ NextMissing(p)
  /\ Step(p, stage, proc[p])
  /\ UNCHANGED <<history, day>>

Served(p, r, now) ==
  \/ VerifyRootUpdate(proc[p].root, r, now)
  \/ SameRoot(proc[p].root, r, now)

\* The trusted root served again is kept, whatever it is signed with.
Trusted(root, r) == IF r.version = root.version THEN root ELSE r

\* The file is there already, or it is written by StoreRoot.
KeepOrStore(p, r) ==
  IF history[r.version] = r
  THEN Step(p, "roots", [proc[p] EXCEPT !.root = Trusted(@, r), !.updates = @ + 1])
  ELSE Step(p, "store", [proc[p] EXCEPT !.candidate = r, !.updates = @ + 1])

\* Mutant: a server that repeats its answer keeps the refresh busy.
FetchUnlimited(p, r, now) ==
  /\ At(p, "roots")
  /\ Served(p, r, now)
  /\ history[r.version] \in {None, r}
  /\ KeepOrStore(p, r)
  /\ UNCHANGED <<history, day>>

\* The server has a root for the next version, or serves the trusted one again.
\* storeRootHistory refuses to replace a file by other content.
FetchRoot(p, r, now) ==
  /\ At(p, "roots")
  /\ proc[p].updates < MaxRootUpdates
  /\ Served(p, r, now)
  /\ history[r.version] \in {None, r}
  /\ KeepOrStore(p, r)
  /\ UNCHANGED <<history, day>>

\* Mutant: the history file is not written.
SkipStore(p) ==
  /\ At(p, "store")
  /\ Step(p, "roots", [proc[p] EXCEPT !.root = Trusted(@, proc[p].candidate), !.candidate = None])
  /\ UNCHANGED <<history, day>>

StoreRoot(p) ==
  /\ At(p, "store")
  /\ history' = [history EXCEPT ![proc[p].candidate.version] = proc[p].candidate]
  /\ Step(p, "roots", [proc[p] EXCEPT !.root = Trusted(@, proc[p].candidate), !.candidate = None])
  /\ UNCHANGED day

RootsNotFound(p, stage) ==
  /\ At(p, "roots")
  /\ Step(p, stage, proc[p])
  /\ UNCHANGED <<history, day>>

\* The clock runs, and is set back.
Clock ==
  /\ day' \in 0..MaxDay
  /\ day' \in {day - 1, day - 2, day + 1}
  /\ UNCHANGED <<history, proc>>

-----------------------------------------------------------------------------
\* Signed by the holders of the previous root's keys as well: the rotation
\* that a genuine root is published with.
Linked(r) ==
  r = Bootstrap \/ \E q \in AllRoots : /\ history[q.version] = q \/ q = Bootstrap
                                       /\ r.version = q.version + 1
                                       /\ RoleSigned(q.root, r)
==============================================================================

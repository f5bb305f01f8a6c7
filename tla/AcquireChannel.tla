---------------------------- MODULE AcquireChannel ----------------------------
(***************************************************************************)
(* RefreshChannel (internal/acquisition/channel.go): what every            *)
(* `rufusarm64-cli acquire channel' command and the graphical catalog      *)
(* dialog run before they trust an image list.  A refresh replays the      *)
(* cached roots, loads the rollback state, fetches newer roots and the     *)
(* catalog, falls back to the cached catalog when the network fails, and   *)
(* stores the accepted state.  Nothing locks the cache directory, and      *)
(* every check reads the clock anew.                                       *)
(***************************************************************************)
EXTENDS RootHistory

CONSTANTS Catalogs   \* catalog envelopes that exist

ASSUME NoneIsNoEnvelope == None \notin AllRoots \cup Catalogs

ASSUME EnvelopeAssumption ==
  /\ \A e \in AllRoots \cup Catalogs : e.version \in Nat
  /\ MaxDay \in Nat

VARIABLES
  state,    \* state.json: [root, catalog, acceptedAt]
  cached,   \* catalog.json
  accepted  \* the last ChannelResult a process returned

vars == <<history, day, proc, state, cached, accepted>>
records == <<state, cached, accepted>>

-----------------------------------------------------------------------------
Idle == [pc |-> "idle", offline |-> FALSE, root |-> None, state |-> None,
         updates |-> 0, candidate |-> None, catalog |-> None]

\* The bootstrap root is verified.
Start(p, offline) ==
  /\ At(p, "idle")
  /\ VerifyBootstrapRoot(Bootstrap, day)
  /\ Step(p, "replay", [Idle EXCEPT !.offline = offline, !.root = Bootstrap])
  /\ UNCHANGED <<history, day, records>>

\* enforceChannelClock.
ClockAccepted(s) == day >= s.acceptedAt - Skew

\* loadChannelState and the checks on what it returns.
LoadState(p) ==
  /\ At(p, "load")
  /\ state # None => /\ NotBehind(proc[p].root, state.root)
                     /\ ClockAccepted(state)
  /\ Step(p, IF proc[p].offline THEN "fallback" ELSE "roots",
          [proc[p] EXCEPT !.state = state])
  /\ UNCHANGED <<history, day, records>>

-----------------------------------------------------------------------------
\* AllowCachedOnNetworkError, which the command line always sets.
NetworkError(p) ==
  /\ proc[p].pc \in {"roots", "catalog"}
  /\ Step(p, "fallback", proc[p])
  /\ UNCHANGED <<history, day, records>>

\* enforceChannelRollback, against the state that was loaded.
NotRolledBack(s, root, catalog) ==
  s # None => NotBehind(root, s.root) /\ NotBehind(catalog, s.catalog)

FetchCatalog(p, c) ==
  /\ At(p, "catalog")
  /\ VerifyOnline(proc[p].root, c, day)
  /\ NotRolledBack(proc[p].state, proc[p].root, c)
  /\ Step(p, "cache", [proc[p] EXCEPT !.catalog = c])
  /\ UNCHANGED <<history, day, records>>

CacheCatalog(p) ==
  /\ At(p, "cache")
  /\ cached' = proc[p].catalog
  /\ Step(p, "accept", proc[p])
  /\ UNCHANGED <<history, state, day, accepted>>

\* loadCachedChannelCatalog.
LoadCached(p) ==
  /\ At(p, "fallback")
  /\ cached # None
  /\ VerifyOnline(proc[p].root, cached, day)
  /\ NotRolledBack(proc[p].state, proc[p].root, cached)
  /\ Step(p, "accept", [proc[p] EXCEPT !.catalog = cached])
  /\ UNCHANGED <<history, day, records>>

Later(a, b) == IF a > b THEN a ELSE b

\* Mutant: the acceptance time is the clock's.
ClockTime(s) == day

AcceptedAt(s) == IF s = None THEN day ELSE Later(day, s.acceptedAt)

\* storeAcceptedChannelState; the result is returned.
Accept(p) ==
  /\ At(p, "accept")
  /\ state' = [root |-> proc[p].root, catalog |-> proc[p].catalog,
               acceptedAt |-> AcceptedAt(proc[p].state)]
  /\ accepted' = [root |-> proc[p].root, catalog |-> proc[p].catalog]
  /\ proc' = [proc EXCEPT ![p] = Idle]
  /\ UNCHANGED <<history, cached, day>>

\* Every other return, and the death of the process.
Fail(p) ==
  /\ ~At(p, "idle")
  /\ proc' = [proc EXCEPT ![p] = Idle]
  /\ UNCHANGED <<history, day, records>>

-----------------------------------------------------------------------------
Init ==
  /\ history = [v \in Versions |-> None]
  /\ state = None
  /\ cached = None
  /\ day = 0
  /\ proc = [p \in Procs |-> Idle]
  /\ accepted = None

RefreshRoots(p) ==
  \/ ReplayRoot(p, day)
  \/ EndReplay(p, "load")
  \/ \E r \in AllRoots : FetchRoot(p, r, day)
  \/ StoreRoot(p)
  \/ RootsNotFound(p, "catalog")

Next ==
  \/ Clock /\ UNCHANGED records
  \/ \E p \in Procs :
       \/ \E offline \in BOOLEAN : Start(p, offline)
       \/ RefreshRoots(p) /\ UNCHANGED records
       \/ LoadState(p) \/ NetworkError(p)
       \/ \E c \in Catalogs : FetchCatalog(p, c)
       \/ CacheCatalog(p) \/ LoadCached(p) \/ Accept(p) \/ Fail(p)

Spec == Init /\ [][Next]_vars

-----------------------------------------------------------------------------
(* Properties *)

\* Every stored root that is replayed, every root a refresh trusts and every root that was
\* accepted descends from the package's bootstrap root by rotations that the
\* replaced root role signed, however many processes share the cache and
\* whatever the network serves.
RootsLinked ==
  /\ \A v \in Versions : v > Bootstrap.version /\ history[v] # None => Linked(history[v])
  /\ \A p \in Procs : proc[p].root # None => Linked(proc[p].root)
  /\ accepted # None => Linked(accepted.root)

\* The accepted state can be read back: the root history reaches the recorded
\* root, so no interruption makes the next refresh refuse its own records.
HistoryReaches ==
  state # None =>
    \A v \in (Bootstrap.version + 1)..state.root.version :
      /\ history[v] # None
      /\ v = state.root.version => history[v].sha = state.root.sha

\* The recorded root, catalog and acceptance time do not go back, and nothing
\* is accepted under a version with another payload.
Kept ==
  state # None =>
    /\ NotBehind(state'.root, state.root)
    /\ NotBehind(state'.catalog, state.catalog)
    /\ state'.acceptedAt >= state.acceptedAt

\* A refresh that no other one overtook, in that the state it read is still the
\* recorded one when it stores its own, keeps the highest: whatever roots other
\* refreshes stored meanwhile, whatever catalog it found in the cache they
\* share and however the clock moved.
KeptUnlessOvertaken ==
  [][(\E p \in Procs : At(p, "accept") /\ proc'[p].pc = "idle" /\ proc[p].state = state)
       => Kept]_state
==============================================================================

-------------------------- MODULE MCReleaseChannel --------------------------
(* Instances of ReleaseChannel for TLC.                                    *)
EXTENDS ReleaseChannel, TLC

CONSTANTS p1, p2, k1, k2, k3, k4

Role(keys, threshold) == [keys |-> keys, threshold |-> threshold]
RootEnvelope(version, sha, expires, signers, root, online) ==
  [version |-> version, sha |-> sha, generated |-> 0, expires |-> expires,
   signers |-> signers, invalid |-> {}, root |-> root, online |-> online]
Release(version, sha, release, expires, signers) ==
  [version |-> version, sha |-> sha, release |-> release, generated |-> 0,
   expires |-> expires, signers |-> signers, invalid |-> {}]

\* k1 and k2 hold the root keys, k3 signs releases until root 2 gives k4 the role.
Root1 == RootEnvelope(1, "r1", 3, {k1, k2}, Role({k1, k2}, 2), Role({k3}, 1))
Root2 == RootEnvelope(2, "r2", 4, {k1, k2}, Role({k1, k2}, 2), Role({k4}, 1))
\* A root of other people, that a user may name.
Foreign2 == RootEnvelope(2, "x2", 4, {k3, k4}, Role({k3, k4}, 2), Role({k3}, 1))
TestRoots == {Root2, Foreign2}

\* The later release expires first, so that a clock that is set back revives it.
TestReleases == {Release(1, "m1", 1, 3, {k3}), Release(2, "m2", 2, 1, {k4})}

Symmetry == Permutations(Procs)
==============================================================================

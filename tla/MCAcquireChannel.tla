-------------------------- MODULE MCAcquireChannel --------------------------
(* Instances of AcquireChannel for TLC.                                    *)
EXTENDS AcquireChannel, TLC

CONSTANTS p1, p2, k1, k2, k3, k4

Role(keys, threshold) == [keys |-> keys, threshold |-> threshold]
RootEnvelope(version, sha, generated, expires, signers, root, online) ==
  [version |-> version, sha |-> sha, generated |-> generated, expires |-> expires,
   signers |-> signers, invalid |-> {}, root |-> root, online |-> online]
Catalog(version, sha, generated, expires, signers, invalid) ==
  [version |-> version, sha |-> sha, generated |-> generated, expires |-> expires,
   signers |-> signers, invalid |-> invalid]

\* k1 and k2 hold the root keys, k3 signs catalogs until root 2 gives k4 the role.
Root1 == RootEnvelope(1, "r1", 0, 9, {k1, k2}, Role({k1, k2}, 2), Role({k3}, 1))
Root2 == RootEnvelope(2, "r2", 1, 9, {k1, k2}, Role({k1, k2}, 2), Role({k4}, 1))
\* The holders of catalog keys name themselves root.
Rogue2 == RootEnvelope(2, "x2", 1, 9, {k3, k4}, Role({k3, k4}, 2), Role({k3}, 1))
\* The bootstrap root served without its signatures.
Root1Bare == RootEnvelope(1, "r1", 0, 9, {}, Role({k1, k2}, 2), Role({k3}, 1))
\* Root 2 served with one more signature: another file, the same payload.
Root2Again == RootEnvelope(2, "r2", 1, 9, {k1, k2, k3}, Role({k1, k2}, 2), Role({k4}, 1))
TestRoots == {Root1Bare, Root2, Root2Again, Rogue2}

\* The last one has another payload under version 2, that the first root authorises.
TestCatalogs == {
  Catalog(1, "c1", 0, 3, {k3, k4}, {}),
  Catalog(2, "c2", 1, 4, {k4}, {k3}),
  Catalog(2, "d2", 1, 4, {k3}, {})}

Symmetry == Permutations(Procs)
==============================================================================

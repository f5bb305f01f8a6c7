------------------------------ MODULE RootChain ------------------------------
(***************************************************************************)
(* The metadata verification that the image-catalog channel and the        *)
(* release channel share (internal/acquisition/trust.go): roots are        *)
(* rotated one version at a time, each signed by the threshold of the old  *)
(* and of the new root role, and authorize the role that signs catalogs or *)
(* releases.                                                               *)
(*                                                                         *)
(* An envelope is a record of what its verification reads:                 *)
(*   version, sha       version and SHA-256 of the signed payload          *)
(*   generated, expires  in days                                           *)
(*   signers, invalid   keys whose signature verifies, and does not        *)
(*   root, online       roots only: the two roles, as [keys, threshold]    *)
(* Envelopes that do not parse (non-canonical JSON, unsorted or repeated   *)
(* keys, a lifetime above the limit) are not in the sets the network       *)
(* serves from.                                                            *)
(***************************************************************************)
EXTENDS Integers, FiniteSets

CONSTANTS Skew   \* maximumClockRollback, and how far ahead a generation may be

\* verifyRoleSignatures: one bad signature of an authorized key refuses the
\* envelope, signatures of other keys are ignored.
RoleSigned(role, envelope) ==
  /\ role.keys \cap envelope.invalid = {}
  /\ Cardinality(role.keys \cap envelope.signers) >= role.threshold

\* validateRole.
ValidRole(role, minimum) == role.threshold \in minimum..Cardinality(role.keys)

\* validateMetadataTimes.
ValidTimes(envelope, now) ==
  /\ envelope.expires > envelope.generated
  /\ envelope.generated <= now + Skew

\* prepareRoot: an expired root still links the chain.
ValidRoot(root, now) ==
  /\ ValidTimes(root, now)
  /\ ValidRole(root.root, 2)
  /\ ValidRole(root.online, 1)

VerifyBootstrapRoot(root, now) ==
  /\ ValidRoot(root, now)
  /\ RoleSigned(root.root, root)

\* Mutant: the replacement role alone authorizes the replacement.
VerifyRootReplacement(current, candidate, now) ==
  /\ ValidRoot(candidate, now)
  /\ candidate.version = current.version + 1
  /\ candidate.generated >= current.generated
  /\ RoleSigned(candidate.root, candidate)

\* VerifyRootUpdate, for a candidate that replaces the trusted root.
VerifyRootUpdate(current, candidate, now) ==
  /\ ValidRoot(candidate, now)
  /\ candidate.version = current.version + 1
  /\ candidate.generated >= current.generated
  /\ RoleSigned(current.root, candidate)
  /\ RoleSigned(candidate.root, candidate)

\* VerifyRootUpdate, for the trusted root served again: it is kept.
SameRoot(current, candidate, now) ==
  /\ ValidRoot(candidate, now)
  /\ candidate.version = current.version
  /\ candidate.sha = current.sha

\* VerifyChannelCatalog and VerifyReleaseMetadata.
VerifyOnline(root, envelope, now) ==
  /\ root.expires > now
  /\ ValidTimes(envelope, now)
  /\ envelope.expires > now
  /\ RoleSigned(root.online, envelope)

\* No lower version, and no other payload under the same version.
NotBehind(envelope, accepted) ==
  /\ envelope.version >= accepted.version
  /\ envelope.version = accepted.version => envelope.sha = accepted.sha
==============================================================================

---------------------------- MODULE MCTrustStore ----------------------------
EXTENDS TrustStore, TLC

\* Three authentic payloads: a first bundle, a later one under the same
\* policy, and the next one after a policy rotation.
MCPayloads ==
  {[bundle |-> "b1", env |-> "e1", seq |-> 1, policy |-> 1, from |-> 0, until |-> 2],
   [bundle |-> "b2", env |-> "e1", seq |-> 2, policy |-> 1, from |-> 0, until |-> 3],
   [bundle |-> "b3", env |-> "e1", seq |-> 3, policy |-> 2, from |-> 1, until |-> 3]}

\* A bundle, the same bundle with a second signed envelope, and a successor.
MCResigned ==
  {[bundle |-> "b1", env |-> "e1", seq |-> 1, policy |-> 1, from |-> 0, until |-> 3],
   [bundle |-> "b1", env |-> "e2", seq |-> 1, policy |-> 1, from |-> 0, until |-> 3],
   [bundle |-> "b2", env |-> "e1", seq |-> 2, policy |-> 1, from |-> 0, until |-> 3]}

\* Processes are interchangeable: no action distinguishes them.
Symmetry == Permutations(Procs)
=============================================================================

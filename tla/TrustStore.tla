----------------------------- MODULE TrustStore -----------------------------
(***************************************************************************)
(* The durable FFU trust-bundle store of internal/ffu: publication of an   *)
(* authenticated bundle, signed update and withdrawal operations,          *)
(* recovery and activation, with the rollback each of them runs on error.  *)
(*                                                                         *)
(* The store is a root directory (active.json and private .active-*        *)
(* temporaries) and its generations/ subdirectory (sealed generations and  *)
(* private .generation-* temporaries).  Both are kept twice: `root' and    *)
(* `gens' are what running processes see, `disk' is what survives a power  *)
(* loss.  An fsync copies a directory to the disk; the kernel may write a  *)
(* directory back earlier on its own (Writeback).                          *)
(*                                                                         *)
(* SHA-256 digests are modelled as the values they are digests of.  The    *)
(* evidence of a signed generation embeds the digest of its predecessor's  *)
(* evidence, so it is the sequence of all links back to the unsigned       *)
(* publication that started the history.                                   *)
(***************************************************************************)
EXTENDS Integers, Sequences, FiniteSets

CONSTANTS
  Procs,           \* processes that use the store
  Payloads,        \* authentic bundle+metadata pairs, records of PayloadType
  MaxSeq,          \* bound on the sequences an operator signs
  MaxTime,         \* bound on the clock
  MaxOps,          \* bound on the number of signed operations
  MaxGenerations,  \* maxTrustStoreGenerations (256 in the code)
  Faults,          \* the faults of this instance, a subset of FaultKinds
  None             \* an absent file, record or lock holder

\* A context that is cancelled, a system call that fails before the rollback, a
\* system call of the rollback that fails, process death, power loss.
FaultKinds == {"cancel", "io", "undo", "kill", "power"}

ASSUME FaultsAssumption == Faults \subseteq FaultKinds
ASSUME BoundsAssumption ==
  /\ MaxSeq \in Nat \ {0}
  /\ MaxTime \in Nat
  /\ MaxOps \in Nat
  /\ MaxGenerations \in Nat \ {0}
ASSUME PayloadsAssumption ==
  \A y \in Payloads :
    /\ y.seq \in 1..MaxSeq
    /\ y.policy \in Nat \ {0}
    /\ y.from \in Nat
    /\ y.until \in Nat

VARIABLES
  now,       \* the evaluation time callers pass
  ops,       \* operations signed off line, each bound to one active record
  root,      \* [active, tmp]: active.json and the private temporary record
  gens,      \* [final, tmp]: generations by name and the private staging one
  disk,      \* [root, gens]: the durable copies
  lock,      \* holder of the exclusive flock on the root
  tx,        \* per process, its trustStoreTransaction and program counter
  observed   \* the last record some call reported as the store's state

vars == <<now, ops, root, gens, disk, lock, tx, observed>>

-----------------------------------------------------------------------------
(* Names, evidence and records *)

Files == {"bundle", "metadata", "evidence"}

\* trustStoreGenerationName: the sequence and both digests.
GenerationNames == [seq : 1..MaxSeq, payload : Payloads]

LastLink(r) == r.ev[Len(r.ev)]

Bundles == {y.bundle : y \in Payloads}

Links ==
  [kind : {"legacy", "update", "withdraw"}, name : GenerationNames,
   at : 0..MaxTime, prev : [seq : 1..MaxSeq, bundle : Bundles] \cup {None}]

\* A record is about the generation its last link names.
Records ==
  {r \in [name : GenerationNames, ev : Seq(Links)] :
     r.ev # <<>> /\ LastLink(r).name = r.name}

Generations == [sealed : BOOLEAN, files : SUBSET Files, ev : Seq(Links)]

ASSUME NoneAssumption ==
  None \notin Procs /\ None \notin Records /\ None \notin Generations

SeqOf(r) == r.name.seq

PolicyOf(r) == r.name.payload.policy

\* An active record has the withdrawn purpose exactly when its evidence does.
Withdrawn(r) == LastLink(r).kind = "withdraw"

\* validateTrustMetadataDocument: the envelope is signed for this policy and
\* valid at t.
ValidAt(y, policy, t) == y.policy = policy /\ y.from <= t /\ t < y.until

\* Mutant: the rollback state is not consulted.
RollbackIgnored(y, prev) == TRUE

\* The rollback comparison of AuthenticateTrustBundleMetadata.
NotRolledBack(y, prev) ==
  prev # None =>
    \/ SeqOf(prev) < y.seq
    \/ SeqOf(prev) = y.seq /\ prev.name.payload.bundle = y.bundle

\* AuthenticateTrustBundleMetadata; payloads are authentic by assumption.
Authenticates(y, policy, prev, t) ==
  ValidAt(y, policy, t) /\ NotRolledBack(y, prev)

\* buildTrustStoreRecords: unsigned evidence binds only the previous
\* sequence and bundle.
LegacyRecord(y, prev, t) ==
  LET n == [seq |-> y.seq, payload |-> y]
      back == IF prev = None THEN None
              ELSE [seq |-> SeqOf(prev), bundle |-> prev.name.payload.bundle]
  IN [name |-> n,
      ev |-> <<[kind |-> "legacy", name |-> n, at |-> t, prev |-> back]>>]

\* Signed evidence extends the whole evidence of the previous record.
Extend(prev, kind, n, t) ==
  [name |-> n,
   ev |-> Append(prev.ev, [kind |-> kind, name |-> n, at |-> t, prev |-> None])]

\* buildTrustStoreUpdateRecords.
UpdateRecord(op, prev, t) ==
  Extend(prev, "update", [seq |-> op.seq, payload |-> op.payload], t)

\* buildTrustStoreWithdrawalRecords: the payload is preserved under a new
\* sequence.
WithdrawalRecord(op, prev, t) ==
  Extend(prev, "withdraw", [seq |-> op.seq, payload |-> prev.name.payload], t)

\* reproduceLegacyTrustStoreGeneration.
LegacyReproduces(l) ==
  LET y == l.name.payload
  IN /\ l.name.seq = y.seq
     /\ ValidAt(y, y.policy, l.at)
     /\ l.prev # None =>
          \/ l.prev.seq < y.seq
          \/ l.prev.seq = y.seq /\ l.prev.bundle = y.bundle

\* reproduceUpdatedTrustStoreGeneration, given the link before this one.
UpdateReproduces(before, l) ==
  LET y == l.name.payload
  IN /\ before.kind # "withdraw"
     /\ before.name.seq < l.name.seq
     /\ before.at <= l.at
     /\ l.name.seq = y.seq
     /\ y.policy \in {before.name.payload.policy, before.name.payload.policy + 1}
     /\ ValidAt(y, y.policy, l.at)

\* reproduceWithdrawnTrustStoreGeneration, given the link before this one.
WithdrawalReproduces(before, l) ==
  /\ before.kind # "withdraw"
  /\ before.name.seq < l.name.seq
  /\ before.at <= l.at
  /\ l.name.payload = before.name.payload

LinkReproduces(ev, i) ==
  \/ ev[i].kind = "legacy" /\ i = 1 /\ LegacyReproduces(ev[i])
  \/ ev[i].kind = "update" /\ i > 1 /\ UpdateReproduces(ev[i-1], ev[i])
  \/ ev[i].kind = "withdraw" /\ i > 1 /\ WithdrawalReproduces(ev[i-1], ev[i])

\* A published generation directory: mode 0500 and exactly the three files.
SealedWith(g, ev) ==
  /\ g # None
  /\ g.sealed
  /\ g.files = Files
  /\ g.ev = ev

\* Every generation of a record's history is present, sealed, complete and
\* has the evidence the history commits to.
Intact(final, r) ==
  \A i \in 1..Len(r.ev) : SealedWith(final[r.ev[i].name], SubSeq(r.ev, 1, i))

\* loadTrustStoreGeneration: bounded replay of the history, then
\* authentication at the caller's evaluation time.
LoadsHistory(final, r) ==
  /\ Len(r.ev) <= MaxGenerations
  /\ Intact(final, r)
  /\ \A i \in 1..Len(r.ev) : LinkReproduces(r.ev, i)

Loads(final, r, t) ==
  /\ LoadsHistory(final, r)
  /\ ~Withdrawn(r)
  /\ ValidAt(r.name.payload, PolicyOf(r), t)

Published(final) == {n \in GenerationNames : final[n] # None}

\* readCurrentTrustStoreState: no active record is a valid state.
CurrentStateLoads(t) ==
  root.active # None => Loads(gens.final, root.active, t)

\* validateTrustStoreNames: final names are sealed and within the limit.
\* Private temporaries may have either mode.
NamesValid ==
  /\ \A n \in Published(gens.final) : gens.final[n].sealed
  /\ Cardinality(Published(gens.final)) <= MaxGenerations

-----------------------------------------------------------------------------
(* Transactions *)

Idle == [pc |-> "idle", new |-> None, prev |-> None, genTemp |-> FALSE, genAdded |-> FALSE, actTemp |-> FALSE,
         actCommitted |-> FALSE]

Stages == {"validated", "staging", "generation-synced", "generation-renamed",
           "generation-published", "active-staged", "exchanged",
           "active-committed", "verified", "closing"}

RollbackStages == {"rollback", "rollback-temps", "rollback-unseal",
                   "rollback-unlink", "rollback-sync", "rollback-sync-root"}

\* The stages at which the context and the test hook are consulted.
CancelPoints == Stages \ {"generation-renamed", "exchanged", "closing"}

At(p, stage) == lock = p /\ tx[p].pc = stage

Goto(p, stage) == tx' = [tx EXCEPT ![p].pc = stage]

\* Mutant: the root is closed without the deferred rollback having ended.
CloseRoot(p) == lock' = None /\ UNCHANGED tx

Release(p) == lock' = None /\ tx' = [tx EXCEPT ![p] = Idle]

\* openTrustStoreRoot takes the flock without waiting; then the names are
\* validated.
OpenStore(p) == lock = None /\ tx[p].pc = "idle" /\ NamesValid

\* cleanTrustStoreTemporaries, which always fsyncs both directories.
CleanTemporaries ==
  /\ root' = [root EXCEPT !.tmp = None]
  /\ gens' = [gens EXCEPT !.tmp = None]
  /\ disk' = [root |-> root', gens |-> gens']

Start(p, new) ==
  /\ lock' = p
  /\ tx' = [tx EXCEPT ![p] =
              [Idle EXCEPT !.pc = "validated", !.new = new,
                           !.prev = root.active]]

\* PublishAuthenticatedTrustBundle up to the "validated" stage.
PublishBegin(p, y) ==
  /\ OpenStore(p)
  /\ CurrentStateLoads(now)
  /\ root.active # None => PolicyOf(root.active) = y.policy
  /\ Authenticates(y, y.policy, root.active, now)
  /\ root.active # None => root.active.name.payload # y
  /\ CleanTemporaries
  /\ Start(p, LegacyRecord(y, root.active, now))
  /\ UNCHANGED <<now, ops, observed>>

\* The same call for the payload that is already active: nothing is written.
PublishReuse(p, y) ==
  /\ OpenStore(p)
  /\ root.active # None
  /\ root.active.name = [seq |-> y.seq, payload |-> y]
  /\ CurrentStateLoads(now)
  /\ CleanTemporaries
  /\ observed' = root.active
  /\ UNCHANGED <<now, ops, lock, tx>>

\* loadTrustUpdateCurrentState: the current state is reproduced at its own
\* publication time, so it may have expired since; a tombstone is refused.
UpdateStateLoads ==
  /\ root.active # None
  /\ LoadsHistory(gens.final, root.active)
  /\ ~Withdrawn(root.active)

\* Mutant: the current-state binding is not compared.
UnboundDocument(op) ==
  /\ SeqOf(root.active) < op.seq
  /\ op.from <= now /\ now < op.until
  /\ LastLink(root.active).at <= op.from

\* validateTrustUpdateDocument: the operation is bound to the active record,
\* moves the sequence forward, is fresh and no older than the publication.
DocumentValid(op) ==
  /\ op.cur = root.active
  /\ SeqOf(root.active) < op.seq
  /\ op.from <= now /\ now < op.until
  /\ LastLink(root.active).at <= op.from

\* planAuthenticatedTrustBundleOperationOpen for a publish action: the policy
\* rotates by at most one version and the candidate is not older.
CandidateAuthorized(op) ==
  LET y == op.payload
      z == root.active.name.payload
  IN /\ op.seq = y.seq
     /\ y.policy \in {z.policy, z.policy + 1}
     /\ Authenticates(y, y.policy, root.active, now)
     /\ z.from <= y.from

\* ApplyAuthenticatedTrustBundlePublishOperation up to its transaction.
ApplyPublish(p, op) ==
  /\ OpenStore(p)
  /\ op.action = "publish"
  /\ UpdateStateLoads
  /\ DocumentValid(op)
  /\ CandidateAuthorized(op)
  /\ CleanTemporaries
  /\ Start(p, UpdateRecord(op, root.active, now))
  /\ UNCHANGED <<now, ops, observed>>

\* ApplyAuthenticatedTrustBundleWithdrawalOperation up to its transaction.
ApplyWithdrawal(p, op) ==
  /\ OpenStore(p)
  /\ op.action = "withdraw"
  /\ UpdateStateLoads
  /\ DocumentValid(op)
  /\ CleanTemporaries
  /\ Start(p, WithdrawalRecord(op, root.active, now))
  /\ UNCHANGED <<now, ops, observed>>

\* RecoverAuthenticatedTrustBundle: the active generation is verified,
\* temporaries are cleaned, and its record is reported.
Recover(p) ==
  /\ OpenStore(p)
  /\ root.active # None
  /\ CurrentStateLoads(now)
  /\ CleanTemporaries
  /\ observed' = root.active
  /\ UNCHANGED <<now, ops, lock, tx>>

\* ActivateAuthenticatedTrustBundle reports the record and its roots.  It
\* refuses an empty store before it cleans anything.
Activate(p) == Recover(p)

\* RecoverAuthenticatedTrustBundleWithdrawal.
RecoverWithdrawal(p) ==
  /\ OpenStore(p)
  /\ root.active # None
  /\ Withdrawn(root.active)
  /\ LoadsHistory(gens.final, root.active)
  /\ CleanTemporaries
  /\ observed' = root.active
  /\ UNCHANGED <<now, ops, lock, tx>>

\* A call that cleaned the temporaries and then refused its input, was
\* cancelled, or found no active record.
CleanAndRefuse(p) ==
  /\ OpenStore(p)
  /\ CurrentStateLoads(now) \/ UpdateStateLoads
  /\ CleanTemporaries
  /\ UNCHANGED <<now, ops, lock, tx, observed>>

-----------------------------------------------------------------------------
(* The stages of a transaction *)

\* The generation is already there, left by an earlier transaction.
UseExistingGeneration(p) ==
  /\ At(p, "validated")
  /\ gens.final[tx[p].new.name] # None
  /\ Goto(p, IF LoadsHistory(gens.final, tx[p].new) THEN "generation-published"
             ELSE "rollback")
  /\ UNCHANGED <<now, ops, root, gens, disk, lock, observed>>

CreateGenerationTemporary(p) ==
  /\ At(p, "validated")
  /\ gens.final[tx[p].new.name] = None
  /\ gens' = [gens EXCEPT !.tmp =
                [sealed |-> FALSE, files |-> {}, ev |-> tx[p].new.ev]]
  /\ tx' = [tx EXCEPT ![p].pc = "staging", ![p].genTemp = TRUE]
  /\ UNCHANGED <<now, ops, root, disk, lock, observed>>

\* writeTrustStoreFile: bundle.json, then metadata.json, then evidence.json.
WriteGenerationFile(p, f) ==
  /\ At(p, "staging")
  /\ f \notin gens.tmp.files
  /\ f = "metadata" => "bundle" \in gens.tmp.files
  /\ f = "evidence" => "metadata" \in gens.tmp.files
  /\ gens' = [gens EXCEPT !.tmp.files = @ \cup {f}]
  /\ UNCHANGED <<now, ops, root, disk, lock, tx, observed>>

\* Mode 0500 and fsync of the staging directory.
SealGeneration(p) ==
  /\ At(p, "staging")
  /\ gens.tmp.files = Files
  /\ gens' = [gens EXCEPT !.tmp.sealed = TRUE]
  /\ Goto(p, "generation-synced")
  /\ UNCHANGED <<now, ops, root, disk, lock, observed>>

\* renameat2(RENAME_NOREPLACE) of the staging directory.
PublishGeneration(p) ==
  /\ At(p, "generation-synced")
  /\ gens.final[tx[p].new.name] = None
  /\ gens' = [final |-> [gens.final EXCEPT ![tx[p].new.name] = gens.tmp],
              tmp |-> None]
  /\ tx' = [tx EXCEPT ![p].pc = "generation-renamed",
                      ![p].genTemp = FALSE, ![p].genAdded = TRUE]
  /\ UNCHANGED <<now, ops, root, disk, lock, observed>>

\* Mutant: the generations directory is not fsynced after the rename.
SkipSyncGenerations(p) ==
  /\ At(p, "generation-renamed")
  /\ Goto(p, "generation-published")
  /\ UNCHANGED <<now, ops, root, gens, disk, lock, observed>>

SyncGenerations(p) ==
  /\ At(p, "generation-renamed")
  /\ disk' = [disk EXCEPT !.gens = gens]
  /\ Goto(p, "generation-published")
  /\ UNCHANGED <<now, ops, root, gens, lock, observed>>

\* Only the withdrawal validates the names again before it commits.
RevalidatedNames(p) == Withdrawn(tx[p].new) => NamesValid

\* The active record is staged if it is still the one that was verified.
StageActive(p) ==
  /\ At(p, "generation-published")
  /\ RevalidatedNames(p)
  /\ root.active = tx[p].prev
  /\ root' = [root EXCEPT !.tmp = tx[p].new]
  /\ tx' = [tx EXCEPT ![p].pc = "active-staged", ![p].actTemp = TRUE]
  /\ UNCHANGED <<now, ops, gens, disk, lock, observed>>

StageActiveRefused(p) ==
  /\ At(p, "generation-published")
  /\ ~RevalidatedNames(p) \/ root.active # tx[p].prev
  /\ Goto(p, "rollback")
  /\ UNCHANGED <<now, ops, root, gens, disk, lock, observed>>

\* RENAME_EXCHANGE over an existing record, RENAME_NOREPLACE for the first.
CommitActive(p) ==
  /\ At(p, "active-staged")
  /\ root' = [active |-> root.tmp, tmp |-> root.active]
  /\ tx' = [tx EXCEPT ![p].pc = "exchanged", ![p].actCommitted = TRUE,
                      ![p].actTemp = tx[p].prev # None]
  /\ UNCHANGED <<now, ops, gens, disk, lock, observed>>

\* Mutant: the root directory is not fsynced after the exchange.
SkipSyncActive(p) ==
  /\ At(p, "exchanged")
  /\ Goto(p, "active-committed")
  /\ UNCHANGED <<now, ops, root, gens, disk, lock, observed>>

SyncActive(p) ==
  /\ At(p, "exchanged")
  /\ disk' = [disk EXCEPT !.root = root]
  /\ Goto(p, "active-committed")
  /\ UNCHANGED <<now, ops, root, gens, lock, observed>>

\* The committed generation is loaded back through the same descriptors.
VerifyCommitted(p) ==
  /\ At(p, "active-committed")
  /\ Goto(p, IF /\ LoadsHistory(gens.final, tx[p].new)
                /\ root.active = tx[p].new
             THEN "verified" ELSE "rollback")
  /\ UNCHANGED <<now, ops, root, gens, disk, lock, observed>>

RemovePrevious(p) ==
  /\ At(p, "verified")
  /\ tx[p].actTemp
  /\ root' = [root EXCEPT !.tmp = None]
  /\ tx' = [tx EXCEPT ![p].pc = "closing", ![p].actTemp = FALSE]
  /\ UNCHANGED <<now, ops, gens, disk, lock, observed>>

\* Success is returned after the last fsync, or at once when there was no
\* previous record to remove.
Finish(p) ==
  /\ \/ At(p, "closing") /\ disk' = [disk EXCEPT !.root = root]
     \/ At(p, "verified") /\ ~tx[p].actTemp /\ UNCHANGED disk
  /\ observed' = tx[p].new
  /\ Release(p)
  /\ UNCHANGED <<now, ops, root, gens>>

-----------------------------------------------------------------------------
(* Errors and rollbackTrustStoreTransaction *)

\* A cancelled context at a stage, or a failed system call before any stage.
Fail(p) ==
  /\ lock = p
  /\ \/ "cancel" \in Faults /\ tx[p].pc \in CancelPoints
     \/ "io" \in Faults /\ tx[p].pc \in Stages
  /\ Goto(p, "rollback")
  /\ UNCHANGED <<now, ops, root, gens, disk, lock, observed>>

\* The previous record is exchanged back, or the first record removed when
\* it is still the attempted one.
RollbackActive(p) ==
  /\ At(p, "rollback")
  /\ root' = IF tx[p].actCommitted /\ tx[p].prev # None /\ tx[p].actTemp
             THEN [active |-> root.tmp, tmp |-> root.active]
             ELSE IF /\ tx[p].actCommitted /\ tx[p].prev = None
                     /\ root.active = tx[p].new
                  THEN [root EXCEPT !.active = None]
                  ELSE root
  /\ Goto(p, "rollback-temps")
  /\ UNCHANGED <<now, ops, gens, disk, lock, observed>>

\* The exchange back failed: the error is recorded and rollback goes on.
RollbackActiveFails(p) ==
  /\ At(p, "rollback")
  /\ "undo" \in Faults
  /\ tx[p].actCommitted
  /\ Goto(p, "rollback-temps")
  /\ UNCHANGED <<now, ops, root, gens, disk, lock, observed>>

\* Mutant: rollback forgets the generation it added.
RollbackKeepsGeneration(p) ==
  /\ At(p, "rollback-temps")
  /\ root' = IF tx[p].actTemp THEN [root EXCEPT !.tmp = None] ELSE root
  /\ gens' = IF tx[p].genTemp THEN [gens EXCEPT !.tmp = None] ELSE gens
  /\ Goto(p, "rollback-sync")
  /\ UNCHANGED <<now, ops, disk, lock, observed>>

RollbackTemporaries(p) ==
  /\ At(p, "rollback-temps")
  /\ root' = IF tx[p].actTemp THEN [root EXCEPT !.tmp = None] ELSE root
  /\ gens' = IF tx[p].genTemp THEN [gens EXCEPT !.tmp = None] ELSE gens
  /\ Goto(p, IF tx[p].genAdded THEN "rollback-unseal" ELSE "rollback-sync")
  /\ UNCHANGED <<now, ops, disk, lock, observed>>

\* removeTrustStoreGeneration: mode 0700, unlink the files, remove the
\* directory.
UnsealGeneration(p) ==
  /\ At(p, "rollback-unseal")
  /\ gens' = [gens EXCEPT !.final[tx[p].new.name].sealed = FALSE]
  /\ Goto(p, "rollback-unlink")
  /\ UNCHANGED <<now, ops, root, disk, lock, observed>>

\* Mutant: the removal does not know the evidence file.
UnlinkPayloadFile(p, f) ==
  /\ At(p, "rollback-unlink")
  /\ f \in gens.final[tx[p].new.name].files \ {"evidence"}
  /\ gens' = [gens EXCEPT !.final[tx[p].new.name].files = @ \ {f}]
  /\ UNCHANGED <<now, ops, root, disk, lock, tx, observed>>

UnlinkGenerationFile(p, f) ==
  /\ At(p, "rollback-unlink")
  /\ f \in gens.final[tx[p].new.name].files
  /\ gens' = [gens EXCEPT !.final[tx[p].new.name].files = @ \ {f}]
  /\ UNCHANGED <<now, ops, root, disk, lock, tx, observed>>

RemoveGeneration(p) ==
  /\ At(p, "rollback-unlink")
  /\ gens.final[tx[p].new.name].files = {}
  /\ gens' = [gens EXCEPT !.final[tx[p].new.name] = None]
  /\ Goto(p, "rollback-sync")
  /\ UNCHANGED <<now, ops, root, disk, lock, observed>>

\* removeTrustStoreGeneration gave up: the error is recorded and rollback goes
\* on, leaving the generation as it is.
RemoveGenerationFails(p) ==
  /\ "undo" \in Faults
  /\ At(p, "rollback-unseal") \/ At(p, "rollback-unlink")
  /\ Goto(p, "rollback-sync")
  /\ UNCHANGED <<now, ops, root, gens, disk, lock, observed>>

\* The generations directory is synced first, then the root.  An fsync that
\* fails is only recorded.
SyncOrFail(synced) == disk' = synced \/ ("undo" \in Faults /\ UNCHANGED disk)

RollbackSyncGenerations(p) ==
  /\ At(p, "rollback-sync")
  /\ SyncOrFail([disk EXCEPT !.gens = gens])
  /\ Goto(p, "rollback-sync-root")
  /\ UNCHANGED <<now, ops, root, gens, lock, observed>>

RollbackSyncRoot(p) ==
  /\ At(p, "rollback-sync-root")
  /\ SyncOrFail([disk EXCEPT !.root = root])
  /\ Release(p)
  /\ UNCHANGED <<now, ops, root, gens, observed>>

-----------------------------------------------------------------------------
(* The environment *)

Tick ==
  /\ now < MaxTime
  /\ now' = now + 1
  /\ UNCHANGED <<ops, root, gens, disk, lock, tx, observed>>

Operations ==
  [action : {"publish"}, payload : Payloads] \cup
  [action : {"withdraw"}, payload : {None}]

\* An operator signs, off line, an operation against the record that
\* PlanAuthenticatedTrustBundleOperation reported.
SignOperation(o, s, until) ==
  /\ lock = None
  /\ root.active # None
  /\ NamesValid
  /\ Cardinality(ops) < MaxOps
  /\ SeqOf(root.active) < s
  /\ now < until
  /\ o.action = "publish" => s = o.payload.seq
  /\ ops' = ops \cup {[action |-> o.action, payload |-> o.payload, seq |-> s,
                       cur |-> root.active, from |-> now, until |-> until]}
  /\ UNCHANGED <<now, root, gens, disk, lock, tx, observed>>

\* The process dies; the kernel drops its flock and keeps its writes.
Kill(p) ==
  /\ "kill" \in Faults
  /\ lock = p
  /\ Release(p)
  /\ UNCHANGED <<now, ops, root, gens, disk, observed>>

Writeback ==
  /\ "power" \in Faults
  /\ \/ disk' = [disk EXCEPT !.root = root]
     \/ disk' = [disk EXCEPT !.gens = gens]
  /\ UNCHANGED <<now, ops, root, gens, lock, tx, observed>>

PowerLoss ==
  /\ "power" \in Faults
  /\ root' = disk.root
  /\ gens' = disk.gens
  /\ lock' = None
  /\ tx' = [p \in Procs |-> Idle]
  /\ UNCHANGED <<now, ops, disk, observed>>

-----------------------------------------------------------------------------
EmptyRoot == [active |-> None, tmp |-> None]
EmptyGenerations == [final |-> [n \in GenerationNames |-> None], tmp |-> None]

Init ==
  /\ now = 0
  /\ ops = {}
  /\ root = EmptyRoot
  /\ gens = EmptyGenerations
  /\ disk = [root |-> EmptyRoot, gens |-> EmptyGenerations]
  /\ lock = None
  /\ tx = [p \in Procs |-> Idle]
  /\ observed = None

Call(p) ==
  \/ \E y \in Payloads : PublishBegin(p, y) \/ PublishReuse(p, y)
  \/ \E op \in ops : ApplyPublish(p, op) \/ ApplyWithdrawal(p, op)
  \/ Recover(p)
  \/ Activate(p)
  \/ RecoverWithdrawal(p)
  \/ CleanAndRefuse(p)

Forward(p) ==
  \/ UseExistingGeneration(p)
  \/ CreateGenerationTemporary(p)
  \/ \E f \in Files : WriteGenerationFile(p, f)
  \/ SealGeneration(p)
  \/ PublishGeneration(p)
  \/ SyncGenerations(p)
  \/ StageActive(p)
  \/ StageActiveRefused(p)
  \/ CommitActive(p)
  \/ SyncActive(p)
  \/ VerifyCommitted(p)
  \/ RemovePrevious(p)
  \/ Finish(p)

Rollback(p) ==
  \/ RollbackActive(p)
  \/ RollbackActiveFails(p)
  \/ RollbackTemporaries(p)
  \/ UnsealGeneration(p)
  \/ \E f \in Files : UnlinkGenerationFile(p, f)
  \/ RemoveGeneration(p)
  \/ RemoveGenerationFails(p)
  \/ RollbackSyncGenerations(p)
  \/ RollbackSyncRoot(p)

Environment ==
  \/ Tick
  \/ \E o \in Operations, s \in 1..MaxSeq, u \in 1..MaxTime + 1 :
       SignOperation(o, s, u)
  \/ Writeback
  \/ PowerLoss

Next ==
  \/ \E p \in Procs : Call(p) \/ Forward(p) \/ Rollback(p) \/ Fail(p) \/ Kill(p)
  \/ Environment

Spec == Init /\ [][Next]_vars

\* A process that holds the lock keeps executing its transaction.
Fairness == \A p \in Procs : WF_vars(Forward(p) \/ Rollback(p))

FairSpec == Spec /\ Fairness

-----------------------------------------------------------------------------
(* What the store promises *)

RootDirectory == [active : Records \cup {None}, tmp : Records \cup {None}]

GenerationsDirectory ==
  [final : [GenerationNames -> Generations \cup {None}],
   tmp : Generations \cup {None}]

Transactions ==
  [pc : {"idle"} \cup Stages \cup RollbackStages,
   new : Records \cup {None}, prev : Records \cup {None},
   genTemp : BOOLEAN, genAdded : BOOLEAN, actTemp : BOOLEAN,
   actCommitted : BOOLEAN]

SignedOperations ==
  [action : {"publish"}, payload : Payloads, seq : 1..MaxSeq, cur : Records,
   from : 0..MaxTime, until : 1..MaxTime + 1]
  \cup
  [action : {"withdraw"}, payload : {None}, seq : 1..MaxSeq, cur : Records,
   from : 0..MaxTime, until : 1..MaxTime + 1]

\* Every variable has the shape of the Go type or directory it stands for,
\* only the lock holder runs a transaction, a stage that reads a staged
\* generation or record finds one, and rollback only unlinks files of a
\* generation that exists.
TypeOK ==
  /\ now \in 0..MaxTime
  /\ ops \subseteq SignedOperations
  /\ root \in RootDirectory
  /\ gens \in GenerationsDirectory
  /\ disk \in [root : RootDirectory, gens : GenerationsDirectory]
  /\ lock \in Procs \cup {None}
  /\ tx \in [Procs -> Transactions]
  /\ observed \in Records \cup {None}
  /\ \A p \in Procs :
       /\ (tx[p].pc = "idle") <=> (lock # p)
       /\ lock = p =>
            /\ tx[p].new # None
            /\ tx[p].pc \in {"staging", "generation-synced"} => gens.tmp # None
            /\ tx[p].pc = "active-staged" => root.tmp # None
            /\ tx[p].pc \in {"rollback-unseal", "rollback-unlink"} =>
                 gens.final[tx[p].new.name] # None

\* At every moment active.json names a generation that is published, sealed
\* and complete, and so is every generation its signed history replays.
ActiveIntact == root.active # None => Intact(gens.final, root.active)

\* A record that a call reported is on the disk, or has been replaced there
\* by a later one: a power loss never takes the store behind an answer.
ObservedDurable ==
  observed # None =>
    /\ disk.root.active # None
    /\ \/ disk.root.active = observed
       \/ SeqOf(observed) < SeqOf(disk.root.active)
       \/ /\ SeqOf(observed) = SeqOf(disk.root.active)
          /\ observed.name.payload.bundle = disk.root.active.name.payload.bundle

\* Every signed link of the active history was authorised by an operation
\* that an operator signed against exactly the history before it, and was
\* applied while that operation was valid.
HistoryAuthorized ==
  root.active # None =>
    \A i \in 2..Len(root.active.ev) :
      LET l == root.active.ev[i] IN
      \E op \in ops :
        /\ op.cur.ev = SubSeq(root.active.ev, 1, i - 1)
        /\ op.seq = l.name.seq
        /\ op.from <= l.at /\ l.at < op.until
        /\ op.action = "withdraw" <=> l.kind = "withdraw"

\* With no crash and no failing system call, a call that ends leaves no
\* temporary behind and no generation newer than the active record: a
\* cancelled transaction is undone completely.
CancelUndone ==
  lock = None =>
    /\ root.tmp = None /\ gens.tmp = None
    /\ \A n \in Published(gens.final) :
         root.active # None /\ n.seq <= SeqOf(root.active)

\* Every transaction ends, by success or by rollback.
LockReleased == \A p \in Procs : lock = p ~> lock # p

\* The store implements a register of trust state.
Register == INSTANCE TrustRegister WITH value <- root.active, reported <- observed

RegisterSpec == Register!Spec
=============================================================================

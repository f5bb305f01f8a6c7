-------------------------- MODULE TrustStoreProofs --------------------------
(***************************************************************************)
(* Theorems about the FFU trust store, for every set of processes and      *)
(* payloads and every bound.                                               *)
(***************************************************************************)
EXTENDS TrustStore, FiniteSetTheorems, TLAPS

-----------------------------------------------------------------------------
(* The records the transactions build *)

\* buildTrustStoreRecords returns a record about the generation it names.
LEMMA LegacyRecordType ==
  ASSUME NEW y \in Payloads, NEW prev \in Records \cup {None},
         NEW t \in 0..MaxTime
  PROVE  LegacyRecord(y, prev, t) \in Records
<1> DEFINE n == [seq |-> y.seq, payload |-> y]
           back == IF prev = None THEN None
                   ELSE [seq |-> SeqOf(prev), bundle |-> prev.name.payload.bundle]
           l == [kind |-> "legacy", name |-> n, at |-> t, prev |-> back]
<1>1. n \in GenerationNames
  BY PayloadsAssumption DEF GenerationNames
<1>2. back \in [seq : 1..MaxSeq, bundle : Bundles] \cup {None}
  <2>1. CASE prev = None
    BY <2>1
  <2>2. CASE prev # None
    <3>1. prev.name \in GenerationNames
      BY <2>2 DEF Records
    <3>2. SeqOf(prev) \in 1..MaxSeq /\ prev.name.payload \in Payloads
      BY <3>1 DEF SeqOf, GenerationNames
    <3>3. prev.name.payload.bundle \in Bundles
      BY <3>2 DEF Bundles
    <3> QED BY <2>2, <3>2, <3>3
  <2> QED BY <2>1, <2>2
<1>3. l \in Links
  BY <1>1, <1>2 DEF Links
<1>4. <<l>> \in Seq(Links) /\ <<l>> # <<>> /\ Len(<<l>>) = 1 /\ <<l>>[1] = l
  BY <1>3
<1>5. LegacyRecord(y, prev, t) = [name |-> n, ev |-> <<l>>]
  BY DEF LegacyRecord
<1> HIDE DEF n, l
<1>6. [name |-> n, ev |-> <<l>>] \in [name : GenerationNames, ev : Seq(Links)]
  BY <1>1, <1>4
<1>7. l.name = n
  BY DEF l
<1> QED
  BY <1>4, <1>5, <1>6, <1>7 DEF Records, LastLink

\* Signed evidence extends a record to a record about the new generation.
LEMMA ExtendType ==
  ASSUME NEW prev \in Records, NEW kind \in {"update", "withdraw"},
         NEW n \in GenerationNames, NEW t \in 0..MaxTime
  PROVE  Extend(prev, kind, n, t) \in Records
<1> DEFINE l == [kind |-> kind, name |-> n, at |-> t, prev |-> None]
<1>1. l \in Links
  BY DEF Links
<1>2. prev.ev \in Seq(Links)
  BY DEF Records
<1>3. Extend(prev, kind, n, t) = [name |-> n, ev |-> Append(prev.ev, l)]
  BY DEF Extend
<1>4. l.name = n
  OBVIOUS
<1> HIDE DEF l
<1>5. /\ Append(prev.ev, l) \in Seq(Links)
      /\ Append(prev.ev, l) # <<>>
      /\ Append(prev.ev, l)[Len(Append(prev.ev, l))] = l
  BY <1>1, <1>2
<1> QED
  BY <1>3, <1>4, <1>5 DEF Records, LastLink

-----------------------------------------------------------------------------
(* Type correctness *)

\* A generation that the transaction added is there until it is removed.
AddedPresent ==
  \A p \in Procs :
    /\ lock = p
    /\ tx[p].genAdded
    /\ tx[p].pc \notin {"rollback-sync", "rollback-sync-root"}
    => gens.final[tx[p].new.name] # None

TypeInv == TypeOK /\ AddedPresent

LEMMA TypeInit == Init => TypeInv
<1> SUFFICES ASSUME Init PROVE TypeInv
  OBVIOUS
<1>1. Idle \in Transactions /\ Idle.pc = "idle"
  BY DEF Idle, Transactions
<1>2. EmptyRoot \in RootDirectory
  BY DEF EmptyRoot, RootDirectory
<1>3. EmptyGenerations \in GenerationsDirectory
  BY DEF EmptyGenerations, GenerationsDirectory
<1>4. lock = None /\ tx \in [Procs -> Transactions] /\ \A p \in Procs : tx[p] = Idle
  BY <1>1 DEF Init
<1>5. disk \in [root : RootDirectory, gens : GenerationsDirectory]
  BY <1>2, <1>3 DEF Init
<1>6. now \in 0..MaxTime
  BY BoundsAssumption DEF Init
<1>7. \A p \in Procs : lock # p /\ tx[p].pc = "idle"
  BY <1>1, <1>4, NoneAssumption
<1> QED
  BY <1>2, <1>3, <1>4, <1>5, <1>6, <1>7 DEF Init, TypeInv, TypeOK, AddedPresent

\* cleanTrustStoreTemporaries keeps both directories well formed.
LEMMA CleanedType ==
  ASSUME TypeInv, CleanTemporaries
  PROVE  /\ root' \in RootDirectory
         /\ gens' \in GenerationsDirectory
         /\ disk' \in [root : RootDirectory, gens : GenerationsDirectory]
         /\ root'.active = root.active /\ gens'.final = gens.final
<1>1. root' \in RootDirectory /\ root'.active = root.active
  BY DEF TypeInv, TypeOK, CleanTemporaries, RootDirectory
<1>2. gens' \in GenerationsDirectory /\ gens'.final = gens.final
  BY DEF TypeInv, TypeOK, CleanTemporaries, GenerationsDirectory
<1> QED
  BY <1>1, <1>2 DEF CleanTemporaries

\* A call starts from an idle store and stages nothing yet.
LEMMA StartType ==
  ASSUME TypeInv, NEW p \in Procs, NEW new \in Records,
         OpenStore(p), CleanTemporaries, Start(p, new),
         UNCHANGED <<now, ops, observed>>
  PROVE  TypeInv'
<1> DEFINE t == [Idle EXCEPT !.pc = "validated", !.new = new, !.prev = root.active]
<1>1. t \in Transactions /\ t.pc = "validated" /\ t.new = new /\ ~t.genAdded
  BY DEF TypeInv, TypeOK, Idle, Transactions, Stages, RootDirectory
<1> HIDE DEF t
<1>2. tx' = [tx EXCEPT ![p] = t] /\ lock' = p
  BY DEF Start, t
<1>3. tx' \in [Procs -> Transactions] /\ tx'[p] = t
      /\ \A q \in Procs \ {p} : tx'[q].pc = "idle"
  BY <1>1, <1>2, NoneAssumption DEF TypeInv, TypeOK, OpenStore
<1>4. new # None
  BY NoneAssumption
<1> QED
  BY <1>1, <1>2, <1>3, <1>4, CleanedType DEF TypeInv, TypeOK, AddedPresent

\* A call that only cleans and reports leaves the transactions alone.
LEMMA CleanType ==
  ASSUME TypeInv, NEW p \in Procs, OpenStore(p), CleanTemporaries,
         observed' \in Records \cup {None}, UNCHANGED <<now, ops, lock, tx>>
  PROVE  TypeInv'
  BY NoneAssumption, CleanedType
     DEF TypeInv, TypeOK, AddedPresent, OpenStore

\* What a stage of the lock holder has to establish, given its transaction
\* record after the step.
LEMMA HolderType ==
  ASSUME TypeInv, NEW p \in Procs, NEW t \in Transactions,
         lock = p, tx' = [tx EXCEPT ![p] = t],
         t.pc # "idle", t.new # None,
         UNCHANGED <<now, ops, lock, observed>>,
         root' \in RootDirectory, gens' \in GenerationsDirectory,
         disk' \in [root : RootDirectory, gens : GenerationsDirectory],
         t.pc \in {"staging", "generation-synced"} => gens'.tmp # None,
         t.pc = "active-staged" => root'.tmp # None,
         \/ t.pc \in {"rollback-unseal", "rollback-unlink"}
         \/ t.genAdded /\ t.pc \notin {"rollback-sync", "rollback-sync-root"}
         => gens'.final[t.new.name] # None
  PROVE  TypeInv'
<1>1. tx' \in [Procs -> Transactions] /\ tx'[p] = t
      /\ \A q \in Procs \ {p} : tx'[q] = tx[q]
  BY DEF TypeInv, TypeOK
<1>2. TypeOK'
  BY <1>1 DEF TypeInv, TypeOK
<1>3. AddedPresent'
  BY <1>1 DEF AddedPresent
<1> QED
  BY <1>2, <1>3 DEF TypeInv

\* The same for a stage that only moves to another stage.
LEMMA GotoType ==
  ASSUME TypeInv, NEW p \in Procs, NEW stage \in Stages \cup RollbackStages,
         lock = p, Goto(p, stage),
         UNCHANGED <<now, ops, lock, observed>>,
         root' \in RootDirectory, gens' \in GenerationsDirectory,
         disk' \in [root : RootDirectory, gens : GenerationsDirectory],
         stage \in {"staging", "generation-synced"} => gens'.tmp # None,
         stage = "active-staged" => root'.tmp # None,
         \/ stage \in {"rollback-unseal", "rollback-unlink"}
         \/ tx[p].genAdded /\ stage \notin {"rollback-sync", "rollback-sync-root"}
         => gens'.final[tx[p].new.name] # None
  PROVE  TypeInv'
<1> DEFINE t == [tx[p] EXCEPT !.pc = stage]
<1>1. tx[p] \in Transactions /\ tx[p].new # None
  BY DEF TypeInv, TypeOK
<1>2. t \in Transactions /\ t.pc = stage /\ t.new = tx[p].new /\ t.genAdded = tx[p].genAdded
  BY <1>1 DEF Transactions
<1>3. tx' = [tx EXCEPT ![p] = t]
  BY DEF Goto
<1>4. stage # "idle"
  BY DEF Stages, RollbackStages
<1> HIDE DEF t
<1> QED
  BY <1>1, <1>2, <1>3, <1>4, HolderType

\* The transaction ends and its process becomes idle.
LEMMA ReleaseType ==
  ASSUME TypeInv, NEW p \in Procs, lock = p, Release(p),
         UNCHANGED <<now, ops, root, gens>>,
         disk' \in [root : RootDirectory, gens : GenerationsDirectory],
         observed' \in Records \cup {None}
  PROVE  TypeInv'
<1>1. Idle \in Transactions /\ Idle.pc = "idle"
  BY DEF Idle, Transactions
<1>2. tx' \in [Procs -> Transactions] /\ \A q \in Procs : tx'[q].pc = "idle"
  BY <1>1, NoneAssumption DEF TypeInv, TypeOK, Release
<1>3. lock' = None
  BY DEF Release
<1> QED
  BY <1>2, <1>3, NoneAssumption DEF TypeInv, TypeOK, AddedPresent

\* What the lock holder knows in every state.
LEMMA HolderFacts ==
  ASSUME TypeInv, NEW p \in Procs, lock = p
  PROVE  /\ tx[p] \in Transactions /\ tx[p].new \in Records
         /\ tx[p].new.name \in GenerationNames
         /\ tx[p].prev \in Records \cup {None}
         /\ root \in RootDirectory /\ gens \in GenerationsDirectory
         /\ disk \in [root : RootDirectory, gens : GenerationsDirectory]
         /\ root.active \in Records \cup {None} /\ root.tmp \in Records \cup {None}
         /\ gens.final \in [GenerationNames -> Generations \cup {None}]
         /\ gens.tmp \in Generations \cup {None}
  BY DEF TypeInv, TypeOK, Transactions, Records, RootDirectory, GenerationsDirectory


\* The stages up to the commit keep the types.
LEMMA ForwardType ==
  ASSUME TypeInv, NEW p \in Procs, lock = p, Forward(p)
  PROVE  TypeInv'
<1> USE HolderFacts
<1>1. CASE UseExistingGeneration(p)
  <2>1. gens.final[tx[p].new.name] # None
    BY <1>1 DEF UseExistingGeneration
  <2> DEFINE stage == IF LoadsHistory(gens.final, tx[p].new)
                      THEN "generation-published" ELSE "rollback"
  <2>2. stage \in Stages \cup RollbackStages
        /\ stage \in {"generation-published", "rollback"}
    BY DEF Stages, RollbackStages
  <2>3. Goto(p, stage) /\ UNCHANGED <<now, ops, root, gens, disk, lock, observed>>
    BY <1>1 DEF UseExistingGeneration
  <2> HIDE DEF stage
  <2> QED BY <2>1, <2>2, <2>3, GotoType
<1>2. CASE CreateGenerationTemporary(p)
  <2> DEFINE t == [tx[p] EXCEPT !.pc = "staging", !.genTemp = TRUE]
  <2>1. /\ t \in Transactions /\ t.pc = "staging" /\ t.new = tx[p].new
        /\ t.genAdded = tx[p].genAdded
    BY DEF Transactions, Stages
  <2>2. tx' = [tx EXCEPT ![p] = t] /\ UNCHANGED <<now, ops, root, disk, lock, observed>>
    BY <1>2 DEF CreateGenerationTemporary
  <2>3. [sealed |-> FALSE, files |-> {}, ev |-> tx[p].new.ev] \in Generations
    BY DEF Generations, Records
  <2>4. /\ gens' \in GenerationsDirectory /\ gens'.tmp # None
        /\ gens'.final = gens.final
    BY <1>2, <2>3, NoneAssumption DEF CreateGenerationTemporary, GenerationsDirectory
  <2>5. tx[p].genAdded => gens.final[tx[p].new.name] # None
    BY <1>2 DEF CreateGenerationTemporary, At, TypeInv, AddedPresent
  <2> HIDE DEF t
  <2> QED BY <2>1, <2>2, <2>4, <2>5, NoneAssumption, HolderType
<1>3. CASE \E f \in Files : WriteGenerationFile(p, f)
  <2> PICK f \in Files : WriteGenerationFile(p, f)
    BY <1>3
  <2>1. tx' = [tx EXCEPT ![p] = tx[p]] /\ tx[p].pc = "staging"
        /\ UNCHANGED <<now, ops, root, disk, lock, observed>>
    BY DEF WriteGenerationFile, At, TypeInv, TypeOK
  <2>2. gens.tmp \in Generations
    BY <2>1 DEF TypeInv, TypeOK
  <2>3. [gens.tmp EXCEPT !.files = @ \cup {f}] \in Generations
    BY <2>2 DEF Generations
  <2>4. gens' = [gens EXCEPT !.tmp = [gens.tmp EXCEPT !.files = @ \cup {f}]]
    BY DEF WriteGenerationFile, GenerationsDirectory
  <2>5. /\ gens' \in GenerationsDirectory /\ gens'.tmp # None
        /\ gens'.final = gens.final
    BY <2>3, <2>4, NoneAssumption DEF GenerationsDirectory
  <2>6. tx[p].genAdded => gens.final[tx[p].new.name] # None
    BY <2>1 DEF TypeInv, AddedPresent
  <2> QED BY <2>1, <2>5, <2>6, NoneAssumption, HolderType
<1>4. CASE SealGeneration(p)
  <2>1. tx[p].pc = "staging" /\ Goto(p, "generation-synced")
        /\ UNCHANGED <<now, ops, root, disk, lock, observed>>
    BY <1>4 DEF SealGeneration, At
  <2>2. gens.tmp \in Generations
    BY <2>1 DEF TypeInv, TypeOK
  <2>3. [gens.tmp EXCEPT !.sealed = TRUE] \in Generations
    BY <2>2 DEF Generations
  <2>4. gens' = [gens EXCEPT !.tmp = [gens.tmp EXCEPT !.sealed = TRUE]]
    BY <1>4 DEF SealGeneration, GenerationsDirectory
  <2>5. /\ gens' \in GenerationsDirectory /\ gens'.tmp # None
        /\ gens'.final = gens.final
    BY <2>3, <2>4, NoneAssumption DEF GenerationsDirectory
  <2>6. tx[p].genAdded => gens.final[tx[p].new.name] # None
    BY <2>1 DEF TypeInv, AddedPresent
  <2>7. "generation-synced" \in Stages
    BY DEF Stages
  <2> QED BY <2>1, <2>5, <2>6, <2>7, GotoType
<1>5. CASE PublishGeneration(p)
  <2> DEFINE t == [tx[p] EXCEPT !.pc = "generation-renamed", !.genTemp = FALSE,
                                !.genAdded = TRUE]
  <2>1. t \in Transactions /\ t.pc = "generation-renamed" /\ t.new = tx[p].new
    BY DEF Transactions, Stages
  <2>2. tx' = [tx EXCEPT ![p] = t] /\ UNCHANGED <<now, ops, root, disk, lock, observed>>
    BY <1>5 DEF PublishGeneration
  <2>3. gens.tmp \in Generations
    BY <1>5 DEF PublishGeneration, At, TypeInv, TypeOK
  <2>4. gens' \in GenerationsDirectory /\ gens'.final[tx[p].new.name] = gens.tmp
    BY <1>5, <2>3 DEF PublishGeneration, GenerationsDirectory
  <2> HIDE DEF t
  <2> QED BY <2>1, <2>2, <2>3, <2>4, NoneAssumption, HolderType
<1>6. CASE SyncGenerations(p)
  <2>1. /\ tx[p].pc = "generation-renamed" /\ Goto(p, "generation-published")
        /\ UNCHANGED <<now, ops, root, gens, lock, observed>>
        /\ disk' \in [root : RootDirectory, gens : GenerationsDirectory]
    BY <1>6 DEF SyncGenerations, At
  <2>2. tx[p].genAdded => gens.final[tx[p].new.name] # None
    BY <2>1 DEF TypeInv, AddedPresent
  <2>3. "generation-published" \in Stages
    BY DEF Stages
  <2> QED BY <2>1, <2>2, <2>3, GotoType
<1>7. CASE StageActive(p)
  <2> DEFINE t == [tx[p] EXCEPT !.pc = "active-staged", !.actTemp = TRUE]
  <2>1. /\ t \in Transactions /\ t.pc = "active-staged" /\ t.new = tx[p].new
        /\ t.genAdded = tx[p].genAdded
    BY DEF Transactions, Stages
  <2>2. tx' = [tx EXCEPT ![p] = t] /\ UNCHANGED <<now, ops, gens, disk, lock, observed>>
    BY <1>7 DEF StageActive
  <2>3. root' \in RootDirectory /\ root'.tmp # None
    BY <1>7, NoneAssumption DEF StageActive, RootDirectory
  <2>4. tx[p].genAdded => gens.final[tx[p].new.name] # None
    BY <1>7 DEF StageActive, At, TypeInv, AddedPresent
  <2> HIDE DEF t
  <2> QED BY <2>1, <2>2, <2>3, <2>4, NoneAssumption, HolderType
<1>8. CASE StageActiveRefused(p)
  <2>1. /\ tx[p].pc = "generation-published" /\ Goto(p, "rollback")
        /\ UNCHANGED <<now, ops, root, gens, disk, lock, observed>>
    BY <1>8 DEF StageActiveRefused, At
  <2>2. tx[p].genAdded => gens.final[tx[p].new.name] # None
    BY <2>1 DEF TypeInv, AddedPresent
  <2>3. "rollback" \in RollbackStages
    BY DEF RollbackStages
  <2> QED BY <2>1, <2>2, <2>3, GotoType
<1>9. CASE CommitActive(p)
  <2> DEFINE t == [tx[p] EXCEPT !.pc = "exchanged", !.actCommitted = TRUE,
                                !.actTemp = tx[p].prev # None]
  <2>1. /\ t \in Transactions /\ t.pc = "exchanged" /\ t.new = tx[p].new
        /\ t.genAdded = tx[p].genAdded
    BY DEF Transactions, Stages
  <2>2. tx' = [tx EXCEPT ![p] = t] /\ UNCHANGED <<now, ops, gens, disk, lock, observed>>
    BY <1>9 DEF CommitActive
  <2>3. root' \in RootDirectory
    BY <1>9 DEF CommitActive, RootDirectory
  <2>4. tx[p].genAdded => gens.final[tx[p].new.name] # None
    BY <1>9 DEF CommitActive, At, TypeInv, AddedPresent
  <2> HIDE DEF t
  <2> QED BY <2>1, <2>2, <2>3, <2>4, NoneAssumption, HolderType
<1>10. CASE SyncActive(p)
  <2>1. /\ tx[p].pc = "exchanged" /\ Goto(p, "active-committed")
        /\ UNCHANGED <<now, ops, root, gens, lock, observed>>
        /\ disk' \in [root : RootDirectory, gens : GenerationsDirectory]
    BY <1>10 DEF SyncActive, At
  <2>2. tx[p].genAdded => gens.final[tx[p].new.name] # None
    BY <2>1 DEF TypeInv, AddedPresent
  <2>3. "active-committed" \in Stages
    BY DEF Stages
  <2> QED BY <2>1, <2>2, <2>3, GotoType
<1>11. CASE VerifyCommitted(p)
  <2> DEFINE stage == IF LoadsHistory(gens.final, tx[p].new) /\ root.active = tx[p].new
                      THEN "verified" ELSE "rollback"
  <2>1. stage \in Stages \cup RollbackStages /\ stage \in {"verified", "rollback"}
    BY DEF Stages, RollbackStages
  <2>2. /\ tx[p].pc = "active-committed" /\ Goto(p, stage)
        /\ UNCHANGED <<now, ops, root, gens, disk, lock, observed>>
    BY <1>11 DEF VerifyCommitted, At
  <2>3. tx[p].genAdded => gens.final[tx[p].new.name] # None
    BY <2>2 DEF TypeInv, AddedPresent
  <2> HIDE DEF stage
  <2> QED BY <2>1, <2>2, <2>3, GotoType
<1>12. CASE RemovePrevious(p)
  <2> DEFINE t == [tx[p] EXCEPT !.pc = "closing", !.actTemp = FALSE]
  <2>1. /\ t \in Transactions /\ t.pc = "closing" /\ t.new = tx[p].new
        /\ t.genAdded = tx[p].genAdded
    BY DEF Transactions, Stages
  <2>2. tx' = [tx EXCEPT ![p] = t] /\ UNCHANGED <<now, ops, gens, disk, lock, observed>>
    BY <1>12 DEF RemovePrevious
  <2>3. root' \in RootDirectory
    BY <1>12 DEF RemovePrevious, RootDirectory
  <2>4. tx[p].genAdded => gens.final[tx[p].new.name] # None
    BY <1>12 DEF RemovePrevious, At, TypeInv, AddedPresent
  <2> HIDE DEF t
  <2> QED BY <2>1, <2>2, <2>3, <2>4, NoneAssumption, HolderType
<1>13. CASE Finish(p)
  <2>1. disk' \in [root : RootDirectory, gens : GenerationsDirectory]
    BY <1>13 DEF Finish
  <2>2. Release(p) /\ UNCHANGED <<now, ops, root, gens>> /\ observed' = tx[p].new
    BY <1>13 DEF Finish
  <2> QED BY <2>1, <2>2, ReleaseType
<1> QED
  BY <1>1, <1>2, <1>3, <1>4, <1>5, <1>6, <1>7, <1>8, <1>9, <1>10, <1>11, <1>12,
     <1>13 DEF Forward

\* Rollback keeps the types.
LEMMA RollbackType ==
  ASSUME TypeInv, NEW p \in Procs, lock = p, Rollback(p) \/ Fail(p)
  PROVE  TypeInv'
<1> USE HolderFacts
<1>0. tx[p].pc # "idle"
  BY DEF TypeInv, TypeOK
<1>1. CASE Fail(p)
  <2>1. tx[p].pc \notin {"rollback-sync", "rollback-sync-root"}
    BY <1>1 DEF Fail, CancelPoints, Stages
  <2>2. tx[p].genAdded => gens.final[tx[p].new.name] # None
    BY <2>1 DEF TypeInv, AddedPresent
  <2>3. Goto(p, "rollback") /\ UNCHANGED <<now, ops, root, gens, disk, lock, observed>>
    BY <1>1 DEF Fail
  <2>4. "rollback" \in RollbackStages
    BY DEF RollbackStages
  <2> QED BY <2>2, <2>3, <2>4, GotoType
<1>2. CASE RollbackActive(p) \/ RollbackActiveFails(p)
  <2>1. /\ tx[p].pc = "rollback" /\ Goto(p, "rollback-temps")
        /\ UNCHANGED <<now, ops, gens, disk, lock, observed>>
    BY <1>2 DEF RollbackActive, RollbackActiveFails, At
  <2>2. root' \in RootDirectory
    BY <1>2 DEF RollbackActive, RollbackActiveFails, RootDirectory
  <2>3. tx[p].genAdded => gens.final[tx[p].new.name] # None
    BY <2>1 DEF TypeInv, AddedPresent
  <2>4. "rollback-temps" \in RollbackStages
    BY DEF RollbackStages
  <2> QED BY <2>1, <2>2, <2>3, <2>4, GotoType
<1>3. CASE RollbackTemporaries(p)
  <2> DEFINE stage == IF tx[p].genAdded THEN "rollback-unseal" ELSE "rollback-sync"
  <2>1. stage \in Stages \cup RollbackStages
        /\ stage \in {"rollback-unseal", "rollback-sync"}
        /\ (stage = "rollback-unseal" => tx[p].genAdded)
    BY DEF RollbackStages
  <2>2. /\ tx[p].pc = "rollback-temps" /\ Goto(p, stage)
        /\ UNCHANGED <<now, ops, disk, lock, observed>>
    BY <1>3 DEF RollbackTemporaries, At
  <2>3. root' \in RootDirectory
    BY <1>3 DEF RollbackTemporaries, RootDirectory
  <2>4. gens' \in GenerationsDirectory /\ gens'.final = gens.final
    BY <1>3 DEF RollbackTemporaries, GenerationsDirectory
  <2>5. tx[p].genAdded => gens.final[tx[p].new.name] # None
    BY <2>2 DEF TypeInv, AddedPresent
  <2> HIDE DEF stage
  <2> QED BY <2>1, <2>2, <2>3, <2>4, <2>5, GotoType
<1>4. CASE UnsealGeneration(p)
  <2> DEFINE n == tx[p].new.name
             g == [gens.final[n] EXCEPT !.sealed = FALSE]
  <2>1. /\ tx[p].pc = "rollback-unseal" /\ Goto(p, "rollback-unlink")
        /\ UNCHANGED <<now, ops, root, disk, lock, observed>>
    BY <1>4 DEF UnsealGeneration, At
  <2>2. gens.final[n] \in Generations
    BY <2>1 DEF TypeInv, TypeOK
  <2>3. g \in Generations
    BY <2>2 DEF Generations
  <2>4. gens' = [gens EXCEPT !.final = [gens.final EXCEPT ![n] = g]]
    BY <1>4 DEF UnsealGeneration, GenerationsDirectory
  <2>5. gens' \in GenerationsDirectory /\ gens'.final[n] = g
    BY <2>3, <2>4 DEF GenerationsDirectory
  <2>6. "rollback-unlink" \in RollbackStages
    BY DEF RollbackStages
  <2> QED BY <2>1, <2>3, <2>5, <2>6, NoneAssumption, GotoType
<1>5. CASE \E f \in Files : UnlinkGenerationFile(p, f)
  <2> PICK f \in Files : UnlinkGenerationFile(p, f)
    BY <1>5
  <2> DEFINE n == tx[p].new.name
             g == [gens.final[n] EXCEPT !.files = @ \ {f}]
  <2>1. /\ tx[p].pc = "rollback-unlink" /\ tx' = [tx EXCEPT ![p] = tx[p]]
        /\ UNCHANGED <<now, ops, root, disk, lock, observed>>
    BY DEF UnlinkGenerationFile, At, TypeInv, TypeOK
  <2>2. gens.final[n] \in Generations
    BY <2>1 DEF TypeInv, TypeOK
  <2>3. g \in Generations
    BY <2>2 DEF Generations
  <2>4. gens' = [gens EXCEPT !.final = [gens.final EXCEPT ![n] = g]]
    BY DEF UnlinkGenerationFile, GenerationsDirectory
  <2>5. gens' \in GenerationsDirectory /\ gens'.final[n] = g
    BY <2>3, <2>4 DEF GenerationsDirectory
  <2> QED BY <2>1, <2>3, <2>5, NoneAssumption, HolderType
<1>6. CASE RemoveGeneration(p)
  <2>1. /\ Goto(p, "rollback-sync") /\ UNCHANGED <<now, ops, root, disk, lock, observed>>
    BY <1>6 DEF RemoveGeneration
  <2>2. gens' \in GenerationsDirectory
    BY <1>6 DEF RemoveGeneration, GenerationsDirectory
  <2>3. "rollback-sync" \in RollbackStages
    BY DEF RollbackStages
  <2> QED BY <2>1, <2>2, <2>3, GotoType
<1>7. CASE RemoveGenerationFails(p)
  <2>1. Goto(p, "rollback-sync") /\ UNCHANGED <<now, ops, root, gens, disk, lock, observed>>
    BY <1>7 DEF RemoveGenerationFails
  <2>2. "rollback-sync" \in RollbackStages
    BY DEF RollbackStages
  <2> QED BY <2>1, <2>2, GotoType
<1>8. CASE RollbackSyncGenerations(p)
  <2>1. /\ Goto(p, "rollback-sync-root") /\ UNCHANGED <<now, ops, root, gens, lock, observed>>
        /\ disk' \in [root : RootDirectory, gens : GenerationsDirectory]
    BY <1>8 DEF RollbackSyncGenerations, SyncOrFail
  <2>2. "rollback-sync-root" \in RollbackStages
    BY DEF RollbackStages
  <2> QED BY <2>1, <2>2, GotoType
<1>9. CASE RollbackSyncRoot(p)
  <2>1. /\ Release(p) /\ UNCHANGED <<now, ops, root, gens, observed>>
        /\ disk' \in [root : RootDirectory, gens : GenerationsDirectory]
    BY <1>9 DEF RollbackSyncRoot, SyncOrFail
  <2>2. observed \in Records \cup {None}
    BY DEF TypeInv, TypeOK
  <2> QED BY <2>1, <2>2, ReleaseType
<1> QED
  BY <1>1, <1>2, <1>3, <1>4, <1>5, <1>6, <1>7, <1>8, <1>9 DEF Rollback

\* Every call keeps the types: the records it builds are well formed.
LEMMA CallType ==
  ASSUME TypeInv, NEW p \in Procs, Call(p)
  PROVE  TypeInv'
<1>0. /\ now \in 0..MaxTime /\ root.active \in Records \cup {None}
      /\ ops \subseteq SignedOperations /\ observed \in Records \cup {None}
  BY DEF TypeInv, TypeOK, RootDirectory
<1>1. CASE \E y \in Payloads : PublishBegin(p, y)
  <2> PICK y \in Payloads : PublishBegin(p, y)
    BY <1>1
  <2>1. LegacyRecord(y, root.active, now) \in Records
    BY <1>0, LegacyRecordType
  <2>2. /\ OpenStore(p) /\ CleanTemporaries
        /\ Start(p, LegacyRecord(y, root.active, now))
        /\ UNCHANGED <<now, ops, observed>>
    BY DEF PublishBegin
  <2> QED BY <2>1, <2>2, StartType
<1>2. CASE \E op \in ops : ApplyPublish(p, op)
  <2> PICK op \in ops : ApplyPublish(p, op)
    BY <1>2
  <2>1. op.seq \in 1..MaxSeq /\ op.payload \in Payloads
    BY <1>0 DEF SignedOperations, ApplyPublish
  <2>2. root.active \in Records
    BY <1>0 DEF ApplyPublish, UpdateStateLoads
  <2>3. [seq |-> op.seq, payload |-> op.payload] \in GenerationNames
    BY <2>1 DEF GenerationNames
  <2>4. UpdateRecord(op, root.active, now) \in Records
    BY <1>0, <2>2, <2>3, ExtendType DEF UpdateRecord
  <2>5. /\ OpenStore(p) /\ CleanTemporaries
        /\ Start(p, UpdateRecord(op, root.active, now))
        /\ UNCHANGED <<now, ops, observed>>
    BY DEF ApplyPublish
  <2> QED BY <2>4, <2>5, StartType
<1>3. CASE \E op \in ops : ApplyWithdrawal(p, op)
  <2> PICK op \in ops : ApplyWithdrawal(p, op)
    BY <1>3
  <2>1. op.seq \in 1..MaxSeq
    BY <1>0 DEF SignedOperations
  <2>2. root.active \in Records
    BY <1>0 DEF ApplyWithdrawal, UpdateStateLoads
  <2>3. root.active.name.payload \in Payloads
    BY <2>2 DEF Records, GenerationNames
  <2>4. [seq |-> op.seq, payload |-> root.active.name.payload] \in GenerationNames
    BY <2>1, <2>3 DEF GenerationNames
  <2>5. WithdrawalRecord(op, root.active, now) \in Records
    BY <1>0, <2>2, <2>4, ExtendType DEF WithdrawalRecord
  <2>6. /\ OpenStore(p) /\ CleanTemporaries
        /\ Start(p, WithdrawalRecord(op, root.active, now))
        /\ UNCHANGED <<now, ops, observed>>
    BY DEF ApplyWithdrawal
  <2> QED BY <2>5, <2>6, StartType
<1>4. CASE \/ \E y \in Payloads : PublishReuse(p, y)
           \/ Recover(p) \/ Activate(p) \/ RecoverWithdrawal(p) \/ CleanAndRefuse(p)
  <2>1. /\ OpenStore(p) /\ CleanTemporaries /\ UNCHANGED <<now, ops, lock, tx>>
        /\ observed' = root.active \/ observed' = observed
    BY <1>4 DEF PublishReuse, Recover, Activate, RecoverWithdrawal, CleanAndRefuse
  <2> QED BY <1>0, <2>1, CleanType
<1> QED
  BY <1>1, <1>2, <1>3, <1>4 DEF Call

\* The clock, the operators, the kernel and a power loss keep the types.
LEMMA EnvironmentType ==
  ASSUME TypeInv, Environment
  PROVE  TypeInv'
<1>1. CASE Tick
  <2>1. now' \in 0..MaxTime /\ UNCHANGED <<ops, root, gens, disk, lock, tx, observed>>
    BY <1>1, BoundsAssumption DEF Tick, TypeInv, TypeOK
  <2> QED BY <2>1 DEF TypeInv, TypeOK, AddedPresent
<1>2. CASE \E o \in Operations, s \in 1..MaxSeq, u \in 1..MaxTime + 1 :
             SignOperation(o, s, u)
  <2> PICK o \in Operations, s \in 1..MaxSeq, u \in 1..MaxTime + 1 :
             SignOperation(o, s, u)
    BY <1>2
  <2> DEFINE op == [action |-> o.action, payload |-> o.payload, seq |-> s,
                    cur |-> root.active, from |-> now, until |-> u]
  <2>1. root.active \in Records /\ now \in 0..MaxTime
    BY DEF SignOperation, TypeInv, TypeOK, RootDirectory
  <2>2. op \in SignedOperations
    BY <2>1 DEF SignedOperations, Operations
  <2>3. ops' = ops \cup {op} /\ UNCHANGED <<now, root, gens, disk, lock, tx, observed>>
    BY DEF SignOperation
  <2>4. ops' \subseteq SignedOperations
    BY <2>2, <2>3 DEF TypeInv, TypeOK
  <2> HIDE DEF op
  <2> QED BY <2>3, <2>4 DEF TypeInv, TypeOK, AddedPresent
<1>3. CASE Writeback
  <2>1. disk' \in [root : RootDirectory, gens : GenerationsDirectory]
        /\ UNCHANGED <<now, ops, root, gens, lock, tx, observed>>
    BY <1>3 DEF Writeback, TypeInv, TypeOK
  <2> QED BY <2>1 DEF TypeInv, TypeOK, AddedPresent
<1>4. CASE PowerLoss
  <2>1. Idle \in Transactions /\ Idle.pc = "idle"
    BY DEF Idle, Transactions
  <2>2. /\ tx' \in [Procs -> Transactions] /\ \A q \in Procs : tx'[q].pc = "idle"
        /\ lock' = None /\ UNCHANGED <<now, ops, disk, observed>>
    BY <1>4, <2>1 DEF PowerLoss
  <2>3. root' \in RootDirectory /\ gens' \in GenerationsDirectory
    BY <1>4 DEF PowerLoss, TypeInv, TypeOK
  <2> QED BY <2>2, <2>3, NoneAssumption DEF TypeInv, TypeOK, AddedPresent
<1> QED
  BY <1>1, <1>2, <1>3, <1>4 DEF Environment

LEMMA TypeStep == TypeInv /\ [Next]_vars => TypeInv'
<1> SUFFICES ASSUME TypeInv, [Next]_vars PROVE TypeInv'
  OBVIOUS
<1>1. CASE UNCHANGED vars
  BY <1>1 DEF vars, TypeInv, TypeOK, AddedPresent
<1>2. ASSUME NEW p \in Procs, Call(p) PROVE TypeInv'
  BY <1>2, CallType
<1>3. ASSUME NEW p \in Procs, Forward(p) PROVE TypeInv'
  <2>1. lock = p
    BY <1>3 DEF Forward, At, UseExistingGeneration, CreateGenerationTemporary,
         WriteGenerationFile, SealGeneration, PublishGeneration, SyncGenerations,
         StageActive, StageActiveRefused, CommitActive, SyncActive, VerifyCommitted,
         RemovePrevious, Finish
  <2> QED BY <1>3, <2>1, ForwardType
<1>4. ASSUME NEW p \in Procs, Rollback(p) \/ Fail(p) PROVE TypeInv'
  <2>1. lock = p
    BY <1>4 DEF Rollback, At, Fail, RollbackActive, RollbackActiveFails,
         RollbackTemporaries, UnsealGeneration, UnlinkGenerationFile,
         RemoveGeneration, RemoveGenerationFails, RollbackSyncGenerations,
         RollbackSyncRoot
  <2> QED BY <1>4, <2>1, RollbackType
<1>5. ASSUME NEW p \in Procs, Kill(p) PROVE TypeInv'
  <2>1. /\ lock = p /\ Release(p) /\ UNCHANGED <<now, ops, root, gens, disk, observed>>
    BY <1>5 DEF Kill
  <2>2. /\ observed \in Records \cup {None}
        /\ disk \in [root : RootDirectory, gens : GenerationsDirectory]
    BY DEF TypeInv, TypeOK
  <2> QED BY <2>1, <2>2, ReleaseType
<1>6. CASE Environment
  BY <1>6, EnvironmentType
<1> QED
  BY <1>1, <1>2, <1>3, <1>4, <1>5, <1>6 DEF Next

\* Type correctness of the trust store: directories and transactions are well
\* formed, only the holder of the flock runs a transaction, and no stage
\* reaches for a staged file or generation that is not there.
THEOREM TypeCorrect == Spec => []TypeOK
<1>1. TypeInv => TypeOK
  BY DEF TypeInv
<1> QED
  BY <1>1, TypeInit, TypeStep, PTL DEF Spec

-----------------------------------------------------------------------------
(* The active record stays intact when processes die or are cancelled *)

\* Evidence is either unsigned or extends the evidence of the previous record.
Succeeds(new, prev) ==
  \/ Len(new.ev) = 1
  \/ prev # None /\ \E l \in Links : new.ev = Append(prev.ev, l)

NotInHistory(n, r) ==
  r # None => \A i \in 1..Len(r.ev) : r.ev[i].name # n

Committed(t, r, g) ==
  /\ t.actCommitted
  /\ r.active = t.new
  /\ r.tmp = t.prev
  /\ t.actTemp <=> t.prev # None
  /\ t.prev # None => Intact(g.final, t.prev)

\* What is true of the holder's transaction, the root and the generations at
\* each stage.
StageInv(t, r, g) ==
  /\ Succeeds(t.new, t.prev)
  /\ t.genAdded => NotInHistory(t.new.name, t.prev)
  /\ t.pc \in {"validated", "staging", "generation-synced", "generation-renamed",
               "generation-published", "active-staged"} =>
       r.active = t.prev /\ ~t.actCommitted
  /\ t.pc \in {"staging", "generation-synced"} => g.tmp.ev = t.new.ev
  /\ t.pc = "generation-synced" => g.tmp.sealed /\ g.tmp.files = Files
  /\ t.pc \in {"generation-renamed", "generation-published", "active-staged"} =>
       Intact(g.final, t.new)
  /\ t.pc = "active-staged" => r.tmp = t.new
  /\ t.pc \in {"exchanged", "active-committed", "verified"} => Committed(t, r, g)
  /\ t.pc = "rollback" =>
       Committed(t, r, g) \/ (~t.actCommitted /\ r.active = t.prev)
  /\ t.pc \in RollbackStages \ {"rollback"} => r.active = t.prev
  /\ t.pc \in {"rollback-unseal", "rollback-unlink"} => t.genAdded

CrashInv ==
  /\ TypeInv
  /\ ActiveIntact
  /\ \A p \in Procs : lock = p => StageInv(tx[p], root, gens)

\* buildTrustStoreRecords starts a history of its own.
LEMMA LegacySucceeds ==
  ASSUME NEW y \in Payloads, NEW prev, NEW t
  PROVE  Succeeds(LegacyRecord(y, prev, t), prev)
  BY DEF Succeeds, LegacyRecord

\* Signed evidence extends the previous record's.
LEMMA ExtendSucceeds ==
  ASSUME NEW prev \in Records, NEW kind \in {"update", "withdraw"},
         NEW n \in GenerationNames, NEW t \in 0..MaxTime
  PROVE  Succeeds(Extend(prev, kind, n, t), prev)
<1> DEFINE l == [kind |-> kind, name |-> n, at |-> t, prev |-> None]
<1>1. l \in Links
  BY DEF Links
<1>2. Extend(prev, kind, n, t).ev = Append(prev.ev, l)
  BY DEF Extend
<1> QED
  BY <1>1, <1>2, NoneAssumption DEF Succeeds

\* A directory that agrees on the names of a history keeps it intact.
LEMMA IntactFrame ==
  ASSUME NEW final, NEW other, NEW r, Intact(final, r),
         \A i \in 1..Len(r.ev) : other[r.ev[i].name] = final[r.ev[i].name]
  PROVE  Intact(other, r)
  BY DEF Intact

\* Publishing the sealed generation of a successor completes its history and
\* touches no generation of its predecessor's.
LEMMA PublishIntact ==
  ASSUME NEW final \in [GenerationNames -> Generations \cup {None}],
         NEW prev \in Records \cup {None}, NEW new \in Records,
         NEW g \in Generations, Succeeds(new, prev),
         prev # None => Intact(final, prev),
         final[new.name] = None, SealedWith(g, new.ev)
  PROVE  LET other == [final EXCEPT ![new.name] = g]
         IN /\ Intact(other, new)
            /\ prev # None => Intact(other, prev)
            /\ NotInHistory(new.name, prev)
<1> DEFINE other == [final EXCEPT ![new.name] = g]
<1>0. new.name \in GenerationNames /\ new.ev \in Seq(Links)
      /\ new.ev # <<>> /\ new.ev[Len(new.ev)].name = new.name
  BY DEF Records, LastLink
<1>1. other[new.name] = g /\ \A n \in GenerationNames \ {new.name} : other[n] = final[n]
  BY <1>0
<1>2. NotInHistory(new.name, prev)
  <2> SUFFICES ASSUME prev # None, NEW i \in 1..Len(prev.ev)
               PROVE  prev.ev[i].name # new.name
    BY DEF NotInHistory
  <2>1. SealedWith(final[prev.ev[i].name], SubSeq(prev.ev, 1, i))
    BY DEF Intact
  <2> QED BY <2>1 DEF SealedWith
<1>3. ASSUME prev # None PROVE Intact(other, prev)
  <2>1. prev.ev \in Seq(Links)
    BY <1>3 DEF Records
  <2>2. ASSUME NEW i \in 1..Len(prev.ev)
        PROVE  prev.ev[i].name \in GenerationNames \ {new.name}
    <3>1. prev.ev[i] \in Links
      BY <2>1
    <3>2. prev.ev[i].name \in GenerationNames
      BY <3>1 DEF Links
    <3> QED BY <1>2, <1>3, <3>2 DEF NotInHistory
  <2>3. \A i \in 1..Len(prev.ev) : other[prev.ev[i].name] = final[prev.ev[i].name]
    BY <1>1, <2>2
  <2> HIDE DEF other
  <2> QED BY <1>3, <2>3, IntactFrame
<1>4. SubSeq(new.ev, 1, Len(new.ev)) = new.ev
  BY <1>0
<1>5. Intact(other, new)
  <2> SUFFICES ASSUME NEW i \in 1..Len(new.ev)
               PROVE  SealedWith(other[new.ev[i].name], SubSeq(new.ev, 1, i))
    BY DEF Intact
  <2> HIDE DEF other
  <2>1. CASE i = Len(new.ev)
    <3>1. new.ev[i].name = new.name /\ SubSeq(new.ev, 1, i) = new.ev
      BY <1>0, <1>4, <2>1
    <3>2. other[new.name] = g
      BY <1>1
    <3> QED BY <3>1, <3>2
  <2>2. CASE i # Len(new.ev)
    <3>1. prev # None /\ \E l \in Links : new.ev = Append(prev.ev, l)
      BY <1>0, <2>2 DEF Succeeds
    <3>2. PICK l \in Links : new.ev = Append(prev.ev, l)
      BY <3>1
    <3>3. prev.ev \in Seq(Links)
      BY <3>1 DEF Records
    <3>4. Len(new.ev) = Len(prev.ev) + 1 /\ i \in 1..Len(prev.ev)
      BY <2>2, <3>2, <3>3
    <3>5. new.ev[i] = prev.ev[i] /\ SubSeq(new.ev, 1, i) = SubSeq(prev.ev, 1, i)
      BY <3>2, <3>3, <3>4
    <3>6. SealedWith(other[prev.ev[i].name], SubSeq(prev.ev, 1, i))
      BY <1>3, <3>1, <3>4 DEF Intact
    <3> QED BY <3>5, <3>6
  <2> QED BY <2>1, <2>2
<1> QED
  BY <1>2, <1>3, <1>5

\* What a step of the lock holder has to establish.
LEMMA HolderCrash ==
  ASSUME TypeInv', NEW p \in Procs, lock' = p, NEW t, tx'[p] = t, ActiveIntact',
         StageInv(t, root', gens')
  PROVE  CrashInv'
  BY DEF CrashInv

\* A step that ends the transaction and keeps the active record and the
\* generations.
LEMMA IdleCrash ==
  ASSUME CrashInv, TypeInv', lock' = None,
         root'.active = root.active, gens'.final = gens.final
  PROVE  CrashInv'
  BY NoneAssumption DEF CrashInv, ActiveIntact

\* A call that starts a transaction.
LEMMA StartCrash ==
  ASSUME CrashInv, TypeInv', NEW p \in Procs, NEW new \in Records,
         CleanTemporaries, Start(p, new), Succeeds(new, root.active)
  PROVE  CrashInv'
<1> DEFINE t == [Idle EXCEPT !.pc = "validated", !.new = new, !.prev = root.active]
<1>1. /\ t.pc = "validated" /\ t.new = new /\ t.prev = root.active
      /\ ~t.genAdded /\ ~t.actCommitted
  BY DEF Idle
<1> HIDE DEF t
<1>2. lock' = p /\ tx'[p] = t
  BY DEF Start, t, CrashInv, TypeInv, TypeOK
<1>3. root'.active = root.active /\ gens'.final = gens.final
  BY CleanedType DEF CrashInv
<1>4. ActiveIntact'
  BY <1>3 DEF CrashInv, ActiveIntact
<1>5. StageInv(t, root', gens')
  BY <1>1, <1>3 DEF StageInv, RollbackStages
<1> QED
  BY <1>2, <1>4, <1>5, HolderCrash

\* The stages of a transaction keep the invariant.
LEMMA ForwardCrash ==
  ASSUME CrashInv, TypeInv', NEW p \in Procs, lock = p, Forward(p)
  PROVE  CrashInv'
<1> USE HolderFacts DEF CrashInv
<1> DEFINE t == tx[p]
<1>0. StageInv(t, root, gens) /\ tx \in [Procs -> Transactions] /\ lock # None
  BY NoneAssumption DEF TypeInv, TypeOK
<1>1. CASE UseExistingGeneration(p)
  <2>1. t.pc = "validated" /\ UNCHANGED <<root, gens, lock>>
    BY <1>1 DEF UseExistingGeneration, At
  <2>2. CASE LoadsHistory(gens.final, t.new)
    <3>1. tx'[p] = [t EXCEPT !.pc = "generation-published"]
      BY <1>0, <1>1, <2>2 DEF UseExistingGeneration, Goto
    <3>2. Intact(gens.final, t.new)
      BY <2>2 DEF LoadsHistory
    <3>3. StageInv([t EXCEPT !.pc = "generation-published"], root', gens')
      BY <1>0, <2>1, <3>2 DEF StageInv, RollbackStages, Transactions
    <3> QED BY <2>1, <3>1, <3>3, HolderCrash DEF ActiveIntact
  <2>3. CASE ~LoadsHistory(gens.final, t.new)
    <3>1. tx'[p] = [t EXCEPT !.pc = "rollback"]
      BY <1>0, <1>1, <2>3 DEF UseExistingGeneration, Goto
    <3>2. StageInv([t EXCEPT !.pc = "rollback"], root', gens')
      BY <1>0, <2>1 DEF StageInv, RollbackStages, Transactions
    <3> QED BY <2>1, <3>1, <3>2, HolderCrash DEF ActiveIntact
  <2> QED BY <2>2, <2>3
<1>2. CASE CreateGenerationTemporary(p)
  <2>1. t.pc = "validated" /\ UNCHANGED <<root, lock>>
    BY <1>2 DEF CreateGenerationTemporary, At
  <2>2. tx'[p] = [t EXCEPT !.pc = "staging", !.genTemp = TRUE]
    BY <1>0, <1>2 DEF CreateGenerationTemporary
  <2>3. gens'.final = gens.final /\ gens'.tmp.ev = t.new.ev
    BY <1>2 DEF CreateGenerationTemporary, GenerationsDirectory
  <2>4. StageInv([t EXCEPT !.pc = "staging", !.genTemp = TRUE], root', gens')
    BY <1>0, <2>1, <2>3 DEF StageInv, RollbackStages, Transactions
  <2> QED BY <2>1, <2>2, <2>3, <2>4, HolderCrash DEF ActiveIntact
<1>3. CASE \E f \in Files : WriteGenerationFile(p, f)
  <2> PICK f \in Files : WriteGenerationFile(p, f)
    BY <1>3
  <2>1. t.pc = "staging" /\ UNCHANGED <<root, lock, tx>>
    BY DEF WriteGenerationFile, At
  <2>2. gens.tmp \in Generations
    BY <2>1 DEF TypeInv, TypeOK
  <2>3. gens'.final = gens.final /\ gens'.tmp.ev = gens.tmp.ev
    BY <2>2 DEF WriteGenerationFile, GenerationsDirectory, Generations
  <2>4. StageInv(t, root', gens')
    BY <1>0, <2>1, <2>3 DEF StageInv, RollbackStages
  <2> QED BY <2>1, <2>3, <2>4, HolderCrash DEF ActiveIntact
<1>4. CASE SealGeneration(p)
  <2>1. t.pc = "staging" /\ UNCHANGED <<root, lock>> /\ gens.tmp.files = Files
    BY <1>4 DEF SealGeneration, At
  <2>2. tx'[p] = [t EXCEPT !.pc = "generation-synced"]
    BY <1>0, <1>4 DEF SealGeneration, Goto
  <2>3. gens.tmp \in Generations
    BY <2>1 DEF TypeInv, TypeOK
  <2>4. /\ gens'.final = gens.final /\ gens'.tmp.ev = gens.tmp.ev
        /\ gens'.tmp.sealed /\ gens'.tmp.files = Files
    BY <1>4, <2>1, <2>3 DEF SealGeneration, GenerationsDirectory, Generations
  <2>5. StageInv([t EXCEPT !.pc = "generation-synced"], root', gens')
    BY <1>0, <2>1, <2>4 DEF StageInv, RollbackStages, Transactions
  <2> QED BY <2>1, <2>2, <2>4, <2>5, HolderCrash DEF ActiveIntact
<1>5. CASE PublishGeneration(p)
  <2> DEFINE u == [t EXCEPT !.pc = "generation-renamed", !.genTemp = FALSE,
                            !.genAdded = TRUE]
  <2>1. /\ t.pc = "generation-synced" /\ UNCHANGED <<root, lock>>
        /\ gens.final[t.new.name] = None
        /\ gens'.final = [gens.final EXCEPT ![t.new.name] = gens.tmp]
    BY <1>5 DEF PublishGeneration, At, GenerationsDirectory
  <2>2. tx'[p] = u
    BY <1>0, <1>5 DEF PublishGeneration
  <2>3. gens.tmp \in Generations /\ SealedWith(gens.tmp, t.new.ev)
    BY <1>0, <2>1, NoneAssumption DEF StageInv, SealedWith, TypeInv, TypeOK
  <2>4. root.active = t.prev /\ Succeeds(t.new, t.prev) /\ ~t.actCommitted
    BY <1>0, <2>1 DEF StageInv
  <2>5. /\ Intact(gens'.final, t.new)
        /\ t.prev # None => Intact(gens'.final, t.prev)
        /\ NotInHistory(t.new.name, t.prev)
    BY <2>1, <2>3, <2>4, PublishIntact DEF ActiveIntact
  <2>6. u.pc = "generation-renamed" /\ u.new = t.new /\ u.prev = t.prev
        /\ u.actCommitted = t.actCommitted
    BY DEF Transactions
  <2> HIDE DEF u
  <2>7. StageInv(u, root', gens')
    BY <2>1, <2>4, <2>5, <2>6 DEF StageInv, RollbackStages
  <2>8. ActiveIntact'
    BY <2>1, <2>4, <2>5 DEF ActiveIntact
  <2> QED BY <2>1, <2>2, <2>7, <2>8, HolderCrash
<1>6. CASE SyncGenerations(p)
  <2>1. t.pc = "generation-renamed" /\ UNCHANGED <<root, gens, lock>>
    BY <1>6 DEF SyncGenerations, At
  <2>2. tx'[p] = [t EXCEPT !.pc = "generation-published"]
    BY <1>0, <1>6 DEF SyncGenerations, Goto
  <2>3. StageInv([t EXCEPT !.pc = "generation-published"], root', gens')
    BY <1>0, <2>1 DEF StageInv, RollbackStages, Transactions
  <2> QED BY <2>1, <2>2, <2>3, HolderCrash DEF ActiveIntact
<1>7. CASE StageActive(p)
  <2>1. /\ t.pc = "generation-published" /\ UNCHANGED <<gens, lock>>
        /\ root'.active = root.active /\ root'.tmp = t.new
    BY <1>7 DEF StageActive, At, RootDirectory
  <2>2. tx'[p] = [t EXCEPT !.pc = "active-staged", !.actTemp = TRUE]
    BY <1>0, <1>7 DEF StageActive
  <2>3. StageInv([t EXCEPT !.pc = "active-staged", !.actTemp = TRUE], root', gens')
    BY <1>0, <2>1 DEF StageInv, RollbackStages, Transactions
  <2> QED BY <2>1, <2>2, <2>3, HolderCrash DEF ActiveIntact
<1>8. CASE StageActiveRefused(p)
  <2>1. t.pc = "generation-published" /\ UNCHANGED <<root, gens, lock>>
    BY <1>8 DEF StageActiveRefused, At
  <2>2. tx'[p] = [t EXCEPT !.pc = "rollback"]
    BY <1>0, <1>8 DEF StageActiveRefused, Goto
  <2>3. StageInv([t EXCEPT !.pc = "rollback"], root', gens')
    BY <1>0, <2>1 DEF StageInv, RollbackStages, Transactions
  <2> QED BY <2>1, <2>2, <2>3, HolderCrash DEF ActiveIntact
<1>9. CASE CommitActive(p)
  <2> DEFINE u == [t EXCEPT !.pc = "exchanged", !.actCommitted = TRUE,
                            !.actTemp = t.prev # None]
  <2>1. /\ t.pc = "active-staged" /\ UNCHANGED <<gens, lock>>
        /\ root'.active = root.tmp /\ root'.tmp = root.active
    BY <1>9 DEF CommitActive, At
  <2>2. tx'[p] = u
    BY <1>0, <1>9 DEF CommitActive
  <2>3. /\ root.active = t.prev /\ root.tmp = t.new /\ Succeeds(t.new, t.prev)
        /\ Intact(gens.final, t.new)
        /\ t.genAdded => NotInHistory(t.new.name, t.prev)
    BY <1>0, <2>1 DEF StageInv
  <2>4. /\ u.pc = "exchanged" /\ u.new = t.new /\ u.prev = t.prev
        /\ u.actCommitted /\ (u.actTemp <=> t.prev # None)
        /\ u.genAdded = t.genAdded
    BY DEF Transactions
  <2> HIDE DEF u
  <2>5. Committed(u, root', gens')
    BY <2>1, <2>3, <2>4 DEF Committed, ActiveIntact
  <2>6. StageInv(u, root', gens')
    BY <2>1, <2>3, <2>4, <2>5 DEF StageInv, RollbackStages
  <2>7. ActiveIntact'
    BY <2>1, <2>3 DEF ActiveIntact
  <2> QED BY <2>1, <2>2, <2>6, <2>7, HolderCrash
<1>10. CASE SyncActive(p)
  <2>1. t.pc = "exchanged" /\ UNCHANGED <<root, gens, lock>>
    BY <1>10 DEF SyncActive, At
  <2>2. tx'[p] = [t EXCEPT !.pc = "active-committed"]
    BY <1>0, <1>10 DEF SyncActive, Goto
  <2>3. StageInv([t EXCEPT !.pc = "active-committed"], root', gens')
    BY <1>0, <2>1 DEF StageInv, Committed, RollbackStages, Transactions
  <2> QED BY <2>1, <2>2, <2>3, HolderCrash DEF ActiveIntact
<1>11. CASE VerifyCommitted(p)
  <2>1. t.pc = "active-committed" /\ UNCHANGED <<root, gens, lock>>
    BY <1>11 DEF VerifyCommitted, At
  <2>2. \/ tx'[p] = [t EXCEPT !.pc = "verified"]
        \/ tx'[p] = [t EXCEPT !.pc = "rollback"]
    BY <1>0, <1>11 DEF VerifyCommitted, Goto
  <2>3. StageInv([t EXCEPT !.pc = "verified"], root', gens')
    BY <1>0, <2>1 DEF StageInv, Committed, RollbackStages, Transactions
  <2>4. StageInv([t EXCEPT !.pc = "rollback"], root', gens')
    BY <1>0, <2>1 DEF StageInv, Committed, RollbackStages, Transactions
  <2> QED BY <2>1, <2>2, <2>3, <2>4, HolderCrash DEF ActiveIntact
<1>12. CASE RemovePrevious(p)
  <2>1. t.pc = "verified" /\ UNCHANGED <<gens, lock>> /\ root'.active = root.active
    BY <1>12 DEF RemovePrevious, At, RootDirectory
  <2>2. tx'[p] = [t EXCEPT !.pc = "closing", !.actTemp = FALSE]
    BY <1>0, <1>12 DEF RemovePrevious
  <2>3. StageInv([t EXCEPT !.pc = "closing", !.actTemp = FALSE], root', gens')
    BY <1>0, <2>1 DEF StageInv, RollbackStages, Transactions
  <2> QED BY <2>1, <2>2, <2>3, HolderCrash DEF ActiveIntact
<1>13. CASE Finish(p)
  <2>1. lock' = None /\ UNCHANGED <<root, gens>>
    BY <1>13 DEF Finish, Release
  <2> QED BY <2>1, IdleCrash
<1> QED
  BY <1>1, <1>2, <1>3, <1>4, <1>5, <1>6, <1>7, <1>8, <1>9, <1>10, <1>11, <1>12,
     <1>13 DEF Forward

\* Changing a generation outside the history of the active record keeps it
\* intact.
LEMMA OutsideHistory ==
  ASSUME NEW final \in [GenerationNames -> Generations \cup {None}],
         NEW r \in Records, NEW n \in GenerationNames, NEW x,
         Intact(final, r), NotInHistory(n, r)
  PROVE  Intact([final EXCEPT ![n] = x], r)
<1> DEFINE other == [final EXCEPT ![n] = x]
<1>1. r.ev \in Seq(Links)
  BY DEF Records
<1>2. ASSUME NEW i \in 1..Len(r.ev) PROVE other[r.ev[i].name] = final[r.ev[i].name]
  <2>1. r.ev[i] \in Links
    BY <1>1
  <2>2. r.ev[i].name \in GenerationNames
    BY <2>1 DEF Links
  <2>3. r.ev[i].name # n
    BY NoneAssumption DEF NotInHistory
  <2> QED BY <2>2, <2>3
<1> HIDE DEF other
<1> QED
  BY <1>2, IntactFrame DEF other

\* Rollback keeps the invariant when no system call fails.
LEMMA RollbackCrash ==
  ASSUME CrashInv, TypeInv', "io" \notin Faults,
         "undo" \notin Faults, NEW p \in Procs, lock = p,
         Rollback(p) \/ Fail(p)
  PROVE  CrashInv'
<1> USE HolderFacts DEF CrashInv
<1> DEFINE t == tx[p]
<1>0. StageInv(t, root, gens) /\ tx \in [Procs -> Transactions] /\ lock # None
  BY NoneAssumption DEF TypeInv, TypeOK
<1>1. CASE Fail(p)
  <2>1. t.pc \in CancelPoints /\ UNCHANGED <<root, gens, lock>>
    BY <1>1 DEF Fail
  <2>2. tx'[p] = [t EXCEPT !.pc = "rollback"]
    BY <1>0, <1>1 DEF Fail, Goto
  <2>3. Committed(t, root, gens) \/ (~t.actCommitted /\ root.active = t.prev)
    BY <1>0, <2>1 DEF StageInv, CancelPoints, Stages
  <2>4. StageInv([t EXCEPT !.pc = "rollback"], root', gens')
    BY <1>0, <2>1, <2>3 DEF StageInv, Committed, RollbackStages, Transactions
  <2> QED BY <2>1, <2>2, <2>4, HolderCrash DEF ActiveIntact
<1>2. CASE RollbackActive(p)
  <2> DEFINE u == [t EXCEPT !.pc = "rollback-temps"]
  <2>1. t.pc = "rollback" /\ UNCHANGED <<gens, lock>>
    BY <1>2 DEF RollbackActive, At
  <2>2. tx'[p] = u
    BY <1>0, <1>2 DEF RollbackActive, Goto
  <2>3. Committed(t, root, gens) \/ (~t.actCommitted /\ root.active = t.prev)
    BY <1>0, <2>1 DEF StageInv
  <2>4. /\ root'.active = t.prev
        /\ t.prev # None => Intact(gens.final, t.prev)
    <3>1. CASE Committed(t, root, gens)
      BY <1>2, <3>1 DEF Committed, RollbackActive, RootDirectory
    <3>2. CASE ~t.actCommitted /\ root.active = t.prev
      BY <1>2, <3>2 DEF RollbackActive, ActiveIntact
    <3> QED BY <2>3, <3>1, <3>2
  <2>5. /\ u.pc = "rollback-temps" /\ u.new = t.new /\ u.prev = t.prev
        /\ u.genAdded = t.genAdded
    BY DEF Transactions
  <2> HIDE DEF u
  <2>6. StageInv(u, root', gens')
    BY <1>0, <2>4, <2>5 DEF StageInv, RollbackStages
  <2>7. ActiveIntact'
    BY <2>1, <2>4 DEF ActiveIntact
  <2> QED BY <2>1, <2>2, <2>6, <2>7, HolderCrash
<1>3. CASE RollbackTemporaries(p)
  <2>1. /\ t.pc = "rollback-temps" /\ UNCHANGED lock
        /\ root'.active = root.active /\ gens'.final = gens.final
    BY <1>3 DEF RollbackTemporaries, At, RootDirectory, GenerationsDirectory
  <2>2. tx'[p] = [t EXCEPT !.pc = IF t.genAdded THEN "rollback-unseal"
                                  ELSE "rollback-sync"]
    BY <1>0, <1>3 DEF RollbackTemporaries, Goto
  <2>3. root.active = t.prev
    BY <1>0, <2>1 DEF StageInv, RollbackStages
  <2>4. ASSUME t.genAdded
        PROVE  StageInv([t EXCEPT !.pc = "rollback-unseal"], root', gens')
    BY <1>0, <2>1, <2>3, <2>4 DEF StageInv, RollbackStages, Transactions
  <2>5. StageInv([t EXCEPT !.pc = "rollback-sync"], root', gens')
    BY <1>0, <2>1, <2>3 DEF StageInv, RollbackStages, Transactions
  <2> QED BY <2>1, <2>2, <2>4, <2>5, HolderCrash DEF ActiveIntact
<1>4. CASE UnsealGeneration(p) \/ (\E f \in Files : UnlinkGenerationFile(p, f))
           \/ RemoveGeneration(p)
  <2>1. /\ t.pc \in {"rollback-unseal", "rollback-unlink"} /\ UNCHANGED <<root, lock>>
        /\ \E x : gens'.final = [gens.final EXCEPT ![t.new.name] = x]
        /\ tx'[p] \in {t, [t EXCEPT !.pc = "rollback-unlink"],
                        [t EXCEPT !.pc = "rollback-sync"]}
    <3>1. CASE UnsealGeneration(p)
      BY <1>0, <1>4, <3>1 DEF UnsealGeneration, At, Goto, GenerationsDirectory
    <3>2. CASE \E f \in Files : UnlinkGenerationFile(p, f)
      BY <1>0, <1>4, <3>2 DEF UnlinkGenerationFile, At, GenerationsDirectory
    <3>3. CASE RemoveGeneration(p)
      BY <1>0, <1>4, <3>3 DEF RemoveGeneration, At, Goto, GenerationsDirectory
    <3> QED BY <1>4, <3>1, <3>2, <3>3
  <2>2. root.active = t.prev /\ t.genAdded /\ NotInHistory(t.new.name, t.prev)
    BY <1>0, <2>1 DEF StageInv, RollbackStages
  <2>3. PICK x : gens'.final = [gens.final EXCEPT ![t.new.name] = x]
    BY <2>1
  <2>4. ActiveIntact'
    <3>1. /\ root.active \in Records \cup {None}
          /\ gens.final \in [GenerationNames -> Generations \cup {None}]
          /\ root'.active = root.active
      BY <2>1
    <3>2. t.new.name \in GenerationNames
      OBVIOUS
    <3>3. CASE root.active = None
      BY <3>1, <3>3 DEF ActiveIntact
    <3>4. CASE root.active # None
      <4>1. root.active \in Records /\ Intact(gens.final, root.active)
        BY <3>1, <3>4 DEF ActiveIntact
      <4>2. Intact([gens.final EXCEPT ![t.new.name] = x], root.active)
        BY <2>2, <3>1, <3>2, <4>1, OutsideHistory
      <4> QED BY <2>3, <3>1, <4>2 DEF ActiveIntact
    <3> QED BY <3>3, <3>4
  <2>5. StageInv(t, root', gens')
    BY <1>0, <2>1, <2>2 DEF StageInv, RollbackStages
  <2>6. StageInv([t EXCEPT !.pc = "rollback-unlink"], root', gens')
    BY <1>0, <2>1, <2>2 DEF StageInv, RollbackStages, Transactions
  <2>7. StageInv([t EXCEPT !.pc = "rollback-sync"], root', gens')
    BY <1>0, <2>1, <2>2 DEF StageInv, RollbackStages, Transactions
  <2> QED BY <2>1, <2>4, <2>5, <2>6, <2>7, HolderCrash
<1>5. CASE RollbackSyncGenerations(p)
  <2>1. t.pc = "rollback-sync" /\ UNCHANGED <<root, gens, lock>>
    BY <1>5 DEF RollbackSyncGenerations, At
  <2>2. tx'[p] = [t EXCEPT !.pc = "rollback-sync-root"]
    BY <1>0, <1>5 DEF RollbackSyncGenerations, Goto
  <2>3. StageInv([t EXCEPT !.pc = "rollback-sync-root"], root', gens')
    BY <1>0, <2>1 DEF StageInv, RollbackStages, Transactions
  <2> QED BY <2>1, <2>2, <2>3, HolderCrash DEF ActiveIntact
<1>6. CASE RollbackSyncRoot(p)
  <2>1. lock' = None /\ UNCHANGED <<root, gens>>
    BY <1>6 DEF RollbackSyncRoot, Release
  <2> QED BY <2>1, IdleCrash
<1>7. CASE RollbackActiveFails(p) \/ RemoveGenerationFails(p)
  BY <1>7 DEF RollbackActiveFails, RemoveGenerationFails
<1>8. \/ Fail(p) \/ RollbackActive(p) \/ RollbackTemporaries(p)
      \/ UnsealGeneration(p) \/ (\E f \in Files : UnlinkGenerationFile(p, f))
      \/ RemoveGeneration(p) \/ RollbackSyncGenerations(p) \/ RollbackSyncRoot(p)
      \/ RollbackActiveFails(p) \/ RemoveGenerationFails(p)
  BY Zenon DEF Rollback
<1> HIDE HolderFacts DEF CrashInv
<1> QED
  BY <1>1, <1>2, <1>3, <1>4, <1>5, <1>6, <1>7, <1>8, Zenon

\* Calls keep the invariant.
LEMMA CallCrash ==
  ASSUME CrashInv, TypeInv', NEW p \in Procs, Call(p)
  PROVE  CrashInv'
<1>0. /\ now \in 0..MaxTime /\ root.active \in Records \cup {None}
      /\ ops \subseteq SignedOperations /\ TypeInv
  BY DEF CrashInv, TypeInv, TypeOK, RootDirectory
<1>1. CASE \E y \in Payloads : PublishBegin(p, y)
  <2> PICK y \in Payloads : PublishBegin(p, y)
    BY <1>1
  <2>1. LegacyRecord(y, root.active, now) \in Records
    BY <1>0, LegacyRecordType
  <2>2. CleanTemporaries /\ Start(p, LegacyRecord(y, root.active, now))
    BY DEF PublishBegin
  <2> QED BY <2>1, <2>2, LegacySucceeds, StartCrash
<1>2. CASE \E op \in ops : ApplyPublish(p, op)
  <2> PICK op \in ops : ApplyPublish(p, op)
    BY <1>2
  <2>1. [seq |-> op.seq, payload |-> op.payload] \in GenerationNames
    BY <1>0 DEF SignedOperations, ApplyPublish, GenerationNames
  <2>2. root.active \in Records
    BY <1>0 DEF ApplyPublish, UpdateStateLoads
  <2>3. /\ UpdateRecord(op, root.active, now) \in Records
        /\ Succeeds(UpdateRecord(op, root.active, now), root.active)
    BY <1>0, <2>1, <2>2, ExtendType, ExtendSucceeds DEF UpdateRecord
  <2>4. CleanTemporaries /\ Start(p, UpdateRecord(op, root.active, now))
    BY DEF ApplyPublish
  <2> QED BY <2>3, <2>4, StartCrash
<1>3. CASE \E op \in ops : ApplyWithdrawal(p, op)
  <2> PICK op \in ops : ApplyWithdrawal(p, op)
    BY <1>3
  <2>1. root.active \in Records
    BY <1>0 DEF ApplyWithdrawal, UpdateStateLoads
  <2>2. root.active.name.payload \in Payloads /\ op.seq \in 1..MaxSeq
    BY <1>0, <2>1 DEF Records, GenerationNames, SignedOperations
  <2>3. [seq |-> op.seq, payload |-> root.active.name.payload] \in GenerationNames
    BY <2>2 DEF GenerationNames
  <2>4. /\ WithdrawalRecord(op, root.active, now) \in Records
        /\ Succeeds(WithdrawalRecord(op, root.active, now), root.active)
    BY <1>0, <2>1, <2>3, ExtendType, ExtendSucceeds DEF WithdrawalRecord
  <2>5. CleanTemporaries /\ Start(p, WithdrawalRecord(op, root.active, now))
    BY DEF ApplyWithdrawal
  <2> QED BY <2>4, <2>5, StartCrash
<1>4. CASE \/ \E y \in Payloads : PublishReuse(p, y)
           \/ Recover(p) \/ Activate(p) \/ RecoverWithdrawal(p) \/ CleanAndRefuse(p)
  <2>1. CleanTemporaries /\ lock = None /\ lock' = lock
    BY <1>4 DEF PublishReuse, Recover, Activate, RecoverWithdrawal, CleanAndRefuse,
                OpenStore
  <2> QED BY <1>0, <2>1, CleanedType, IdleCrash
<1> QED
  BY <1>1, <1>2, <1>3, <1>4 DEF Call

LEMMA CrashStep ==
  ASSUME "io" \notin Faults, "undo" \notin Faults, "power" \notin Faults
  PROVE  CrashInv /\ [Next]_vars => CrashInv'
<1> SUFFICES ASSUME CrashInv, [Next]_vars PROVE CrashInv'
  OBVIOUS
<1>0. TypeInv'
  BY TypeStep DEF CrashInv
<1>1. CASE UNCHANGED vars
  BY <1>0, <1>1 DEF vars, CrashInv, ActiveIntact
<1>2. ASSUME NEW p \in Procs, Call(p) PROVE CrashInv'
  BY <1>0, <1>2, CallCrash
<1>3. ASSUME NEW p \in Procs, Forward(p) PROVE CrashInv'
  <2>1. lock = p
    BY <1>3 DEF Forward, At, UseExistingGeneration, CreateGenerationTemporary,
         WriteGenerationFile, SealGeneration, PublishGeneration, SyncGenerations,
         StageActive, StageActiveRefused, CommitActive, SyncActive, VerifyCommitted,
         RemovePrevious, Finish
  <2> QED BY <1>0, <1>3, <2>1, ForwardCrash
<1>4. ASSUME NEW p \in Procs, Rollback(p) \/ Fail(p) PROVE CrashInv'
  <2>1. lock = p
    BY <1>4 DEF Rollback, At, Fail, RollbackActive, RollbackActiveFails,
         RollbackTemporaries, UnsealGeneration, UnlinkGenerationFile,
         RemoveGeneration, RemoveGenerationFails, RollbackSyncGenerations,
         RollbackSyncRoot
  <2> QED BY <1>0, <1>4, <2>1, RollbackCrash
<1>5. ASSUME NEW p \in Procs, Kill(p) PROVE CrashInv'
  <2>1. lock' = None /\ UNCHANGED <<root, gens>>
    BY <1>5 DEF Kill, Release
  <2> QED BY <1>0, <2>1, IdleCrash
<1>6. CASE Environment
  <2>1. UNCHANGED <<root, gens, lock, tx>>
    BY <1>6 DEF Environment, Tick, SignOperation, Writeback, PowerLoss
  <2> QED BY <1>0, <2>1 DEF CrashInv, ActiveIntact
<1> QED
  BY <1>1, <1>2, <1>3, <1>4, <1>5, <1>6 DEF Next

\* Crash safety of publication, update, withdrawal and rollback: when no system
\* call of the transaction or of its rollback fails and the power stays on, at
\* whatever stages processes are cancelled or killed, active.json names a generation that is published,
\* sealed and complete, together with every generation of its history.
THEOREM CrashSafe ==
  ASSUME "io" \notin Faults, "undo" \notin Faults, "power" \notin Faults
  PROVE  Spec => []ActiveIntact
<1>1. Init => CrashInv
  <2> SUFFICES ASSUME Init PROVE CrashInv
    OBVIOUS
  <2>1. TypeInv /\ root.active = None /\ lock = None
    BY TypeInit DEF Init, EmptyRoot
  <2> QED BY <2>1, NoneAssumption DEF CrashInv, ActiveIntact
<1>2. CrashInv /\ [Next]_vars => CrashInv'
  BY CrashStep
<1>3. CrashInv => ActiveIntact
  BY DEF CrashInv
<1> QED
  BY <1>1, <1>2, <1>3, PTL DEF Spec
-----------------------------------------------------------------------------
(* The register of trust state *)

\* A record that may follow another: the register advances to it, and may go
\* back as long as nobody was told.
Succession(a, b) ==
  /\ ~Register!Terminal(a)
  /\ b # None
  /\ Register!Precedes(a, b)
  /\ Register!Precedes(b, a) => ~Register!Terminal(b)

\* Nothing older than a: a itself, or a record that may replace it.
NotBehind(a, b) == b = a \/ Register!Precedes(a, b)

\* HistoryAuthorized, of any record and set of operations.
AuthorizedBy(signed, r) ==
  r # None =>
    \A i \in 2..Len(r.ev) :
      \E op \in signed :
        /\ op.cur.ev = SubSeq(r.ev, 1, i - 1)
        /\ op.seq = r.ev[i].name.seq
        /\ op.from <= r.ev[i].at /\ r.ev[i].at < op.until
        /\ op.action = "withdraw" <=> r.ev[i].kind = "withdraw"

Uncommitted == {"validated", "staging", "generation-synced", "generation-renamed",
                "generation-published", "active-staged"}

\* Where the two records of the holder's transaction are at each stage: in the
\* root that processes see, and in the root that survives a power loss.
Placed(t, r, d) ==
  /\ r.active \in {t.prev, t.new}
  /\ d.active \in {t.prev, t.new}
  /\ t.pc \in Uncommitted => r.active = t.prev /\ ~t.actCommitted
  /\ t.pc = "active-staged" => r.tmp = t.new
  /\ t.pc \in {"exchanged", "active-committed", "verified", "closing"} =>
       t.actCommitted /\ r.active = t.new
  /\ t.pc \in {"exchanged", "active-committed", "verified"} =>
       (t.actTemp <=> t.prev # None) /\ r.tmp = t.prev
  /\ t.pc = "closing" => ~t.actTemp
  /\ t.pc \in {"active-committed", "verified", "closing"} => d.active = t.new
  /\ t.pc = "rollback" =>
       \/ ~t.actCommitted /\ r.active = t.prev
       \/ t.actCommitted /\ r.active = t.new /\ (t.actTemp => r.tmp = t.prev)

Vouched(t) ==
  /\ Succession(t.prev, t.new)
  /\ NotBehind(observed, t.prev)
  /\ AuthorizedBy(ops, t.prev)
  /\ AuthorizedBy(ops, t.new)

Adjacent(a, b) == a = b \/ Succession(a, b) \/ Succession(b, a)

LedgerInv ==
  /\ TypeInv
  /\ AuthorizedBy(ops, root.active) /\ AuthorizedBy(ops, disk.root.active)
  /\ NotBehind(observed, root.active) /\ NotBehind(observed, disk.root.active)
  /\ Adjacent(disk.root.active, root.active)
  /\ \A p \in Procs : lock = p => Vouched(tx[p]) /\ Placed(tx[p], root, disk.root)

\* The order of trust records is transitive.
LEMMA PrecedesTransitive ==
  ASSUME NEW a \in Records \cup {None}, NEW b \in Records, NEW c \in Records,
         Register!Precedes(a, b), Register!Precedes(b, c)
  PROVE  Register!Precedes(a, c)
<1>1. b.name \in GenerationNames /\ c.name \in GenerationNames
  BY DEF Records
<1>2. b.name.seq \in Int /\ c.name.seq \in Int
  BY <1>1, BoundsAssumption DEF GenerationNames
<1>3. CASE a = None
  BY <1>3 DEF Register!Precedes
<1>4. CASE a # None
  <2>1. a.name \in GenerationNames
    BY <1>4 DEF Records
  <2>2. a.name.seq \in Int
    BY <2>1, BoundsAssumption DEF GenerationNames
  <2>3. b # None /\ c # None
    BY NoneAssumption
  <2> QED BY <1>2, <1>4, <2>2, <2>3 DEF Register!Precedes
<1> QED BY <1>3, <1>4

\* What may follow a record that is not behind an answer is not behind it.
LEMMA SuccessorNotBehind ==
  ASSUME NEW o \in Records \cup {None}, NEW a \in Records \cup {None},
         NEW b \in Records, NotBehind(o, a), Succession(a, b)
  PROVE  NotBehind(o, b)
<1>1. Register!Precedes(a, b)
  BY DEF Succession
<1>2. CASE a = o
  BY <1>1, <1>2 DEF NotBehind
<1>3. CASE a # o /\ a = None
  BY <1>3 DEF NotBehind, Register!Precedes
<1>4. CASE a # o /\ a # None
  BY <1>1, <1>4, PrecedesTransitive DEF NotBehind
<1> QED BY <1>2, <1>3, <1>4

\* Signing one more operation withdraws no authorisation.
LEMMA AuthorizedGrows ==
  ASSUME NEW signed, NEW more, signed \subseteq more, NEW r, AuthorizedBy(signed, r)
  PROVE  AuthorizedBy(more, r)
  BY DEF AuthorizedBy

\* An unsigned publication starts a history without signed links.
LEMMA LegacyAuthorized ==
  ASSUME NEW y, NEW prev, NEW t, NEW signed
  PROVE  AuthorizedBy(signed, LegacyRecord(y, prev, t))
<1>1. Len(LegacyRecord(y, prev, t).ev) = 1
  BY DEF LegacyRecord
<1> QED BY <1>1 DEF AuthorizedBy

\* A link added by an operation signed against the record before it is
\* authorised, and the links before it still are.
LEMMA ExtendAuthorized ==
  ASSUME NEW prev \in Records, NEW kind \in {"update", "withdraw"},
         NEW n \in GenerationNames, NEW t \in 0..MaxTime,
         NEW signed, NEW op \in signed, AuthorizedBy(signed, prev),
         op.cur = prev, op.seq = n.seq, op.from <= t, t < op.until,
         op.action = "withdraw" <=> kind = "withdraw"
  PROVE  AuthorizedBy(signed, Extend(prev, kind, n, t))
<1> DEFINE l == [kind |-> kind, name |-> n, at |-> t, prev |-> None]
           r == Extend(prev, kind, n, t)
<1>1. l \in Links /\ l.kind = kind /\ l.name = n /\ l.at = t
  BY DEF Links
<1>2. prev.ev \in Seq(Links) /\ prev # None
  BY NoneAssumption DEF Records
<1>3. r.ev = Append(prev.ev, l)
  BY DEF Extend
<1> HIDE DEF l, r
<1>4. Len(r.ev) = Len(prev.ev) + 1 /\ Len(prev.ev) \in Nat
  BY <1>1, <1>2, <1>3
<1>5. r.ev[Len(prev.ev) + 1] = l /\ SubSeq(r.ev, 1, Len(prev.ev)) = prev.ev
  BY <1>1, <1>2, <1>3
<1>6. ASSUME NEW i \in 2..Len(r.ev)
      PROVE  \E o \in signed :
               /\ o.cur.ev = SubSeq(r.ev, 1, i - 1)
               /\ o.seq = r.ev[i].name.seq
               /\ o.from <= r.ev[i].at /\ r.ev[i].at < o.until
               /\ o.action = "withdraw" <=> r.ev[i].kind = "withdraw"
  <2>1. CASE i = Len(prev.ev) + 1
    <3>1. r.ev[i] = l /\ SubSeq(r.ev, 1, i - 1) = op.cur.ev
      BY <1>4, <1>5, <2>1
    <3> QED BY <1>1, <3>1
  <2>2. CASE i # Len(prev.ev) + 1
    <3>1. i \in 2..Len(prev.ev)
      BY <1>4, <2>2
    <3>2. r.ev[i] = prev.ev[i] /\ SubSeq(r.ev, 1, i - 1) = SubSeq(prev.ev, 1, i - 1)
      BY <1>1, <1>2, <1>3, <3>1
    <3> QED BY <1>2, <3>1, <3>2 DEF AuthorizedBy
  <2> QED BY <2>1, <2>2
<1> QED
  BY <1>6 DEF AuthorizedBy, r

\* A publication follows the active record it was authenticated against.
LEMMA LegacyFollows ==
  ASSUME NEW y \in Payloads, NEW prev \in Records \cup {None}, NEW t \in 0..MaxTime,
         NotRolledBack(y, prev), prev # None => ~Withdrawn(prev)
  PROVE  Succession(prev, LegacyRecord(y, prev, t))
<1> DEFINE r == LegacyRecord(y, prev, t)
<1>1. r \in Records /\ r # None
  BY LegacyRecordType, NoneAssumption
<1>2. r.name = [seq |-> y.seq, payload |-> y]
  BY DEF LegacyRecord
<1>3. Len(r.ev) = 1 /\ r.ev[1].kind = "legacy"
  BY DEF LegacyRecord
<1> HIDE DEF r
<1>4. ~Register!Terminal(prev) /\ ~Register!Terminal(r)
  BY <1>3 DEF Register!Terminal, Withdrawn, LastLink
<1>5. Register!Precedes(prev, r)
  BY <1>1, <1>2 DEF Register!Precedes, NotRolledBack, SeqOf
<1> QED BY <1>1, <1>4, <1>5 DEF Succession, r

\* A signed operation moves the sequence forward.
LEMMA ExtendFollows ==
  ASSUME NEW prev \in Records, NEW kind \in {"update", "withdraw"},
         NEW n \in GenerationNames, NEW t \in 0..MaxTime,
         SeqOf(prev) < n.seq, ~Withdrawn(prev)
  PROVE  Succession(prev, Extend(prev, kind, n, t))
<1> DEFINE r == Extend(prev, kind, n, t)
<1>1. r \in Records /\ r # None /\ prev # None
  BY ExtendType, NoneAssumption
<1>2. r.name = n
  BY DEF Extend
<1> HIDE DEF r
<1>3. prev.name.seq \in Int /\ n.seq \in Int
  <2>1. prev.name \in GenerationNames
    BY DEF Records
  <2> QED BY <2>1, BoundsAssumption DEF GenerationNames
<1>4. ~Register!Terminal(prev)
  BY DEF Register!Terminal, Withdrawn, LastLink
<1>5. Register!Precedes(prev, r) /\ ~Register!Precedes(r, prev)
  BY <1>1, <1>2, <1>3 DEF Register!Precedes, SeqOf
<1> QED BY <1>1, <1>4, <1>5 DEF Succession, r

\* What a stage of the lock holder has to establish: its records are still
\* vouched for, so it is enough to say where they are.
LEMMA HolderLedger ==
  ASSUME LedgerInv, TypeInv', NEW p \in Procs, lock = p, lock' = p,
         NEW t \in Transactions, tx' = [tx EXCEPT ![p] = t],
         t.prev = tx[p].prev, t.new = tx[p].new,
         UNCHANGED <<ops, observed>>, Placed(t, root', disk'.root)
  PROVE  LedgerInv'
<1>1. tx'[p] = t
  BY DEF LedgerInv, TypeInv, TypeOK
<1>2. Vouched(tx[p])
  BY DEF LedgerInv
<1>3. Vouched(t)'
  BY <1>2 DEF Vouched
<1>4. /\ t.prev \in Records \cup {None} /\ t.new \in Records
      /\ observed \in Records \cup {None}
  BY HolderFacts DEF LedgerInv, TypeInv, TypeOK
<1>5. NotBehind(observed, t.prev) /\ NotBehind(observed, t.new)
  BY <1>2, <1>4, SuccessorNotBehind DEF Vouched
<1>6. root'.active \in {t.prev, t.new} /\ disk'.root.active \in {t.prev, t.new}
  BY DEF Placed
<1>7. AuthorizedBy(ops', root'.active) /\ AuthorizedBy(ops', disk'.root.active)
  BY <1>3, <1>6 DEF Vouched
<1>8. NotBehind(observed', root'.active) /\ NotBehind(observed', disk'.root.active)
  BY <1>5, <1>6
<1>9. Adjacent(disk'.root.active, root'.active)
  BY <1>3, <1>6 DEF Vouched, Adjacent
<1> QED
  BY <1>1, <1>3, <1>7, <1>8, <1>9 DEF LedgerInv

\* A step that ends the transaction leaves one of its two records active.
LEMMA EndLedger ==
  ASSUME LedgerInv, TypeInv', NEW p \in Procs, lock = p, lock' = None,
         UNCHANGED <<ops, root>>,
         disk'.root.active \in {tx[p].prev, tx[p].new},
         \/ UNCHANGED observed
         \/ /\ observed' = tx[p].new
            /\ root.active = tx[p].new /\ disk'.root.active = tx[p].new
  PROVE  LedgerInv'
<1> DEFINE t == tx[p]
<1>1. Vouched(t) /\ Placed(t, root, disk.root)
  BY DEF LedgerInv
<1>2. /\ t.prev \in Records \cup {None} /\ t.new \in Records
      /\ observed \in Records \cup {None}
  BY HolderFacts DEF LedgerInv, TypeInv, TypeOK
<1> HIDE DEF t
<1>3. NotBehind(observed, t.prev) /\ NotBehind(observed, t.new)
  BY <1>1, <1>2, SuccessorNotBehind DEF Vouched
<1>4. root.active \in {t.prev, t.new} /\ disk'.root.active \in {t.prev, t.new}
  BY <1>1 DEF Placed, t
<1>5. AuthorizedBy(ops', root'.active) /\ AuthorizedBy(ops', disk'.root.active)
  BY <1>1, <1>4 DEF Vouched
<1>6. NotBehind(observed', root'.active) /\ NotBehind(observed', disk'.root.active)
  BY <1>3, <1>4 DEF t, NotBehind
<1>7. Adjacent(disk'.root.active, root'.active)
  BY <1>1, <1>4 DEF Vouched, Adjacent
<1> QED
  BY <1>5, <1>6, <1>7, NoneAssumption DEF LedgerInv

\* A call cleans the temporaries and syncs both directories before it stages
\* anything.
LEMMA StartLedger ==
  ASSUME LedgerInv, TypeInv', NEW p \in Procs, NEW new \in Records,
         CleanTemporaries, Start(p, new), UNCHANGED <<ops, observed>>,
         Succession(root.active, new), AuthorizedBy(ops, new)
  PROVE  LedgerInv'
<1>0. PICK t : t = [Idle EXCEPT !.pc = "validated", !.new = new, !.prev = root.active]
  OBVIOUS
<1>1. /\ t.pc = "validated" /\ t.new = new /\ t.prev = root.active
      /\ t.actCommitted = FALSE
  BY <1>0 DEF Idle
<1>2. tx' = [tx EXCEPT ![p] = t] /\ lock' = p
  BY <1>0 DEF Start
<1>3. tx'[p] = t
  BY <1>2 DEF LedgerInv, TypeInv, TypeOK
<1>4. root'.active = root.active /\ disk'.root = root'
  BY DEF LedgerInv, TypeInv, TypeOK, RootDirectory, CleanTemporaries
<1>5. AuthorizedBy(ops, root.active) /\ NotBehind(observed, root.active)
  BY DEF LedgerInv
<1>6. Vouched(t)'
  BY <1>1, <1>5 DEF Vouched
<1>7. Placed(t, root', disk'.root)
  BY <1>1, <1>4 DEF Placed, Uncommitted
<1>8. \A q \in Procs : lock' = q => q = p
  BY <1>2
<1> QED
  BY <1>2, <1>3, <1>4, <1>5, <1>6, <1>7, <1>8 DEF LedgerInv, Adjacent

\* A call that only cleans may report the active record: it is on the disk.
LEMMA CleanLedger ==
  ASSUME LedgerInv, TypeInv', CleanTemporaries, lock = None,
         UNCHANGED <<ops, lock, tx>>,
         observed' = observed \/ observed' = root.active
  PROVE  LedgerInv'
<1>1. root'.active = root.active /\ disk'.root = root'
  BY DEF LedgerInv, TypeInv, TypeOK, RootDirectory, CleanTemporaries
<1>2. NotBehind(observed', root.active)
  BY DEF LedgerInv, NotBehind
<1> QED
  BY <1>1, <1>2, NoneAssumption DEF LedgerInv, Adjacent

\* Only the holder of the flock takes a step of a transaction.
LEMMA HolderMoves ==
  ASSUME NEW p \in Procs, Forward(p) \/ Rollback(p) \/ Fail(p)
  PROVE  lock = p
<1>1. CASE Forward(p)
  BY <1>1 DEF Forward, At, UseExistingGeneration, CreateGenerationTemporary,
       WriteGenerationFile, SealGeneration, PublishGeneration, SyncGenerations,
       StageActive, StageActiveRefused, CommitActive, SyncActive, VerifyCommitted,
       RemovePrevious, Finish
<1>2. CASE Rollback(p) \/ Fail(p)
  BY <1>2 DEF Rollback, At, Fail, RollbackActive, RollbackActiveFails,
       RollbackTemporaries, UnsealGeneration, UnlinkGenerationFile,
       RemoveGeneration, RemoveGenerationFails, RollbackSyncGenerations,
       RollbackSyncRoot
<1> QED BY <1>1, <1>2

\* Every stage up to success leaves the two records where the next stage finds
\* them.
LEMMA ForwardLedger ==
  ASSUME LedgerInv, TypeInv', NEW p \in Procs, lock = p, Forward(p)
  PROVE  LedgerInv'
<1> DEFINE t == tx[p]
<1>0. /\ t \in Transactions /\ Placed(t, root, disk.root)
      /\ root \in RootDirectory /\ TypeInv
      /\ disk \in [root : RootDirectory, gens : GenerationsDirectory]
      /\ tx \in [Procs -> Transactions]
  BY HolderFacts DEF LedgerInv, TypeInv, TypeOK
<1>1. CASE UseExistingGeneration(p)
  <2>1. /\ t.pc = "validated" /\ UNCHANGED <<ops, root, disk, lock, observed>>
    BY <1>1 DEF UseExistingGeneration, At
  <2> DEFINE stage == IF LoadsHistory(gens.final, tx[p].new)
                      THEN "generation-published" ELSE "rollback"
             u == [t EXCEPT !.pc = stage]
  <2>2. tx' = [tx EXCEPT ![p] = u] /\ stage \in {"generation-published", "rollback"}
    BY <1>1 DEF UseExistingGeneration, Goto
  <2> HIDE DEF stage
  <2>3. /\ u \in Transactions /\ u.pc = stage /\ u.prev = t.prev /\ u.new = t.new
        /\ u.actCommitted = t.actCommitted /\ u.actTemp = t.actTemp
    BY <1>0, <2>2 DEF Transactions, Stages, RollbackStages
  <2> HIDE DEF u
  <2>4. Placed(u, root', disk'.root)
    BY <1>0, <2>1, <2>2, <2>3 DEF Placed, Uncommitted
  <2> QED BY <2>1, <2>2, <2>3, <2>4, HolderLedger
<1>2. CASE CreateGenerationTemporary(p)
  <2>1. /\ t.pc = "validated" /\ UNCHANGED <<ops, root, disk, lock, observed>>
    BY <1>2 DEF CreateGenerationTemporary, At
  <2> DEFINE u == [t EXCEPT !.pc = "staging", !.genTemp = TRUE]
  <2>2. tx' = [tx EXCEPT ![p] = u]
    BY <1>2 DEF CreateGenerationTemporary
  <2>3. /\ u \in Transactions /\ u.pc = "staging" /\ u.prev = t.prev /\ u.new = t.new
        /\ u.actCommitted = t.actCommitted /\ u.actTemp = t.actTemp
    BY <1>0 DEF Transactions, Stages
  <2> HIDE DEF u
  <2>4. Placed(u, root', disk'.root)
    BY <1>0, <2>1, <2>3 DEF Placed, Uncommitted
  <2> QED BY <2>1, <2>2, <2>3, <2>4, HolderLedger
<1>3. CASE \E f \in Files : WriteGenerationFile(p, f)
  <2>1. UNCHANGED <<ops, root, disk, lock, tx, observed>>
    BY <1>3 DEF WriteGenerationFile
  <2>2. tx' = [tx EXCEPT ![p] = t]
    BY <1>0, <2>1
  <2> HIDE DEF t
  <2> QED BY <1>0, <2>1, <2>2, HolderLedger DEF t
<1>4. CASE SealGeneration(p)
  <2>1. /\ t.pc = "staging" /\ UNCHANGED <<ops, root, disk, lock, observed>>
    BY <1>4 DEF SealGeneration, At
  <2> DEFINE u == [t EXCEPT !.pc = "generation-synced"]
  <2>2. tx' = [tx EXCEPT ![p] = u]
    BY <1>4 DEF SealGeneration, Goto
  <2>3. /\ u \in Transactions /\ u.pc = "generation-synced" /\ u.prev = t.prev
        /\ u.new = t.new /\ u.actCommitted = t.actCommitted /\ u.actTemp = t.actTemp
    BY <1>0 DEF Transactions, Stages
  <2> HIDE DEF u
  <2>4. Placed(u, root', disk'.root)
    BY <1>0, <2>1, <2>3 DEF Placed, Uncommitted
  <2> QED BY <2>1, <2>2, <2>3, <2>4, HolderLedger
<1>5. CASE PublishGeneration(p)
  <2>1. /\ t.pc = "generation-synced" /\ UNCHANGED <<ops, root, disk, lock, observed>>
    BY <1>5 DEF PublishGeneration, At
  <2> DEFINE u == [t EXCEPT !.pc = "generation-renamed", !.genTemp = FALSE,
                            !.genAdded = TRUE]
  <2>2. tx' = [tx EXCEPT ![p] = u]
    BY <1>5 DEF PublishGeneration
  <2>3. /\ u \in Transactions /\ u.pc = "generation-renamed" /\ u.prev = t.prev
        /\ u.new = t.new /\ u.actCommitted = t.actCommitted /\ u.actTemp = t.actTemp
    BY <1>0 DEF Transactions, Stages
  <2> HIDE DEF u
  <2>4. Placed(u, root', disk'.root)
    BY <1>0, <2>1, <2>3 DEF Placed, Uncommitted
  <2> QED BY <2>1, <2>2, <2>3, <2>4, HolderLedger
<1>6. CASE SyncGenerations(p)
  <2>1. /\ t.pc = "generation-renamed" /\ UNCHANGED <<ops, root, lock, observed>>
        /\ disk'.root = disk.root
    BY <1>0, <1>6 DEF SyncGenerations, At
  <2> DEFINE u == [t EXCEPT !.pc = "generation-published"]
  <2>2. tx' = [tx EXCEPT ![p] = u]
    BY <1>6 DEF SyncGenerations, Goto
  <2>3. /\ u \in Transactions /\ u.pc = "generation-published" /\ u.prev = t.prev
        /\ u.new = t.new /\ u.actCommitted = t.actCommitted /\ u.actTemp = t.actTemp
    BY <1>0 DEF Transactions, Stages
  <2> HIDE DEF u
  <2>4. Placed(u, root', disk'.root)
    BY <1>0, <2>1, <2>3 DEF Placed, Uncommitted
  <2> QED BY <2>1, <2>2, <2>3, <2>4, HolderLedger
<1>7. CASE StageActive(p)
  <2>1. /\ t.pc = "generation-published" /\ UNCHANGED <<ops, disk, lock, observed>>
        /\ root'.active = root.active /\ root'.tmp = t.new
    BY <1>0, <1>7 DEF StageActive, At, RootDirectory
  <2> DEFINE u == [t EXCEPT !.pc = "active-staged", !.actTemp = TRUE]
  <2>2. tx' = [tx EXCEPT ![p] = u]
    BY <1>7 DEF StageActive
  <2>3. /\ u \in Transactions /\ u.pc = "active-staged" /\ u.prev = t.prev
        /\ u.new = t.new /\ u.actCommitted = t.actCommitted
    BY <1>0 DEF Transactions, Stages
  <2> HIDE DEF u
  <2>4. Placed(u, root', disk'.root)
    BY <1>0, <2>1, <2>3 DEF Placed, Uncommitted
  <2> QED BY <2>1, <2>2, <2>3, <2>4, HolderLedger
<1>8. CASE StageActiveRefused(p)
  <2>1. /\ t.pc = "generation-published" /\ UNCHANGED <<ops, root, disk, lock, observed>>
    BY <1>8 DEF StageActiveRefused, At
  <2> DEFINE u == [t EXCEPT !.pc = "rollback"]
  <2>2. tx' = [tx EXCEPT ![p] = u]
    BY <1>8 DEF StageActiveRefused, Goto
  <2>3. /\ u \in Transactions /\ u.pc = "rollback" /\ u.prev = t.prev
        /\ u.new = t.new /\ u.actCommitted = t.actCommitted /\ u.actTemp = t.actTemp
    BY <1>0 DEF Transactions, RollbackStages
  <2> HIDE DEF u
  <2>4. Placed(u, root', disk'.root)
    BY <1>0, <2>1, <2>3 DEF Placed, Uncommitted
  <2> QED BY <2>1, <2>2, <2>3, <2>4, HolderLedger
<1>9. CASE CommitActive(p)
  <2>1. /\ t.pc = "active-staged" /\ UNCHANGED <<ops, disk, lock, observed>>
        /\ root'.active = root.tmp /\ root'.tmp = root.active
    BY <1>9 DEF CommitActive, At
  <2> DEFINE u == [t EXCEPT !.pc = "exchanged", !.actCommitted = TRUE,
                            !.actTemp = t.prev # None]
  <2>2. tx' = [tx EXCEPT ![p] = u]
    BY <1>9 DEF CommitActive
  <2>3. /\ u \in Transactions /\ u.pc = "exchanged" /\ u.prev = t.prev
        /\ u.new = t.new /\ u.actCommitted /\ (u.actTemp <=> t.prev # None)
    BY <1>0 DEF Transactions, Stages
  <2> HIDE DEF u
  <2>4. Placed(u, root', disk'.root)
    BY <1>0, <2>1, <2>3 DEF Placed, Uncommitted
  <2> QED BY <2>1, <2>2, <2>3, <2>4, HolderLedger
<1>10. CASE SyncActive(p)
  <2>1. /\ t.pc = "exchanged" /\ UNCHANGED <<ops, root, lock, observed>>
        /\ disk'.root = root
    BY <1>0, <1>10 DEF SyncActive, At
  <2> DEFINE u == [t EXCEPT !.pc = "active-committed"]
  <2>2. tx' = [tx EXCEPT ![p] = u]
    BY <1>10 DEF SyncActive, Goto
  <2>3. /\ u \in Transactions /\ u.pc = "active-committed" /\ u.prev = t.prev
        /\ u.new = t.new /\ u.actCommitted = t.actCommitted /\ u.actTemp = t.actTemp
    BY <1>0 DEF Transactions, Stages
  <2> HIDE DEF u
  <2>4. Placed(u, root', disk'.root)
    BY <1>0, <2>1, <2>3 DEF Placed, Uncommitted
  <2> QED BY <2>1, <2>2, <2>3, <2>4, HolderLedger
<1>11. CASE VerifyCommitted(p)
  <2>1. /\ t.pc = "active-committed" /\ UNCHANGED <<ops, root, disk, lock, observed>>
    BY <1>11 DEF VerifyCommitted, At
  <2> DEFINE stage == IF LoadsHistory(gens.final, tx[p].new) /\ root.active = tx[p].new
                      THEN "verified" ELSE "rollback"
             u == [t EXCEPT !.pc = stage]
  <2>2. tx' = [tx EXCEPT ![p] = u] /\ stage \in {"verified", "rollback"}
    BY <1>11 DEF VerifyCommitted, Goto
  <2> HIDE DEF stage
  <2>3. /\ u \in Transactions /\ u.pc = stage /\ u.prev = t.prev /\ u.new = t.new
        /\ u.actCommitted = t.actCommitted /\ u.actTemp = t.actTemp
    BY <1>0, <2>2 DEF Transactions, Stages, RollbackStages
  <2> HIDE DEF u
  <2>4. Placed(u, root', disk'.root)
    BY <1>0, <2>1, <2>2, <2>3 DEF Placed, Uncommitted
  <2> QED BY <2>1, <2>2, <2>3, <2>4, HolderLedger
<1>12. CASE RemovePrevious(p)
  <2>1. /\ t.pc = "verified" /\ UNCHANGED <<ops, disk, lock, observed>>
        /\ root'.active = root.active
    BY <1>0, <1>12 DEF RemovePrevious, At, RootDirectory
  <2> DEFINE u == [t EXCEPT !.pc = "closing", !.actTemp = FALSE]
  <2>2. tx' = [tx EXCEPT ![p] = u]
    BY <1>12 DEF RemovePrevious
  <2>3. /\ u \in Transactions /\ u.pc = "closing" /\ u.prev = t.prev
        /\ u.new = t.new /\ u.actCommitted = t.actCommitted /\ ~u.actTemp
    BY <1>0 DEF Transactions, Stages
  <2> HIDE DEF u
  <2>4. Placed(u, root', disk'.root)
    BY <1>0, <2>1, <2>3 DEF Placed, Uncommitted
  <2> QED BY <2>1, <2>2, <2>3, <2>4, HolderLedger
<1>13. CASE Finish(p)
  <2>1. /\ t.pc \in {"closing", "verified"} /\ disk'.root \in {disk.root, root}
        /\ observed' = t.new /\ lock' = None /\ UNCHANGED <<ops, root>>
    BY <1>0, <1>13 DEF Finish, At, Release
  <2>2. root.active = t.new /\ disk.root.active = t.new
    BY <1>0, <2>1 DEF Placed
  <2> QED BY <2>1, <2>2, EndLedger
<1> QED
  BY <1>1, <1>2, <1>3, <1>4, <1>5, <1>6, <1>7, <1>8, <1>9, <1>10, <1>11, <1>12,
     <1>13 DEF Forward

\* Rollback and failures leave one of the two records active.
LEMMA RollbackLedger ==
  ASSUME LedgerInv, TypeInv', NEW p \in Procs, lock = p, Rollback(p) \/ Fail(p)
  PROVE  LedgerInv'
<1> DEFINE t == tx[p]
<1>0. /\ t \in Transactions /\ Placed(t, root, disk.root)
      /\ root \in RootDirectory /\ TypeInv
      /\ disk \in [root : RootDirectory, gens : GenerationsDirectory]
      /\ tx \in [Procs -> Transactions]
  BY HolderFacts DEF LedgerInv, TypeInv, TypeOK
<1>1. CASE Fail(p)
  <2>1. /\ t.pc \in Stages /\ UNCHANGED <<ops, root, disk, lock, observed>>
    BY <1>1 DEF Fail, CancelPoints
  <2> DEFINE u == [t EXCEPT !.pc = "rollback"]
  <2>2. tx' = [tx EXCEPT ![p] = u]
    BY <1>1 DEF Fail, Goto
  <2>3. /\ u \in Transactions /\ u.pc = "rollback" /\ u.prev = t.prev
        /\ u.new = t.new /\ u.actCommitted = t.actCommitted /\ u.actTemp = t.actTemp
    BY <1>0 DEF Transactions, RollbackStages
  <2> HIDE DEF u
  <2>4. Placed(u, root', disk'.root)
    BY <1>0, <2>1, <2>3 DEF Placed, Uncommitted, Stages
  <2> QED BY <2>1, <2>2, <2>3, <2>4, HolderLedger
<1>2. CASE RollbackActive(p) \/ RollbackActiveFails(p)
  <2>1. /\ t.pc = "rollback" /\ UNCHANGED <<ops, disk, lock, observed>>
    BY <1>2 DEF RollbackActive, RollbackActiveFails, At
  <2> DEFINE u == [t EXCEPT !.pc = "rollback-temps"]
  <2>2. tx' = [tx EXCEPT ![p] = u]
    BY <1>2 DEF RollbackActive, RollbackActiveFails, Goto
  <2>3. u \in Transactions /\ u.pc = "rollback-temps" /\ u.prev = t.prev /\ u.new = t.new
    BY <1>0 DEF Transactions, RollbackStages
  <2> HIDE DEF u
  <2>4. root'.active \in {t.prev, t.new}
    <3>1. CASE RollbackActive(p)
      BY <1>0, <2>1, <3>1 DEF RollbackActive, Placed, RootDirectory
    <3>2. CASE RollbackActiveFails(p)
      BY <1>0, <3>2 DEF RollbackActiveFails, Placed
    <3> QED BY <1>2, <3>1, <3>2
  <2>5. Placed(u, root', disk'.root)
    BY <1>0, <2>1, <2>3, <2>4 DEF Placed, Uncommitted
  <2> QED BY <2>1, <2>2, <2>3, <2>5, HolderLedger
<1>3. CASE \/ RollbackTemporaries(p) \/ UnsealGeneration(p) \/ RemoveGeneration(p)
           \/ RemoveGenerationFails(p)
  <2>1. /\ UNCHANGED <<ops, disk, lock, observed>> /\ root'.active = root.active
        /\ \E stage \in RollbackStages \ {"rollback"} : Goto(p, stage)
    <3>1. CASE RollbackTemporaries(p)
      BY <1>0, <3>1 DEF RollbackTemporaries, RootDirectory, RollbackStages
    <3>2. CASE UnsealGeneration(p) \/ RemoveGeneration(p) \/ RemoveGenerationFails(p)
      BY <3>2 DEF UnsealGeneration, RemoveGeneration, RemoveGenerationFails,
                  RollbackStages
    <3> QED BY <1>3, <3>1, <3>2
  <2>2. PICK stage \in RollbackStages \ {"rollback"} : Goto(p, stage)
    BY <2>1
  <2> DEFINE u == [t EXCEPT !.pc = stage]
  <2>3. tx' = [tx EXCEPT ![p] = u]
    BY <2>2 DEF Goto
  <2>4. u \in Transactions /\ u.pc = stage /\ u.prev = t.prev /\ u.new = t.new
    BY <1>0 DEF Transactions
  <2> HIDE DEF u
  <2>5. Placed(u, root', disk'.root)
    BY <1>0, <2>1, <2>4 DEF Placed, Uncommitted, RollbackStages
  <2> QED BY <2>1, <2>3, <2>4, <2>5, HolderLedger
<1>4. CASE \E f \in Files : UnlinkGenerationFile(p, f)
  <2>1. UNCHANGED <<ops, root, disk, lock, tx, observed>>
    BY <1>4 DEF UnlinkGenerationFile
  <2>2. tx' = [tx EXCEPT ![p] = t]
    BY <1>0, <2>1
  <2> HIDE DEF t
  <2> QED BY <1>0, <2>1, <2>2, HolderLedger DEF t
<1>5. CASE RollbackSyncGenerations(p)
  <2>1. UNCHANGED <<ops, root, lock, observed>> /\ disk'.root = disk.root
    BY <1>0, <1>5 DEF RollbackSyncGenerations, SyncOrFail
  <2> DEFINE u == [t EXCEPT !.pc = "rollback-sync-root"]
  <2>2. tx' = [tx EXCEPT ![p] = u]
    BY <1>5 DEF RollbackSyncGenerations, Goto
  <2>3. /\ u \in Transactions /\ u.pc = "rollback-sync-root"
        /\ u.prev = t.prev /\ u.new = t.new
    BY <1>0 DEF Transactions, RollbackStages
  <2> HIDE DEF u
  <2>4. Placed(u, root', disk'.root)
    BY <1>0, <2>1, <2>3 DEF Placed, Uncommitted
  <2> QED BY <2>1, <2>2, <2>3, <2>4, HolderLedger
<1>6. CASE RollbackSyncRoot(p)
  <2>1. /\ disk'.root \in {disk.root, root} /\ lock' = None
        /\ UNCHANGED <<ops, root, observed>>
    BY <1>0, <1>6 DEF RollbackSyncRoot, SyncOrFail, Release
  <2>2. disk'.root.active \in {t.prev, t.new}
    BY <1>0, <2>1 DEF Placed
  <2> QED BY <2>1, <2>2, EndLedger
<1> QED
  BY <1>1, <1>2, <1>3, <1>4, <1>5, <1>6, Zenon DEF Rollback

\* A call starts a transaction from what is active and on the disk.
LEMMA CallLedger ==
  ASSUME LedgerInv, TypeInv', NEW p \in Procs, Call(p)
  PROVE  LedgerInv'
<1>0. /\ now \in 0..MaxTime /\ root.active \in Records \cup {None}
      /\ ops \subseteq SignedOperations /\ AuthorizedBy(ops, root.active)
  BY DEF LedgerInv, TypeInv, TypeOK, RootDirectory
<1>1. CASE \E y \in Payloads : PublishBegin(p, y)
  <2> PICK y \in Payloads : PublishBegin(p, y)
    BY <1>1
  <2>1. LegacyRecord(y, root.active, now) \in Records
    BY <1>0, LegacyRecordType
  <2>2. /\ CleanTemporaries /\ Start(p, LegacyRecord(y, root.active, now))
        /\ UNCHANGED <<ops, observed>>
    BY DEF PublishBegin
  <2>3. NotRolledBack(y, root.active) /\ (root.active # None => ~Withdrawn(root.active))
    BY DEF PublishBegin, Authenticates, CurrentStateLoads, Loads
  <2>4. Succession(root.active, LegacyRecord(y, root.active, now))
    BY <1>0, <2>3, LegacyFollows
  <2>5. AuthorizedBy(ops, LegacyRecord(y, root.active, now))
    BY LegacyAuthorized
  <2> QED BY <2>1, <2>2, <2>4, <2>5, StartLedger
<1>2. CASE \E op \in ops : ApplyPublish(p, op)
  <2> PICK op \in ops : ApplyPublish(p, op)
    BY <1>2
  <2> DEFINE n == [seq |-> op.seq, payload |-> op.payload]
  <2>1. n \in GenerationNames /\ n.seq = op.seq
    BY <1>0 DEF SignedOperations, ApplyPublish, GenerationNames
  <2>2. root.active \in Records /\ ~Withdrawn(root.active)
    BY <1>0 DEF ApplyPublish, UpdateStateLoads
  <2>3. /\ op.cur = root.active /\ SeqOf(root.active) < n.seq
        /\ op.from <= now /\ now < op.until /\ op.action = "publish"
    BY <2>1 DEF ApplyPublish, DocumentValid
  <2>4. UpdateRecord(op, root.active, now) = Extend(root.active, "update", n, now)
    BY DEF UpdateRecord
  <2> HIDE DEF n
  <2>5. /\ UpdateRecord(op, root.active, now) \in Records
        /\ Succession(root.active, UpdateRecord(op, root.active, now))
    BY <1>0, <2>1, <2>2, <2>3, <2>4, ExtendType, ExtendFollows
  <2>6. AuthorizedBy(ops, UpdateRecord(op, root.active, now))
    BY <1>0, <2>1, <2>2, <2>3, <2>4, ExtendAuthorized
  <2>7. /\ CleanTemporaries /\ Start(p, UpdateRecord(op, root.active, now))
        /\ UNCHANGED <<ops, observed>>
    BY DEF ApplyPublish
  <2> QED BY <2>5, <2>6, <2>7, StartLedger
<1>3. CASE \E op \in ops : ApplyWithdrawal(p, op)
  <2> PICK op \in ops : ApplyWithdrawal(p, op)
    BY <1>3
  <2> DEFINE n == [seq |-> op.seq, payload |-> root.active.name.payload]
  <2>1. root.active \in Records /\ ~Withdrawn(root.active)
    BY <1>0 DEF ApplyWithdrawal, UpdateStateLoads
  <2>2. root.active.name.payload \in Payloads /\ op.seq \in 1..MaxSeq
    BY <1>0, <2>1 DEF Records, GenerationNames, SignedOperations
  <2>3. n \in GenerationNames /\ n.seq = op.seq
    BY <2>2 DEF GenerationNames
  <2>4. /\ op.cur = root.active /\ SeqOf(root.active) < n.seq
        /\ op.from <= now /\ now < op.until /\ op.action = "withdraw"
    BY <2>3 DEF ApplyWithdrawal, DocumentValid
  <2>5. WithdrawalRecord(op, root.active, now) = Extend(root.active, "withdraw", n, now)
    BY DEF WithdrawalRecord
  <2> HIDE DEF n
  <2>6. /\ WithdrawalRecord(op, root.active, now) \in Records
        /\ Succession(root.active, WithdrawalRecord(op, root.active, now))
    BY <1>0, <2>1, <2>3, <2>4, <2>5, ExtendType, ExtendFollows
  <2>7. AuthorizedBy(ops, WithdrawalRecord(op, root.active, now))
    BY <1>0, <2>1, <2>3, <2>4, <2>5, ExtendAuthorized
  <2>8. /\ CleanTemporaries /\ Start(p, WithdrawalRecord(op, root.active, now))
        /\ UNCHANGED <<ops, observed>>
    BY DEF ApplyWithdrawal
  <2> QED BY <2>6, <2>7, <2>8, StartLedger
<1>4. CASE \/ \E y \in Payloads : PublishReuse(p, y)
           \/ Recover(p) \/ Activate(p) \/ RecoverWithdrawal(p) \/ CleanAndRefuse(p)
  <2>1. /\ lock = None /\ CleanTemporaries /\ UNCHANGED <<ops, lock, tx>>
        /\ observed' = observed \/ observed' = root.active
    BY <1>4 DEF PublishReuse, Recover, Activate, RecoverWithdrawal, CleanAndRefuse,
                OpenStore
  <2> QED BY <2>1, CleanLedger
<1> QED
  BY <1>1, <1>2, <1>3, <1>4 DEF Call

\* Signing, the clock, early write-back and a power loss keep the ledger.
LEMMA EnvironmentLedger ==
  ASSUME LedgerInv, TypeInv', Environment
  PROVE  LedgerInv'
<1>1. CASE Tick
  BY <1>1 DEF Tick, LedgerInv, Vouched
<1>2. CASE \E o \in Operations, s \in 1..MaxSeq, u \in 1..MaxTime + 1 :
             SignOperation(o, s, u)
  <2>1. ops \subseteq ops' /\ UNCHANGED <<now, root, gens, disk, lock, tx, observed>>
    BY <1>2 DEF SignOperation
  <2>2. AuthorizedBy(ops', root.active) /\ AuthorizedBy(ops', disk.root.active)
    BY <2>1, AuthorizedGrows DEF LedgerInv
  <2>3. lock = None
    BY <1>2 DEF SignOperation
  <2> QED BY <2>1, <2>2, <2>3, NoneAssumption DEF LedgerInv
<1>3. CASE Writeback
  <2>1. UNCHANGED <<now, ops, root, gens, lock, tx, observed>>
        /\ disk'.root \in {disk.root, root}
    BY <1>3 DEF Writeback, LedgerInv, TypeInv, TypeOK
  <2>2. ASSUME NEW p \in Procs, lock = p PROVE Placed(tx[p], root, disk'.root)
    BY <2>1, <2>2 DEF LedgerInv, Placed
  <2>3. ASSUME NEW p \in Procs, lock = p PROVE Vouched(tx[p])'
    BY <2>1, <2>3 DEF LedgerInv, Vouched
  <2> QED BY <2>1, <2>2, <2>3 DEF LedgerInv, Adjacent
<1>4. CASE PowerLoss
  <2>1. UNCHANGED <<ops, disk, observed>> /\ root' = disk.root /\ lock' = None
    BY <1>4 DEF PowerLoss
  <2> QED BY <2>1, NoneAssumption DEF LedgerInv, Adjacent
<1> QED
  BY <1>1, <1>2, <1>3, <1>4 DEF Environment

LEMMA LedgerInit == Init => LedgerInv
<1> SUFFICES ASSUME Init PROVE LedgerInv
  OBVIOUS
<1>1. /\ TypeInv /\ root.active = None /\ disk.root.active = None /\ lock = None
      /\ observed = None
  BY TypeInit DEF Init, EmptyRoot
<1> QED
  BY <1>1, NoneAssumption DEF LedgerInv, Adjacent, NotBehind, AuthorizedBy

LEMMA LedgerStep == LedgerInv /\ [Next]_vars => LedgerInv'
<1> SUFFICES ASSUME LedgerInv, [Next]_vars PROVE LedgerInv'
  OBVIOUS
<1>0. TypeInv'
  BY TypeStep DEF LedgerInv
<1>1. CASE UNCHANGED vars
  BY <1>0, <1>1 DEF vars, LedgerInv, Vouched
<1>2. ASSUME NEW p \in Procs, Call(p) PROVE LedgerInv'
  BY <1>0, <1>2, CallLedger
<1>3. ASSUME NEW p \in Procs, Forward(p) PROVE LedgerInv'
  BY <1>0, <1>3, HolderMoves, ForwardLedger
<1>4. ASSUME NEW p \in Procs, Rollback(p) \/ Fail(p) PROVE LedgerInv'
  BY <1>0, <1>4, HolderMoves, RollbackLedger
<1>5. ASSUME NEW p \in Procs, Kill(p) PROVE LedgerInv'
  <2>1. lock = p /\ lock' = None /\ UNCHANGED <<ops, root, disk, observed>>
    BY <1>5 DEF Kill, Release
  <2>2. disk'.root.active \in {tx[p].prev, tx[p].new}
    BY <2>1 DEF LedgerInv, Placed
  <2> QED BY <1>0, <2>1, <2>2, EndLedger
<1>6. CASE Environment
  BY <1>0, <1>6, EnvironmentLedger
<1> QED
  BY <1>1, <1>2, <1>3, <1>4, <1>5, <1>6 DEF Next

\* Every signed link of the active history was authorised by an operation
\* signed against exactly the history before it and applied while it was
\* valid: the trust operations of internal/ffu append to nothing else,
\* whatever fails, dies or loses power in between.
THEOREM HistoryAuthorizedHolds == Spec => []HistoryAuthorized
<1>1. LedgerInv => HistoryAuthorized
  BY DEF LedgerInv, AuthorizedBy, HistoryAuthorized
<1> QED
  BY <1>1, LedgerInit, LedgerStep, PTL DEF Spec

\* The record that a call reported, or a later one, is the active record on
\* the disk: publication, recovery and activation answer only after the fsync
\* that makes their answer survive.
THEOREM ObservedDurableHolds == Spec => []ObservedDurable
<1>1. LedgerInv => ObservedDurable
  <2> SUFFICES ASSUME LedgerInv, observed # None PROVE ObservedDurable
    BY DEF ObservedDurable
  <2>1. disk.root.active = observed \/ Register!Precedes(observed, disk.root.active)
    BY DEF LedgerInv, NotBehind
  <2> QED BY <2>1 DEF ObservedDurable, Register!Precedes, SeqOf
<1> QED
  BY <1>1, LedgerInit, LedgerStep, PTL DEF Spec

-----------------------------------------------------------------------------
(* The store implements the register of trust state *)

\* The active record moves between a record and its successor: forward is an
\* advance of the register, backward takes back what nobody was told, or
\* advances to another envelope of the same bundle.
LEMMA MoveImplements ==
  ASSUME NEW a, NEW b, Succession(a, b), NotBehind(observed, a),
         {root.active, root'.active} \subseteq {a, b}, UNCHANGED observed
  PROVE  [Register!Next]_<<root.active, observed>>
<1>1. CASE root'.active = root.active
  BY <1>1
<1>2. CASE root.active = a /\ root'.active = b
  <2>1. Register!Advance
    BY <1>2 DEF Register!Advance, Succession
  <2> QED BY <2>1 DEF Register!Next
<1>3. CASE root.active = b /\ root'.active = a /\ b # observed
  <2>1. Register!TakeBack
    BY <1>3 DEF Register!TakeBack, Succession, NotBehind
  <2> QED BY <2>1 DEF Register!Next
<1>4. CASE root.active = b /\ root'.active = a /\ b = observed /\ a # b
  <2>1. Register!Precedes(b, a) /\ b # None
    BY <1>4 DEF NotBehind, Succession
  <2>2. ~Register!Terminal(b) /\ a # None
    BY <2>1 DEF Succession, Register!Precedes
  <2>3. Register!Advance
    BY <1>4, <2>1, <2>2 DEF Register!Advance
  <2> QED BY <2>3 DEF Register!Next
<1> QED BY <1>1, <1>2, <1>3, <1>4

\* A call that succeeds reports the active record.
LEMMA ReportImplements ==
  ASSUME root'.active = root.active,
         \/ UNCHANGED observed
         \/ root.active # None /\ observed' = root.active
  PROVE  [Register!Next]_<<root.active, observed>>
  BY DEF Register!Next, Register!Report

\* Every step of the store is a step of the register or leaves it as it is.
LEMMA RegisterStep ==
  LedgerInv /\ [Next]_vars => [Register!Next]_<<root.active, observed>>
<1> SUFFICES ASSUME LedgerInv, [Next]_vars
             PROVE  [Register!Next]_<<root.active, observed>>
  OBVIOUS
<1>0. root \in RootDirectory /\ TypeInv
  BY DEF LedgerInv, TypeInv, TypeOK
<1>1. CASE UNCHANGED vars
  BY <1>1, ReportImplements DEF vars
<1>2. ASSUME NEW p \in Procs, Call(p)
      PROVE  [Register!Next]_<<root.active, observed>>
  <2>1. CleanTemporaries /\ (observed' = observed
                             \/ (root.active # None /\ observed' = root.active))
    BY <1>2 DEF Call, PublishBegin, ApplyPublish, ApplyWithdrawal, PublishReuse,
                Recover, Activate, RecoverWithdrawal, CleanAndRefuse
  <2>2. root'.active = root.active
    BY <1>0, <2>1 DEF CleanTemporaries, RootDirectory
  <2> QED BY <2>1, <2>2, ReportImplements
<1>3. ASSUME NEW p \in Procs, Forward(p)
      PROVE  [Register!Next]_<<root.active, observed>>
  <2>1. lock = p
    BY <1>3, HolderMoves
  <2>2. Vouched(tx[p]) /\ Placed(tx[p], root, disk.root)
    BY <2>1 DEF LedgerInv
  <2>3. CASE CommitActive(p)
    <3>1. /\ root.active = tx[p].prev /\ root'.active = tx[p].new
          /\ UNCHANGED observed
      BY <2>2, <2>3 DEF CommitActive, At, Placed, Uncommitted
    <3> QED BY <2>2, <3>1, MoveImplements DEF Vouched
  <2>4. CASE Finish(p)
    <3>1. /\ root.active = tx[p].new /\ UNCHANGED root /\ observed' = root.active
      BY <2>2, <2>4 DEF Finish, At, Placed
    <3>2. root.active # None
      BY <2>2, <3>1 DEF Vouched, Succession
    <3> QED BY <3>1, <3>2, ReportImplements
  <2>5. CASE StageActive(p) \/ RemovePrevious(p)
    <3>1. root'.active = root.active /\ UNCHANGED observed
      BY <1>0, <2>5 DEF StageActive, RemovePrevious, RootDirectory
    <3> QED BY <3>1, ReportImplements
  <2>6. CASE \/ UseExistingGeneration(p) \/ CreateGenerationTemporary(p)
             \/ (\E f \in Files : WriteGenerationFile(p, f)) \/ SealGeneration(p)
             \/ PublishGeneration(p) \/ SyncGenerations(p) \/ StageActiveRefused(p)
             \/ SyncActive(p) \/ VerifyCommitted(p)
    <3>1. UNCHANGED <<root, observed>>
      BY <2>6 DEF UseExistingGeneration, CreateGenerationTemporary,
                  WriteGenerationFile, SealGeneration, PublishGeneration,
                  SyncGenerations, StageActiveRefused, SyncActive, VerifyCommitted
    <3> QED BY <3>1, ReportImplements
  <2> QED BY <1>3, <2>3, <2>4, <2>5, <2>6 DEF Forward
<1>4. ASSUME NEW p \in Procs, Rollback(p) \/ Fail(p)
      PROVE  [Register!Next]_<<root.active, observed>>
  <2>1. lock = p
    BY <1>4, HolderMoves
  <2>2. Vouched(tx[p]) /\ Placed(tx[p], root, disk.root)
    BY <2>1 DEF LedgerInv
  <2>3. CASE RollbackActive(p)
    <3>1. /\ {root.active, root'.active} \subseteq {tx[p].prev, tx[p].new}
          /\ UNCHANGED observed
      BY <1>0, <2>2, <2>3 DEF RollbackActive, At, Placed, RootDirectory
    <3> QED BY <2>2, <3>1, MoveImplements DEF Vouched
  <2>4. CASE RollbackTemporaries(p)
    <3>1. root'.active = root.active /\ UNCHANGED observed
      BY <1>0, <2>4 DEF RollbackTemporaries, RootDirectory
    <3> QED BY <3>1, ReportImplements
  <2>5. CASE \/ RollbackActiveFails(p) \/ UnsealGeneration(p)
             \/ (\E f \in Files : UnlinkGenerationFile(p, f)) \/ RemoveGeneration(p)
             \/ RemoveGenerationFails(p) \/ RollbackSyncGenerations(p)
             \/ RollbackSyncRoot(p) \/ Fail(p)
    <3>1. UNCHANGED <<root, observed>>
      BY <2>5 DEF RollbackActiveFails, UnsealGeneration, UnlinkGenerationFile,
                  RemoveGeneration, RemoveGenerationFails, RollbackSyncGenerations,
                  RollbackSyncRoot, Fail
    <3> QED BY <3>1, ReportImplements
  <2> QED BY <1>4, <2>3, <2>4, <2>5 DEF Rollback
<1>5. ASSUME NEW p \in Procs, Kill(p)
      PROVE  [Register!Next]_<<root.active, observed>>
  BY <1>5, ReportImplements DEF Kill
<1>6. CASE Environment
  <2>1. CASE PowerLoss
    <3>1. root'.active = disk.root.active /\ UNCHANGED observed
      BY <2>1 DEF PowerLoss
    <3>2. /\ NotBehind(observed, root.active) /\ NotBehind(observed, disk.root.active)
          /\ Adjacent(disk.root.active, root.active)
      BY DEF LedgerInv
    <3>3. CASE disk.root.active = root.active
      BY <3>1, <3>3, ReportImplements
    <3>4. CASE Succession(disk.root.active, root.active)
      BY <3>1, <3>2, <3>4, MoveImplements
    <3>5. CASE Succession(root.active, disk.root.active)
      BY <3>1, <3>2, <3>5, MoveImplements
    <3> QED BY <3>2, <3>3, <3>4, <3>5 DEF Adjacent
  <2>2. CASE Environment /\ ~PowerLoss
    <3>1. UNCHANGED <<root, observed>>
      BY <2>2 DEF Environment, Tick, SignOperation, Writeback
    <3> QED BY <3>1, ReportImplements
  <2> QED BY <1>6, <2>1, <2>2
<1> QED
  BY <1>1, <1>2, <1>3, <1>4, <1>5, <1>6 DEF Next

\* The store implements the register of TrustRegister: seen from outside, the
\* trust state only moves forward, a withdrawn record is the last, and a
\* rollback or a power loss takes back nothing that a call reported.
THEOREM ImplementsRegister == Spec => RegisterSpec
<1>1. Init => Register!Init
  BY DEF Init, EmptyRoot, Register!Init
<1> QED
  BY <1>1, LedgerInit, LedgerStep, RegisterStep, PTL DEF Spec, RegisterSpec, Register!Spec

-----------------------------------------------------------------------------
(* A cancelled transaction is undone completely *)

\* No generation is newer than a record.
NoneNewer(final, r) ==
  \A n \in Published(final) : r # None /\ n.seq <= SeqOf(r)

\* Nor any but the one that the transaction added.
OnlyAddedNewer(final, t) ==
  \A n \in Published(final) :
    \/ t.genAdded /\ n = t.new.name
    \/ t.prev # None /\ n.seq <= SeqOf(t.prev)

\* The holder knows every temporary there is until it has removed them, and
\* the generation it added until that is gone.
Undoable(t, r, g) ==
  /\ OnlyAddedNewer(g.final, t)
  /\ t.pc \in Stages \cup {"rollback", "rollback-temps"} =>
       /\ r.tmp # None => t.actTemp
       /\ g.tmp # None => t.genTemp
  /\ t.pc \in Stages \ {"staging", "generation-synced"} => g.tmp = None
  /\ t.pc = "closing" => r.tmp = None
  /\ t.pc \in RollbackStages \ {"rollback", "rollback-temps"} =>
       r.tmp = None /\ g.tmp = None
  /\ t.pc \in {"rollback-sync", "rollback-sync-root"} => NoneNewer(g.final, t.prev)

UndoInv ==
  /\ CrashInv
  /\ LedgerInv
  /\ CancelUndone
  /\ \A p \in Procs : lock = p => Undoable(tx[p], root, gens)

\* What a step of the lock holder has to establish.
LEMMA HolderUndo ==
  ASSUME CrashInv', LedgerInv', NEW p \in Procs, lock' = p, NEW t, tx'[p] = t,
         Undoable(t, root', gens')
  PROVE  UndoInv'
  BY NoneAssumption DEF UndoInv, CancelUndone

\* What the end of a call has to establish.
LEMMA EndUndo ==
  ASSUME CrashInv', LedgerInv', lock' = None, root'.tmp = None, gens'.tmp = None,
         NoneNewer(gens'.final, root'.active)
  PROVE  UndoInv'
  BY NoneAssumption DEF UndoInv, CancelUndone, NoneNewer

\* A transaction starts from clean directories.
LEMMA StartUndo ==
  ASSUME UndoInv, CrashInv', LedgerInv', NEW p \in Procs, NEW new \in Records,
         lock = None, CleanTemporaries, Start(p, new)
  PROVE  UndoInv'
<1>0. PICK t : t = [Idle EXCEPT !.pc = "validated", !.new = new, !.prev = root.active]
  OBVIOUS
<1>1. /\ t.pc = "validated" /\ t.new = new /\ t.prev = root.active
      /\ t.genAdded = FALSE
  BY <1>0 DEF Idle
<1>2. tx' = [tx EXCEPT ![p] = t] /\ lock' = p
  BY <1>0 DEF Start
<1>3. tx'[p] = t
  BY <1>2 DEF UndoInv, LedgerInv, TypeInv, TypeOK
<1>4. /\ root'.active = root.active /\ gens'.final = gens.final
      /\ root'.tmp = None /\ gens'.tmp = None
  BY CleanedType DEF UndoInv, LedgerInv, TypeInv, TypeOK, RootDirectory,
                     GenerationsDirectory, CleanTemporaries
<1>5. NoneNewer(gens.final, root.active)
  BY DEF UndoInv, CancelUndone, NoneNewer
<1>6. Undoable(t, root', gens')
  BY <1>1, <1>4, <1>5 DEF Undoable, OnlyAddedNewer, NoneNewer, Stages, RollbackStages
<1> QED
  BY <1>2, <1>3, <1>6, HolderUndo

\* A call that only cleans finds nothing to clean.
LEMMA CleanUndo ==
  ASSUME UndoInv, CrashInv', LedgerInv', CleanTemporaries, lock = None, lock' = None
  PROVE  UndoInv'
<1>1. /\ root'.active = root.active /\ gens'.final = gens.final
      /\ root'.tmp = None /\ gens'.tmp = None
  BY CleanedType DEF UndoInv, LedgerInv, TypeInv, TypeOK, RootDirectory,
                     GenerationsDirectory, CleanTemporaries
<1>2. NoneNewer(gens.final, root.active)
  BY DEF UndoInv, CancelUndone, NoneNewer
<1> QED
  BY <1>1, <1>2, EndUndo

\* Writing a generation under one name changes what is published there only.
LEMMA PublishedElsewhere ==
  ASSUME NEW final \in [GenerationNames -> Generations \cup {None}],
         NEW n \in GenerationNames, NEW x
  PROVE  Published([final EXCEPT ![n] = x]) \subseteq Published(final) \cup {n}
  BY DEF Published

\* Removing a generation removes its name, and nothing else appears.
LEMMA PublishedWithout ==
  ASSUME NEW final \in [GenerationNames -> Generations \cup {None}],
         NEW n \in GenerationNames
  PROVE  Published([final EXCEPT ![n] = None]) \subseteq Published(final) \ {n}
  BY DEF Published

\* The stages up to success keep count of what a rollback would remove.
LEMMA ForwardUndo ==
  ASSUME UndoInv, CrashInv', LedgerInv', NEW p \in Procs, lock = p, Forward(p)
  PROVE  UndoInv'
<1> DEFINE t == tx[p]
<1>0. /\ t \in Transactions /\ Undoable(t, root, gens) /\ t.new.name \in GenerationNames
      /\ root \in RootDirectory /\ gens \in GenerationsDirectory /\ TypeInv
      /\ tx \in [Procs -> Transactions] /\ Vouched(t) /\ Placed(t, root, disk.root)
  BY HolderFacts DEF UndoInv, LedgerInv, TypeInv, TypeOK
<1>1. CASE UseExistingGeneration(p)
  <2>1. t.pc = "validated" /\ UNCHANGED <<root, gens, lock>>
    BY <1>1 DEF UseExistingGeneration, At
  <2> DEFINE stage == IF LoadsHistory(gens.final, tx[p].new)
                      THEN "generation-published" ELSE "rollback"
             u == [t EXCEPT !.pc = stage]
  <2>2. tx'[p] = u /\ stage \in {"generation-published", "rollback"}
    BY <1>0, <1>1 DEF UseExistingGeneration, Goto
  <2> HIDE DEF stage
  <2>3. /\ u.pc = stage /\ u.prev = t.prev /\ u.new = t.new
        /\ u.genAdded = t.genAdded /\ u.genTemp = t.genTemp /\ u.actTemp = t.actTemp
    BY <1>0 DEF Transactions
  <2>4. Undoable(u, root', gens')
    <3> HIDE DEF u
    <3> QED BY <1>0, <2>1, <2>2, <2>3 DEF Undoable, OnlyAddedNewer, Stages, RollbackStages
  <2> QED BY <2>1, <2>2, <2>4, HolderUndo
<1>2. CASE CreateGenerationTemporary(p)
  <2>1. /\ t.pc = "validated" /\ UNCHANGED <<root, lock>> /\ gens'.final = gens.final
    BY <1>0, <1>2 DEF CreateGenerationTemporary, At, GenerationsDirectory
  <2> DEFINE u == [t EXCEPT !.pc = "staging", !.genTemp = TRUE]
  <2>2. tx'[p] = u
    BY <1>0, <1>2 DEF CreateGenerationTemporary
  <2>3. /\ u.pc = "staging" /\ u.prev = t.prev /\ u.new = t.new
        /\ u.genAdded = t.genAdded /\ u.genTemp = TRUE /\ u.actTemp = t.actTemp
    BY <1>0 DEF Transactions
  <2>4. Undoable(u, root', gens')
    <3> HIDE DEF u
    <3> QED BY <1>0, <2>1, <2>2, <2>3 DEF Undoable, OnlyAddedNewer, Stages, RollbackStages
  <2> QED BY <2>1, <2>2, <2>4, HolderUndo
<1>3. CASE \E f \in Files : WriteGenerationFile(p, f)
  <2>1. /\ t.pc = "staging" /\ UNCHANGED <<root, lock, tx>> /\ gens'.final = gens.final
    BY <1>0, <1>3 DEF WriteGenerationFile, At, GenerationsDirectory
  <2>2. gens.tmp # None
    BY <1>0, <2>1 DEF TypeInv, TypeOK
  <2>3. Undoable(t, root', gens')
    BY <1>0, <2>1, <2>2 DEF Undoable, OnlyAddedNewer, Stages, RollbackStages
  <2> QED BY <2>1, <2>3, HolderUndo
<1>4. CASE SealGeneration(p)
  <2>1. /\ t.pc = "staging" /\ UNCHANGED <<root, lock>> /\ gens'.final = gens.final
    BY <1>0, <1>4 DEF SealGeneration, At, GenerationsDirectory
  <2>2. gens.tmp # None
    BY <1>0, <2>1 DEF TypeInv, TypeOK
  <2> DEFINE u == [t EXCEPT !.pc = "generation-synced"]
  <2>3. tx'[p] = u
    BY <1>0, <1>4 DEF SealGeneration, Goto
  <2>4. /\ u.pc = "generation-synced" /\ u.prev = t.prev /\ u.new = t.new
        /\ u.genAdded = t.genAdded /\ u.genTemp = t.genTemp /\ u.actTemp = t.actTemp
    BY <1>0 DEF Transactions
  <2>5. Undoable(u, root', gens')
    <3> HIDE DEF u
    <3> QED BY <1>0, <2>1, <2>2, <2>4 DEF Undoable, OnlyAddedNewer, Stages, RollbackStages
  <2> QED BY <2>1, <2>3, <2>5, HolderUndo
<1>5. CASE PublishGeneration(p)
  <2>1. /\ t.pc = "generation-synced" /\ UNCHANGED <<root, lock>> /\ gens'.tmp = None
        /\ gens'.final = [gens.final EXCEPT ![t.new.name] = gens.tmp]
    BY <1>5 DEF PublishGeneration, At
  <2> DEFINE u == [t EXCEPT !.pc = "generation-renamed", !.genTemp = FALSE,
                            !.genAdded = TRUE]
  <2>2. tx'[p] = u
    BY <1>0, <1>5 DEF PublishGeneration
  <2>3. /\ u.pc = "generation-renamed" /\ u.prev = t.prev /\ u.new = t.new
        /\ u.genAdded = TRUE /\ u.actTemp = t.actTemp
    BY <1>0 DEF Transactions
  <2> HIDE DEF u
  <2>4. Published(gens'.final) \subseteq Published(gens.final) \cup {t.new.name}
    BY <1>0, <2>1, PublishedElsewhere DEF GenerationsDirectory
  <2>5. OnlyAddedNewer(gens'.final, u)
    BY <1>0, <2>3, <2>4 DEF Undoable, OnlyAddedNewer
  <2>6. Undoable(u, root', gens')
    BY <1>0, <2>1, <2>3, <2>5 DEF Undoable, Stages, RollbackStages
  <2> QED BY <2>1, <2>2, <2>6, HolderUndo
<1>6. CASE SyncGenerations(p) \/ StageActiveRefused(p) \/ SyncActive(p)
           \/ VerifyCommitted(p)
  <2>1. /\ t.pc \in Stages \ {"validated", "staging", "generation-synced", "closing"}
        /\ UNCHANGED <<root, gens, lock>>
        /\ \E stage \in {"generation-published", "active-committed", "verified",
                         "rollback"} : Goto(p, stage)
    <3>1. CASE SyncGenerations(p)
      BY <3>1 DEF SyncGenerations, At, Stages
    <3>2. CASE StageActiveRefused(p)
      BY <3>2 DEF StageActiveRefused, At, Stages
    <3>3. CASE SyncActive(p)
      BY <3>3 DEF SyncActive, At, Stages
    <3>4. CASE VerifyCommitted(p)
      BY <3>4 DEF VerifyCommitted, At, Stages
    <3> QED BY <1>6, <3>1, <3>2, <3>3, <3>4
  <2>2. PICK stage \in {"generation-published", "active-committed", "verified",
                        "rollback"} : Goto(p, stage)
    BY <2>1
  <2> DEFINE u == [t EXCEPT !.pc = stage]
  <2>3. tx'[p] = u
    BY <1>0, <2>2 DEF Goto
  <2>4. /\ u.pc = stage /\ u.prev = t.prev /\ u.new = t.new
        /\ u.genAdded = t.genAdded /\ u.genTemp = t.genTemp /\ u.actTemp = t.actTemp
    BY <1>0 DEF Transactions
  <2>5. Undoable(u, root', gens')
    <3> HIDE DEF u
    <3> QED BY <1>0, <2>1, <2>4 DEF Undoable, OnlyAddedNewer, Stages, RollbackStages
  <2> QED BY <2>1, <2>3, <2>5, HolderUndo
<1>7. CASE StageActive(p)
  <2>1. t.pc = "generation-published" /\ UNCHANGED <<gens, lock>>
    BY <1>7 DEF StageActive, At
  <2> DEFINE u == [t EXCEPT !.pc = "active-staged", !.actTemp = TRUE]
  <2>2. tx'[p] = u
    BY <1>0, <1>7 DEF StageActive
  <2>3. /\ u.pc = "active-staged" /\ u.prev = t.prev /\ u.new = t.new
        /\ u.genAdded = t.genAdded /\ u.genTemp = t.genTemp /\ u.actTemp = TRUE
    BY <1>0 DEF Transactions
  <2>4. Undoable(u, root', gens')
    <3> HIDE DEF u
    <3> QED BY <1>0, <2>1, <2>3 DEF Undoable, OnlyAddedNewer, Stages, RollbackStages
  <2> QED BY <2>1, <2>2, <2>4, HolderUndo
<1>8. CASE CommitActive(p)
  <2>1. t.pc = "active-staged" /\ UNCHANGED <<gens, lock>> /\ root'.tmp = t.prev
    BY <1>0, <1>8 DEF CommitActive, At, Placed, Uncommitted
  <2> DEFINE u == [t EXCEPT !.pc = "exchanged", !.actCommitted = TRUE,
                            !.actTemp = t.prev # None]
  <2>2. tx'[p] = u
    BY <1>0, <1>8 DEF CommitActive
  <2>3. /\ u.pc = "exchanged" /\ u.prev = t.prev /\ u.new = t.new
        /\ u.genAdded = t.genAdded /\ u.genTemp = t.genTemp
        /\ (u.actTemp <=> t.prev # None)
    BY <1>0 DEF Transactions
  <2>4. Undoable(u, root', gens')
    <3> HIDE DEF u
    <3> QED BY <1>0, <2>1, <2>3 DEF Undoable, OnlyAddedNewer, Stages, RollbackStages
  <2> QED BY <2>1, <2>2, <2>4, HolderUndo
<1>9. CASE RemovePrevious(p)
  <2>1. t.pc = "verified" /\ UNCHANGED <<gens, lock>> /\ root'.tmp = None
    BY <1>0, <1>9 DEF RemovePrevious, At, RootDirectory
  <2> DEFINE u == [t EXCEPT !.pc = "closing", !.actTemp = FALSE]
  <2>2. tx'[p] = u
    BY <1>0, <1>9 DEF RemovePrevious
  <2>3. /\ u.pc = "closing" /\ u.prev = t.prev /\ u.new = t.new
        /\ u.genAdded = t.genAdded /\ u.genTemp = t.genTemp
    BY <1>0 DEF Transactions
  <2>4. Undoable(u, root', gens')
    <3> HIDE DEF u
    <3> QED BY <1>0, <2>1, <2>3 DEF Undoable, OnlyAddedNewer, Stages, RollbackStages
  <2> QED BY <2>1, <2>2, <2>4, HolderUndo
<1>10. CASE Finish(p)
  <2>1. /\ t.pc = "closing" \/ (t.pc = "verified" /\ ~t.actTemp)
        /\ lock' = None /\ UNCHANGED <<root, gens>>
    BY <1>10 DEF Finish, At, Release
  <2>2. root.tmp = None /\ gens.tmp = None
    BY <1>0, <2>1 DEF Undoable, Stages
  <2>3. root.active = t.new
    BY <1>0, <2>1 DEF Placed
  <2>4. NoneNewer(gens.final, t.new)
    <3>1. t.new # None /\ (t.prev # None => SeqOf(t.prev) <= SeqOf(t.new))
          /\ SeqOf(t.new) \in Int /\ (t.prev # None => SeqOf(t.prev) \in Int)
      <4>1. t.new \in Records /\ t.prev \in Records \cup {None}
        BY <1>0, HolderFacts
      <4>2. t.new.name \in GenerationNames /\ (t.prev # None => t.prev.name \in GenerationNames)
        BY <4>1 DEF Records
      <4>3. SeqOf(t.new) \in Int /\ (t.prev # None => SeqOf(t.prev) \in Int)
        BY <4>2, BoundsAssumption DEF GenerationNames, SeqOf
      <4>4. Register!Precedes(t.prev, t.new) /\ t.new # None
        BY <1>0 DEF Vouched, Succession
      <4> QED BY <4>3, <4>4 DEF Register!Precedes, SeqOf
    <3>2. \A n \in Published(gens.final) : n.seq \in Int
      BY BoundsAssumption DEF Published, GenerationNames
    <3>3. OnlyAddedNewer(gens.final, t)
      BY <1>0 DEF Undoable
    <3> HIDE DEF t
    <3> QED BY <3>1, <3>2, <3>3 DEF OnlyAddedNewer, NoneNewer, SeqOf
  <2> QED BY <2>1, <2>2, <2>3, <2>4, EndUndo
<1> QED
  BY <1>1, <1>2, <1>3, <1>4, <1>5, <1>6, <1>7, <1>8, <1>9, <1>10 DEF Forward

\* The rollback of a cancelled transaction removes all that it added.
LEMMA RollbackUndo ==
  ASSUME UndoInv, CrashInv', LedgerInv', Faults \subseteq {"cancel"},
         NEW p \in Procs, lock = p, Rollback(p) \/ Fail(p)
  PROVE  UndoInv'
<1> DEFINE t == tx[p]
<1>0. /\ t \in Transactions /\ Undoable(t, root, gens) /\ t.new.name \in GenerationNames
      /\ root \in RootDirectory /\ gens \in GenerationsDirectory
      /\ gens.final \in [GenerationNames -> Generations \cup {None}]
      /\ tx \in [Procs -> Transactions] /\ StageInv(t, root, gens)
      /\ "io" \notin Faults /\ "undo" \notin Faults
  BY HolderFacts DEF UndoInv, LedgerInv, TypeInv, TypeOK, CrashInv
<1>1. CASE Fail(p)
  <2>1. t.pc \in Stages /\ UNCHANGED <<root, gens, lock>>
    BY <1>1 DEF Fail, CancelPoints
  <2> DEFINE u == [t EXCEPT !.pc = "rollback"]
  <2>2. tx'[p] = u
    BY <1>0, <1>1 DEF Fail, Goto
  <2>3. /\ u.pc = "rollback" /\ u.prev = t.prev /\ u.new = t.new
        /\ u.genAdded = t.genAdded /\ u.genTemp = t.genTemp /\ u.actTemp = t.actTemp
    BY <1>0 DEF Transactions
  <2>4. Undoable(u, root', gens')
    <3> HIDE DEF u
    <3> QED BY <1>0, <2>1, <2>3 DEF Undoable, OnlyAddedNewer, Stages, RollbackStages
  <2> QED BY <2>1, <2>2, <2>4, HolderUndo
<1>2. CASE RollbackActive(p)
  <2>1. /\ t.pc = "rollback" /\ UNCHANGED <<gens, lock>>
        /\ root'.tmp # None => root.tmp # None \/ t.actTemp
    BY <1>0, <1>2 DEF RollbackActive, At, RootDirectory
  <2> DEFINE u == [t EXCEPT !.pc = "rollback-temps"]
  <2>2. tx'[p] = u
    BY <1>0, <1>2 DEF RollbackActive, Goto
  <2>3. /\ u.pc = "rollback-temps" /\ u.prev = t.prev /\ u.new = t.new
        /\ u.genAdded = t.genAdded /\ u.genTemp = t.genTemp /\ u.actTemp = t.actTemp
    BY <1>0 DEF Transactions
  <2>4. Undoable(u, root', gens')
    <3> HIDE DEF u
    <3> QED BY <1>0, <2>1, <2>3 DEF Undoable, OnlyAddedNewer, Stages, RollbackStages
  <2> QED BY <2>1, <2>2, <2>4, HolderUndo
<1>3. CASE RollbackTemporaries(p)
  <2>1. t.pc = "rollback-temps" /\ UNCHANGED lock
    BY <1>3 DEF RollbackTemporaries, At
  <2>2. root'.tmp = None /\ gens'.tmp = None /\ gens'.final = gens.final
    BY <1>0, <1>3, <2>1
       DEF RollbackTemporaries, Undoable, RootDirectory, GenerationsDirectory
  <2> DEFINE u == [t EXCEPT !.pc = IF t.genAdded THEN "rollback-unseal"
                                   ELSE "rollback-sync"]
  <2>3. tx'[p] = u
    BY <1>0, <1>3 DEF RollbackTemporaries, Goto
  <2>4. /\ u.pc = IF t.genAdded THEN "rollback-unseal" ELSE "rollback-sync"
        /\ u.prev = t.prev /\ u.new = t.new /\ u.genAdded = t.genAdded
    BY <1>0 DEF Transactions
  <2>5. Undoable(u, root', gens')
    <3> HIDE DEF u
    <3> QED BY <1>0, <2>2, <2>4
            DEF Undoable, OnlyAddedNewer, NoneNewer, Stages, RollbackStages
  <2> QED BY <2>1, <2>3, <2>5, HolderUndo
<1>4. CASE UnsealGeneration(p) \/ (\E f \in Files : UnlinkGenerationFile(p, f))
  <2>1. /\ t.pc \in {"rollback-unseal", "rollback-unlink"} /\ UNCHANGED <<root, lock>>
        /\ gens'.tmp = gens.tmp
        /\ \E x : gens'.final = [gens.final EXCEPT ![t.new.name] = x]
        /\ tx'[p] \in {t, [t EXCEPT !.pc = "rollback-unlink"]}
    <3>1. CASE UnsealGeneration(p)
      BY <1>0, <3>1 DEF UnsealGeneration, At, Goto, GenerationsDirectory
    <3>2. CASE \E f \in Files : UnlinkGenerationFile(p, f)
      BY <1>0, <3>2 DEF UnlinkGenerationFile, At, GenerationsDirectory
    <3> QED BY <1>4, <3>1, <3>2
  <2>2. PICK x : gens'.final = [gens.final EXCEPT ![t.new.name] = x]
    BY <2>1
  <2>3. Published(gens'.final) \subseteq Published(gens.final) \cup {t.new.name}
    <3>1. Published([gens.final EXCEPT ![t.new.name] = x])
            \subseteq Published(gens.final) \cup {t.new.name}
      BY <1>0, PublishedElsewhere, Zenon
    <3> QED BY <2>2, <3>1
  <2>4. t.genAdded
    BY <1>0, <2>1 DEF StageInv
  <2>5. ASSUME NEW u, u \in {t, [t EXCEPT !.pc = "rollback-unlink"]}
        PROVE  Undoable(u, root', gens')
    <3>1. /\ u.pc \in {"rollback-unseal", "rollback-unlink"}
          /\ u.prev = t.prev /\ u.new = t.new /\ u.genAdded
      BY <1>0, <2>1, <2>4, <2>5 DEF Transactions
    <3>2. OnlyAddedNewer(gens'.final, u)
      BY <1>0, <2>3, <3>1 DEF Undoable, OnlyAddedNewer
    <3> QED BY <1>0, <2>1, <3>1, <3>2 DEF Undoable, Stages, RollbackStages
  <2> QED BY <2>1, <2>5, HolderUndo
<1>5. CASE RemoveGeneration(p)
  <2>1. /\ t.pc = "rollback-unlink" /\ UNCHANGED <<root, lock>>
        /\ gens'.tmp = gens.tmp
        /\ gens'.final = [gens.final EXCEPT ![t.new.name] = None]
    BY <1>0, <1>5 DEF RemoveGeneration, At, GenerationsDirectory
  <2>2. Published(gens'.final) \subseteq Published(gens.final) \ {t.new.name}
    <3>1. /\ t.new.name \in GenerationNames
          /\ gens.final \in [GenerationNames -> Generations \cup {None}]
      BY <1>0
    <3> QED BY <2>1, <3>1, PublishedWithout
  <2> DEFINE u == [t EXCEPT !.pc = "rollback-sync"]
  <2>3. tx'[p] = u
    BY <1>0, <1>5 DEF RemoveGeneration, Goto
  <2>4. /\ u.pc = "rollback-sync" /\ u.prev = t.prev /\ u.new = t.new
    BY <1>0 DEF Transactions
  <2> HIDE DEF u
  <2>5. NoneNewer(gens'.final, u.prev) /\ OnlyAddedNewer(gens'.final, u)
    BY <1>0, <2>2, <2>4 DEF Undoable, OnlyAddedNewer, NoneNewer
  <2>6. Undoable(u, root', gens')
    BY <1>0, <2>1, <2>4, <2>5 DEF Undoable, Stages, RollbackStages
  <2> QED BY <2>1, <2>3, <2>6, HolderUndo
<1>6. CASE RollbackSyncGenerations(p)
  <2>1. t.pc = "rollback-sync" /\ UNCHANGED <<root, gens, lock>>
    BY <1>6 DEF RollbackSyncGenerations, At
  <2> DEFINE u == [t EXCEPT !.pc = "rollback-sync-root"]
  <2>2. tx'[p] = u
    BY <1>0, <1>6 DEF RollbackSyncGenerations, Goto
  <2>3. /\ u.pc = "rollback-sync-root" /\ u.prev = t.prev /\ u.new = t.new
        /\ u.genAdded = t.genAdded
    BY <1>0 DEF Transactions
  <2>4. Undoable(u, root', gens')
    <3> HIDE DEF u
    <3> QED BY <1>0, <2>1, <2>3 DEF Undoable, OnlyAddedNewer, Stages, RollbackStages
  <2> QED BY <2>1, <2>2, <2>4, HolderUndo
<1>7. CASE RollbackSyncRoot(p)
  <2>1. t.pc = "rollback-sync-root" /\ lock' = None /\ UNCHANGED <<root, gens>>
    BY <1>7 DEF RollbackSyncRoot, At, Release
  <2>2. /\ root.active = t.prev /\ root.tmp = None /\ gens.tmp = None
        /\ NoneNewer(gens.final, t.prev)
    BY <1>0, <2>1 DEF StageInv, Undoable, RollbackStages
  <2> QED BY <2>1, <2>2, EndUndo
<1>8. CASE RollbackActiveFails(p) \/ RemoveGenerationFails(p)
  BY <1>0, <1>8 DEF RollbackActiveFails, RemoveGenerationFails
<1> QED
  BY <1>1, <1>2, <1>3, <1>4, <1>5, <1>6, <1>7, <1>8, Zenon DEF Rollback

\* Calls and the environment keep it: nothing else touches the store.
LEMMA UndoStep ==
  ASSUME Faults \subseteq {"cancel"}
  PROVE  UndoInv /\ [Next]_vars => UndoInv'
<1> SUFFICES ASSUME UndoInv, [Next]_vars PROVE UndoInv'
  OBVIOUS
<1>0. CrashInv' /\ LedgerInv'
  BY CrashStep, LedgerStep DEF UndoInv
<1>1. CASE UNCHANGED vars
  BY <1>0, <1>1 DEF vars, UndoInv, CancelUndone
<1>2. ASSUME NEW p \in Procs, Call(p) PROVE UndoInv'
  <2>0. /\ now \in 0..MaxTime /\ root.active \in Records \cup {None}
        /\ ops \subseteq SignedOperations
    BY DEF UndoInv, LedgerInv, TypeInv, TypeOK, RootDirectory
  <2>1. CASE \E y \in Payloads : PublishBegin(p, y)
    <3> PICK y \in Payloads : PublishBegin(p, y)
      BY <2>1
    <3>1. /\ lock = None /\ CleanTemporaries
          /\ Start(p, LegacyRecord(y, root.active, now))
      BY DEF PublishBegin, OpenStore
    <3>2. LegacyRecord(y, root.active, now) \in Records
      BY <2>0, LegacyRecordType
    <3> QED BY <1>0, <3>1, <3>2, StartUndo
  <2>2. CASE \E op \in ops : ApplyPublish(p, op)
    <3> PICK op \in ops : ApplyPublish(p, op)
      BY <2>2
    <3>1. [seq |-> op.seq, payload |-> op.payload] \in GenerationNames
      BY <2>0 DEF SignedOperations, ApplyPublish, GenerationNames
    <3>2. root.active \in Records
      BY <2>0 DEF ApplyPublish, UpdateStateLoads
    <3>3. UpdateRecord(op, root.active, now) \in Records
      BY <2>0, <3>1, <3>2, ExtendType DEF UpdateRecord
    <3>4. /\ lock = None /\ CleanTemporaries
          /\ Start(p, UpdateRecord(op, root.active, now))
      BY DEF ApplyPublish, OpenStore
    <3> QED BY <1>0, <3>3, <3>4, StartUndo
  <2>3. CASE \E op \in ops : ApplyWithdrawal(p, op)
    <3> PICK op \in ops : ApplyWithdrawal(p, op)
      BY <2>3
    <3>1. root.active \in Records
      BY <2>0 DEF ApplyWithdrawal, UpdateStateLoads
    <3>2. root.active.name.payload \in Payloads /\ op.seq \in 1..MaxSeq
      BY <2>0, <3>1 DEF Records, GenerationNames, SignedOperations
    <3>3. [seq |-> op.seq, payload |-> root.active.name.payload] \in GenerationNames
      BY <3>2 DEF GenerationNames
    <3>4. WithdrawalRecord(op, root.active, now) \in Records
      BY <2>0, <3>1, <3>3, ExtendType DEF WithdrawalRecord
    <3>5. /\ lock = None /\ CleanTemporaries
          /\ Start(p, WithdrawalRecord(op, root.active, now))
      BY DEF ApplyWithdrawal, OpenStore
    <3> QED BY <1>0, <3>4, <3>5, StartUndo
  <2>4. CASE \/ \E y \in Payloads : PublishReuse(p, y)
             \/ Recover(p) \/ Activate(p) \/ RecoverWithdrawal(p) \/ CleanAndRefuse(p)
    <3>1. lock = None /\ lock' = None /\ CleanTemporaries
      BY <2>4 DEF PublishReuse, Recover, Activate, RecoverWithdrawal, CleanAndRefuse,
                  OpenStore
    <3> QED BY <1>0, <3>1, CleanUndo
  <2> QED BY <1>2, <2>1, <2>2, <2>3, <2>4 DEF Call
<1>3. ASSUME NEW p \in Procs, Forward(p) PROVE UndoInv'
  BY <1>0, <1>3, HolderMoves, ForwardUndo
<1>4. ASSUME NEW p \in Procs, Rollback(p) \/ Fail(p) PROVE UndoInv'
  BY <1>0, <1>4, HolderMoves, RollbackUndo
<1>5. ASSUME NEW p \in Procs, Kill(p) PROVE UndoInv'
  BY <1>5 DEF Kill
<1>6. CASE Environment
  <2>1. UNCHANGED <<root, gens, lock, tx>>
    BY <1>6 DEF Environment, Tick, SignOperation, Writeback, PowerLoss
  <2> QED BY <1>0, <2>1 DEF UndoInv, CancelUndone
<1> QED
  BY <1>1, <1>2, <1>3, <1>4, <1>5, <1>6 DEF Next

\* When calls are only ever cancelled, whatever the stage, the end of a call
\* leaves no temporary and no generation newer than the active record:
\* rollbackTrustStoreTransaction forgets nothing its transaction added.
THEOREM CancelUndoneHolds ==
  ASSUME Faults \subseteq {"cancel"}
  PROVE  Spec => []CancelUndone
<1>1. Init => UndoInv
  <2> SUFFICES ASSUME Init PROVE UndoInv
    OBVIOUS
  <2>1. LedgerInv /\ lock = None /\ root = EmptyRoot /\ gens = EmptyGenerations
    BY LedgerInit DEF Init
  <2>2. CrashInv
    BY <2>1, NoneAssumption DEF LedgerInv, CrashInv, ActiveIntact, EmptyRoot
  <2>3. CancelUndone
    BY <2>1 DEF CancelUndone, EmptyRoot, EmptyGenerations, Published
  <2> QED BY <2>1, <2>2, <2>3, NoneAssumption DEF UndoInv
<1>2. UndoInv /\ [Next]_vars => UndoInv'
  BY UndoStep
<1>3. UndoInv => CancelUndone
  BY DEF UndoInv
<1> QED
  BY <1>1, <1>2, <1>3, PTL DEF Spec

-----------------------------------------------------------------------------
(* The active record stays intact when processes die and power is lost *)

Holds(final, r) == r # None => Intact(final, r)

\* Behind the processes' view of the store there is the one on the disk: what
\* the kernel may have written back of either directory has to fit either
\* view of the other.
Sound(t, g, d) ==
  /\ \A i \in 1..Len(t.new.ev) : LinkReproduces(t.new.ev, i)
  /\ Holds(g.final, t.prev) /\ Holds(d.gens.final, t.prev)
  /\ t.pc = "validated" => d.gens.final = g.final
  /\ t.pc \in {"generation-published", "active-staged", "exchanged",
               "active-committed", "verified", "closing"} =>
       Intact(g.final, t.new) /\ Intact(d.gens.final, t.new)
  /\ t.pc \in Uncommitted \cup RollbackStages =>
       d.root.active = t.prev /\ ~t.actCommitted

PowerInv ==
  /\ CrashInv
  /\ LedgerInv
  /\ IsFiniteSet(ops) /\ Cardinality(ops) <= MaxOps
  /\ Holds(gens.final, disk.root.active)
  /\ Holds(disk.gens.final, root.active)
  /\ Holds(disk.gens.final, disk.root.active)
  /\ \A p \in Procs : lock = p => Sound(tx[p], gens, disk)

\* An unsigned publication can be reproduced from its evidence.
LEMMA LegacyLinks ==
  ASSUME NEW y, NEW prev, NEW t, Authenticates(y, y.policy, prev, t)
  PROVE  \A i \in 1..Len(LegacyRecord(y, prev, t).ev) :
           LinkReproduces(LegacyRecord(y, prev, t).ev, i)
<1> DEFINE n == [seq |-> y.seq, payload |-> y]
           back == IF prev = None THEN None
                   ELSE [seq |-> SeqOf(prev), bundle |-> prev.name.payload.bundle]
           l == [kind |-> "legacy", name |-> n, at |-> t, prev |-> back]
<1>1. LegacyRecord(y, prev, t).ev = <<l>>
  BY DEF LegacyRecord
<1>2. /\ l.kind = "legacy" /\ l.name = n /\ l.at = t /\ l.prev = back
      /\ n.seq = y.seq /\ n.payload = y
  OBVIOUS
<1>3. LegacyReproduces(l)
  <2>1. ValidAt(y, y.policy, t) /\ NotRolledBack(y, prev)
    BY DEF Authenticates
  <2>2. back # None => \/ back.seq < y.seq
                       \/ back.seq = y.seq /\ back.bundle = y.bundle
    BY <2>1 DEF NotRolledBack
  <2> HIDE DEF back, l, n
  <2> QED BY <1>2, <2>1, <2>2 DEF LegacyReproduces
<1> HIDE DEF l
<1> QED
  BY <1>1, <1>2, <1>3 DEF LinkReproduces

\* So can a signed operation on a history that can be reproduced.
LEMMA ExtendLinks ==
  ASSUME NEW prev \in Records, NEW kind \in {"update", "withdraw"},
         NEW n \in GenerationNames, NEW t \in 0..MaxTime,
         \A i \in 1..Len(prev.ev) : LinkReproduces(prev.ev, i),
         LET l == [kind |-> kind, name |-> n, at |-> t, prev |-> None]
         IN \/ kind = "update" /\ UpdateReproduces(LastLink(prev), l)
            \/ kind = "withdraw" /\ WithdrawalReproduces(LastLink(prev), l)
  PROVE  \A i \in 1..Len(Extend(prev, kind, n, t).ev) :
           LinkReproduces(Extend(prev, kind, n, t).ev, i)
<1> DEFINE l == [kind |-> kind, name |-> n, at |-> t, prev |-> None]
           e == Extend(prev, kind, n, t).ev
<1>1. l \in Links /\ l.kind = kind
  BY DEF Links
<1>2. prev.ev \in Seq(Links) /\ prev.ev # <<>>
  BY DEF Records
<1>3. e = Append(prev.ev, l)
  BY DEF Extend
<1>4. \/ kind = "update" /\ UpdateReproduces(LastLink(prev), l)
      \/ kind = "withdraw" /\ WithdrawalReproduces(LastLink(prev), l)
  OBVIOUS
<1> HIDE DEF l, e
<1>5. Len(e) = Len(prev.ev) + 1 /\ Len(prev.ev) \in Nat \ {0} /\ e[Len(e)] = l
      /\ \A i \in 1..Len(prev.ev) : e[i] = prev.ev[i]
  BY <1>1, <1>2, <1>3
<1>6. ASSUME NEW i \in 1..Len(e) PROVE LinkReproduces(e, i)
  <2>1. CASE i = Len(e)
    <3>1. i > 1 /\ e[i] = l /\ e[i - 1] = LastLink(prev)
      BY <1>5, <2>1 DEF LastLink
    <3> QED BY <1>1, <1>4, <3>1 DEF LinkReproduces
  <2>2. CASE i # Len(e)
    <3>1. i \in 1..Len(prev.ev) /\ e[i] = prev.ev[i]
          /\ (i > 1 => e[i - 1] = prev.ev[i - 1])
      BY <1>5, <2>2
    <3> QED BY <3>1 DEF LinkReproduces
  <2> QED BY <2>1, <2>2
<1> QED BY <1>6 DEF e

\* Each signed link of a history took an operation of its own.
LEMMA HistoryBounded ==
  ASSUME NEW signed, IsFiniteSet(signed), NEW r \in Records, AuthorizedBy(signed, r)
  PROVE  Len(r.ev) <= Cardinality(signed) + 1
<1> DEFINE f == [i \in 2..Len(r.ev) |->
                   CHOOSE op \in signed : op.cur.ev = SubSeq(r.ev, 1, i - 1)]
<1>1. r.ev \in Seq(Links) /\ r # None /\ Len(r.ev) \in Nat
  BY NoneAssumption DEF Records
<1>2. ASSUME NEW i \in 2..Len(r.ev)
      PROVE  f[i] \in signed /\ f[i].cur.ev = SubSeq(r.ev, 1, i - 1)
  <2>1. \E op \in signed : op.cur.ev = SubSeq(r.ev, 1, i - 1)
    BY <1>1, <1>2 DEF AuthorizedBy
  <2> QED BY <2>1
<1>3. ASSUME NEW i \in 2..Len(r.ev), NEW j \in 2..Len(r.ev), f[i] = f[j]
      PROVE  i = j
  <2>1. SubSeq(r.ev, 1, i - 1) = SubSeq(r.ev, 1, j - 1)
    BY <1>2, <1>3
  <2>2. Len(SubSeq(r.ev, 1, i - 1)) = i - 1 /\ Len(SubSeq(r.ev, 1, j - 1)) = j - 1
    BY <1>1
  <2> QED BY <2>1, <2>2
<1> HIDE DEF f
<1>4. f \in [2..Len(r.ev) -> signed]
  BY <1>2 DEF f
<1>5. f \in Injection(2..Len(r.ev), signed)
  BY <1>3, <1>4 DEF Injection, IsInjective
<1>6. Cardinality(2..Len(r.ev)) <= Cardinality(signed)
  BY <1>5, FS_Injection
<1>7. Cardinality(2..Len(r.ev)) = IF 2 > Len(r.ev) THEN 0 ELSE Len(r.ev) - 2 + 1
  BY <1>1, FS_Interval
<1>8. Cardinality(signed) \in Nat
  BY FS_CardinalityType
<1> QED BY <1>1, <1>6, <1>7, <1>8

\* Where the holder's two records are, they are intact.
LEMMA HolderPower ==
  ASSUME PowerInv, CrashInv', LedgerInv', NEW p \in Procs, lock' = p, UNCHANGED ops,
         NEW t \in Transactions, tx'[p] = t, Sound(t, gens', disk')
  PROVE  PowerInv'
<1>1. /\ StageInv(t, root', gens') /\ Placed(t, root', disk'.root)
  BY DEF CrashInv, LedgerInv
<1>2. t.pc \in Stages \cup RollbackStages
  BY DEF LedgerInv, TypeInv, TypeOK, Transactions
<1>3. CASE t.pc \in Uncommitted \cup RollbackStages
  <2>1. root'.active = t.prev /\ disk'.root.active = t.prev
    BY <1>1, <1>3 DEF Placed, StageInv, Sound, Uncommitted, RollbackStages, Committed
  <2> QED BY <2>1 DEF PowerInv, Sound
<1>4. CASE t.pc \notin Uncommitted \cup RollbackStages
  <2>1. t.pc \in {"exchanged", "active-committed", "verified", "closing"}
    BY <1>2, <1>4 DEF Uncommitted, Stages
  <2>2. /\ root'.active \in {t.prev, t.new} /\ disk'.root.active \in {t.prev, t.new}
        /\ Holds(gens'.final, t.new) /\ Holds(disk'.gens.final, t.new)
        /\ Holds(gens'.final, t.prev) /\ Holds(disk'.gens.final, t.prev)
    BY <1>1, <2>1 DEF Placed, Sound, Holds
  <2> QED BY <2>2 DEF PowerInv
<1> QED BY <1>3, <1>4

\* The end of a call, or the death of its process, changes no directory but
\* may find the root synced.
LEMMA EndPower ==
  ASSUME PowerInv, CrashInv', LedgerInv', lock' = None, UNCHANGED <<ops, root, gens>>,
         disk'.gens = disk.gens, disk'.root \in {disk.root, root}
  PROVE  PowerInv'
  BY NoneAssumption DEF PowerInv, CrashInv, ActiveIntact, Holds

\* A transaction starts with both directories on the disk as processes see
\* them.
LEMMA StartPower ==
  ASSUME PowerInv, CrashInv', LedgerInv', NEW p \in Procs, NEW new \in Records,
         CleanTemporaries, Start(p, new), UNCHANGED ops,
         \A i \in 1..Len(new.ev) : LinkReproduces(new.ev, i)
  PROVE  PowerInv'
<1>0. PICK t : t = [Idle EXCEPT !.pc = "validated", !.new = new, !.prev = root.active]
  OBVIOUS
<1>1. /\ t.pc = "validated" /\ t.new = new /\ t.prev = root.active
      /\ ~t.actCommitted
  BY <1>0 DEF Idle
<1>2. tx' = [tx EXCEPT ![p] = t] /\ lock' = p
  BY <1>0 DEF Start
<1>3. tx'[p] = t /\ t \in Transactions
  <2>1. tx'[p] = t
    BY <1>2 DEF PowerInv, LedgerInv, TypeInv, TypeOK
  <2>2. tx'[p] \in Transactions
    BY DEF LedgerInv, TypeInv, TypeOK
  <2> QED BY <2>1, <2>2
<1>4. /\ root'.active = root.active /\ gens'.final = gens.final
      /\ disk'.root = root' /\ disk'.gens = gens'
  BY CleanedType DEF PowerInv, LedgerInv, CleanTemporaries
<1>5. Holds(gens.final, root.active)
  BY DEF PowerInv, CrashInv, ActiveIntact, Holds
<1>6. Sound(t, gens', disk')
  BY <1>1, <1>4, <1>5 DEF Sound
<1> QED
  BY <1>2, <1>3, <1>6, HolderPower

\* A call that only cleans leaves the disk as processes see the store.
LEMMA CleanPower ==
  ASSUME PowerInv, CrashInv', LedgerInv', CleanTemporaries, lock' = None, UNCHANGED ops
  PROVE  PowerInv'
<1>1. /\ root'.active = root.active /\ gens'.final = gens.final
      /\ disk'.root = root' /\ disk'.gens = gens'
  BY CleanedType DEF PowerInv, LedgerInv, CleanTemporaries
<1> QED
  BY <1>1, NoneAssumption DEF PowerInv, CrashInv, ActiveIntact, Holds

\* The stages up to success keep both views of the store sound.  The load that
\* verifies a commit cannot fail: the history is intact and reproducible, and
\* shorter than the limit on generations.
LEMMA ForwardPower ==
  ASSUME PowerInv, CrashInv', LedgerInv', MaxOps < MaxGenerations,
         NEW p \in Procs, lock = p, Forward(p)
  PROVE  PowerInv'
<1> DEFINE t == tx[p]
<1>0. /\ t \in Transactions /\ Sound(t, gens, disk) /\ Vouched(t)
      /\ Placed(t, root, disk.root) /\ StageInv(t, root, gens)
      /\ gens \in GenerationsDirectory /\ tx \in [Procs -> Transactions]
      /\ disk \in [root : RootDirectory, gens : GenerationsDirectory]
      /\ t.new \in Records /\ tx'[p] \in Transactions
  BY HolderFacts DEF PowerInv, CrashInv, LedgerInv, TypeInv, TypeOK
<1>1. CASE UseExistingGeneration(p)
  <2>1. t.pc = "validated" /\ UNCHANGED <<ops, gens, disk, lock>>
    BY <1>1 DEF UseExistingGeneration, At
  <2> DEFINE stage == IF LoadsHistory(gens.final, tx[p].new)
                      THEN "generation-published" ELSE "rollback"
             u == [t EXCEPT !.pc = stage]
  <2>2. /\ tx'[p] = u /\ stage \in {"generation-published", "rollback"}
        /\ stage = "generation-published" => Intact(gens.final, t.new)
    BY <1>0, <1>1 DEF UseExistingGeneration, Goto, LoadsHistory
  <2> HIDE DEF stage
  <2>3. /\ u.pc = stage /\ u.prev = t.prev /\ u.new = t.new
        /\ u.actCommitted = t.actCommitted /\ u \in Transactions
    BY <1>0, <2>2 DEF Transactions
  <2>4. Sound(u, gens', disk')
    <3> HIDE DEF u
    <3> QED BY <1>0, <2>1, <2>2, <2>3 DEF Sound, Uncommitted, RollbackStages
  <2> QED BY <2>1, <2>2, <2>3, <2>4, HolderPower
<1>2. CASE CreateGenerationTemporary(p) \/ SealGeneration(p)
  <2>1. /\ t.pc \in {"validated", "staging"} /\ UNCHANGED <<ops, disk, lock>>
        /\ gens'.final = gens.final
    BY <1>0, <1>2 DEF CreateGenerationTemporary, SealGeneration, At, GenerationsDirectory
  <2>2. /\ tx'[p].pc \in {"staging", "generation-synced"}
        /\ tx'[p].prev = t.prev /\ tx'[p].new = t.new
        /\ tx'[p].actCommitted = t.actCommitted
    <3>1. \/ tx'[p] = [t EXCEPT !.pc = "staging", !.genTemp = TRUE]
          \/ tx'[p] = [t EXCEPT !.pc = "generation-synced"]
      BY <1>0, <1>2 DEF CreateGenerationTemporary, SealGeneration, Goto
    <3> QED BY <1>0, <3>1 DEF Transactions
  <2>3. PICK u : u = tx'[p]
    OBVIOUS
  <2>4. Sound(u, gens', disk')
    BY <1>0, <2>1, <2>2, <2>3 DEF Sound, Uncommitted, RollbackStages
  <2> QED BY <1>0, <2>1, <2>3, <2>4, HolderPower
<1>3. CASE \E f \in Files : WriteGenerationFile(p, f)
  <2>1. /\ t.pc = "staging" /\ UNCHANGED <<ops, disk, lock, tx>>
        /\ gens'.final = gens.final
    BY <1>0, <1>3 DEF WriteGenerationFile, At, GenerationsDirectory
  <2>2. Sound(t, gens', disk')
    BY <1>0, <2>1 DEF Sound, Uncommitted, RollbackStages
  <2> QED BY <1>0, <2>1, <2>2, HolderPower
<1>4. CASE PublishGeneration(p)
  <2>1. t.pc = "generation-synced" /\ UNCHANGED <<ops, root, disk, lock>>
    BY <1>4 DEF PublishGeneration, At
  <2> DEFINE u == [t EXCEPT !.pc = "generation-renamed", !.genTemp = FALSE,
                            !.genAdded = TRUE]
  <2>2. tx'[p] = u
    BY <1>0, <1>4 DEF PublishGeneration
  <2>3. /\ u.pc = "generation-renamed" /\ u.prev = t.prev /\ u.new = t.new
        /\ u.actCommitted = t.actCommitted
    BY <1>0 DEF Transactions
  <2>4. Holds(gens'.final, t.prev)
    <3>1. root.active = t.prev
      BY <1>0, <2>1 DEF StageInv
    <3> QED BY <2>1, <3>1 DEF CrashInv, ActiveIntact, Holds
  <2>5. Sound(u, gens', disk')
    <3> HIDE DEF u
    <3> QED BY <1>0, <2>1, <2>3, <2>4 DEF Sound, Uncommitted, RollbackStages
  <2> QED BY <1>0, <2>1, <2>2, <2>5, HolderPower
<1>5. CASE SyncGenerations(p)
  <2>1. /\ t.pc = "generation-renamed" /\ UNCHANGED <<ops, gens, lock>>
        /\ disk'.gens = gens /\ disk'.root = disk.root
    BY <1>0, <1>5 DEF SyncGenerations, At
  <2> DEFINE u == [t EXCEPT !.pc = "generation-published"]
  <2>2. tx'[p] = u
    BY <1>0, <1>5 DEF SyncGenerations, Goto
  <2>3. /\ u.pc = "generation-published" /\ u.prev = t.prev /\ u.new = t.new
        /\ u.actCommitted = t.actCommitted
    BY <1>0 DEF Transactions
  <2>4. Intact(gens.final, t.new)
    BY <1>0, <2>1 DEF StageInv
  <2>5. Sound(u, gens', disk')
    <3> HIDE DEF u
    <3> QED BY <1>0, <2>1, <2>3, <2>4 DEF Sound, Uncommitted, RollbackStages
  <2> QED BY <1>0, <2>1, <2>2, <2>5, HolderPower
<1>6. CASE StageActive(p) \/ StageActiveRefused(p) \/ CommitActive(p) \/ RemovePrevious(p)
  <2>1. /\ t.pc \in {"generation-published", "active-staged", "verified"}
        /\ UNCHANGED <<ops, gens, disk, lock>>
    BY <1>6 DEF StageActive, StageActiveRefused, CommitActive, RemovePrevious, At
  <2>2. /\ tx'[p].prev = t.prev /\ tx'[p].new = t.new
        /\ \/ /\ tx'[p].pc \in {"active-staged", "rollback"}
              /\ t.pc = "generation-published"
              /\ tx'[p].actCommitted = t.actCommitted
           \/ tx'[p].pc \in {"exchanged", "closing"}
    <3>1. CASE StageActive(p)
      <4>1. tx'[p] = [t EXCEPT !.pc = "active-staged", !.actTemp = TRUE]
        BY <1>0, <3>1 DEF StageActive
      <4> QED BY <1>0, <3>1, <4>1 DEF StageActive, At, Transactions
    <3>2. CASE StageActiveRefused(p)
      <4>1. tx'[p] = [t EXCEPT !.pc = "rollback"]
        BY <1>0, <3>2 DEF StageActiveRefused, Goto
      <4> QED BY <1>0, <3>2, <4>1 DEF StageActiveRefused, At, Transactions
    <3>3. CASE CommitActive(p)
      <4>1. tx'[p] = [t EXCEPT !.pc = "exchanged", !.actCommitted = TRUE,
                               !.actTemp = t.prev # None]
        BY <1>0, <3>3 DEF CommitActive
      <4> QED BY <1>0, <4>1 DEF Transactions
    <3>4. CASE RemovePrevious(p)
      <4>1. tx'[p] = [t EXCEPT !.pc = "closing", !.actTemp = FALSE]
        BY <1>0, <3>4 DEF RemovePrevious
      <4> QED BY <1>0, <4>1 DEF Transactions
    <3> QED BY <1>6, <3>1, <3>2, <3>3, <3>4
  <2>3. PICK u : u = tx'[p]
    OBVIOUS
  <2>4. Sound(u, gens', disk')
    BY <1>0, <2>1, <2>2, <2>3 DEF Sound, Uncommitted, RollbackStages
  <2> QED BY <1>0, <2>1, <2>3, <2>4, HolderPower
<1>7. CASE SyncActive(p)
  <2>1. /\ t.pc = "exchanged" /\ UNCHANGED <<ops, gens, lock>>
        /\ disk'.gens = disk.gens
    BY <1>0, <1>7 DEF SyncActive, At
  <2> DEFINE u == [t EXCEPT !.pc = "active-committed"]
  <2>2. tx'[p] = u
    BY <1>0, <1>7 DEF SyncActive, Goto
  <2>3. u.pc = "active-committed" /\ u.prev = t.prev /\ u.new = t.new
    BY <1>0 DEF Transactions
  <2>4. Sound(u, gens', disk')
    <3> HIDE DEF u
    <3> QED BY <1>0, <2>1, <2>3 DEF Sound, Uncommitted, RollbackStages
  <2> QED BY <1>0, <2>1, <2>2, <2>4, HolderPower
<1>8. CASE VerifyCommitted(p)
  <2>1. t.pc = "active-committed" /\ UNCHANGED <<ops, gens, disk, lock>>
    BY <1>8 DEF VerifyCommitted, At
  <2>2. Len(t.new.ev) <= MaxGenerations
    <3>1. Len(t.new.ev) <= Cardinality(ops) + 1
      BY <1>0, HistoryBounded DEF PowerInv, Vouched
    <3>2. Cardinality(ops) \in Nat /\ Cardinality(ops) <= MaxOps
      BY FS_CardinalityType DEF PowerInv
    <3>3. Len(t.new.ev) \in Nat
      BY <1>0 DEF Records
    <3> QED BY <3>1, <3>2, <3>3, BoundsAssumption
  <2>3. LoadsHistory(gens.final, t.new)
    BY <1>0, <2>1, <2>2 DEF LoadsHistory, Sound
  <2>4. root.active = t.new
    BY <1>0, <2>1 DEF Placed
  <2> DEFINE u == [t EXCEPT !.pc = "verified"]
  <2>5. tx'[p] = u
    BY <1>0, <1>8, <2>3, <2>4 DEF VerifyCommitted, Goto
  <2>6. u.pc = "verified" /\ u.prev = t.prev /\ u.new = t.new
    BY <1>0 DEF Transactions
  <2>7. Sound(u, gens', disk')
    <3> HIDE DEF u
    <3> QED BY <1>0, <2>1, <2>6 DEF Sound, Uncommitted, RollbackStages
  <2> QED BY <1>0, <2>1, <2>5, <2>7, HolderPower
<1>9. CASE Finish(p)
  <2>1. /\ lock' = None /\ UNCHANGED <<ops, root, gens>>
        /\ disk'.gens = disk.gens /\ disk'.root \in {disk.root, root}
    BY <1>0, <1>9 DEF Finish, Release
  <2> QED BY <2>1, EndPower
<1> QED
  BY <1>1, <1>2, <1>3, <1>4, <1>5, <1>6, <1>7, <1>8, <1>9 DEF Forward

\* A rollback only ever runs before the commit, and removes a generation that
\* neither view of the root can name.
LEMMA RollbackPower ==
  ASSUME PowerInv, CrashInv', LedgerInv', "io" \notin Faults, "undo" \notin Faults,
         NEW p \in Procs, lock = p, Rollback(p)
  PROVE  PowerInv'
<1> DEFINE t == tx[p]
<1>0. /\ t \in Transactions /\ Sound(t, gens, disk)
      /\ Placed(t, root, disk.root) /\ StageInv(t, root, gens)
      /\ gens \in GenerationsDirectory /\ tx \in [Procs -> Transactions]
      /\ disk \in [root : RootDirectory, gens : GenerationsDirectory]
      /\ tx'[p] \in Transactions
  BY HolderFacts DEF PowerInv, CrashInv, LedgerInv, TypeInv, TypeOK
<1>1. CASE \/ RollbackActive(p) \/ RollbackTemporaries(p) \/ RemoveGeneration(p)
           \/ UnsealGeneration(p) \/ (\E f \in Files : UnlinkGenerationFile(p, f))
           \/ RollbackSyncGenerations(p)
  <2>1. /\ t.pc \in RollbackStages /\ UNCHANGED <<ops, lock>>
        /\ disk'.root = disk.root /\ disk'.gens \in {disk.gens, gens}
    <3>1. CASE RollbackActive(p) \/ RollbackTemporaries(p)
      BY <1>0, <3>1 DEF RollbackActive, RollbackTemporaries, At, RollbackStages
    <3>2. CASE \/ RemoveGeneration(p) \/ UnsealGeneration(p)
               \/ (\E f \in Files : UnlinkGenerationFile(p, f))
      BY <1>0, <3>2 DEF RemoveGeneration, UnsealGeneration, UnlinkGenerationFile, At,
                        RollbackStages
    <3>3. CASE RollbackSyncGenerations(p)
      BY <1>0, <3>3 DEF RollbackSyncGenerations, SyncOrFail, At, RollbackStages
    <3> QED BY <1>1, <3>1, <3>2, <3>3
  <2>2. /\ tx'[p].pc \in RollbackStages /\ tx'[p].prev = t.prev /\ tx'[p].new = t.new
        /\ tx'[p].actCommitted = t.actCommitted
    <3>1. UNCHANGED tx \/ \E stage \in RollbackStages : Goto(p, stage)
      <4>1. CASE RollbackActive(p) \/ RollbackTemporaries(p)
        BY <4>1 DEF RollbackActive, RollbackTemporaries, RollbackStages
      <4>2. CASE RemoveGeneration(p) \/ UnsealGeneration(p)
        BY <4>2 DEF RemoveGeneration, UnsealGeneration, RollbackStages
      <4>3. CASE \E f \in Files : UnlinkGenerationFile(p, f)
        BY <4>3 DEF UnlinkGenerationFile
      <4>4. CASE RollbackSyncGenerations(p)
        BY <4>4 DEF RollbackSyncGenerations, RollbackStages
      <4> QED BY <1>1, <4>1, <4>2, <4>3, <4>4
    <3>2. tx'[p] = t \/ \E stage \in RollbackStages : tx'[p] = [t EXCEPT !.pc = stage]
      BY <1>0, <3>1 DEF Goto
    <3> QED BY <1>0, <2>1, <3>2 DEF Transactions
  <2>3. PICK u : u = tx'[p]
    OBVIOUS
  <2>4. /\ StageInv(u, root', gens')
        /\ ActiveIntact'
    BY <2>1, <2>3 DEF CrashInv
  <2>5. root'.active = t.prev
    BY <1>0, <2>1, <2>2, <2>3, <2>4
       DEF StageInv, RollbackStages, Committed, Sound
  <2>6. Holds(gens'.final, t.prev)
    BY <2>4, <2>5 DEF ActiveIntact, Holds
  <2>7. Sound(u, gens', disk')
    BY <1>0, <2>1, <2>2, <2>3, <2>6 DEF Sound, Uncommitted, RollbackStages
  <2> QED BY <1>0, <2>1, <2>3, <2>7, HolderPower
<1>2. CASE RollbackSyncRoot(p)
  <2>1. /\ lock' = None /\ UNCHANGED <<ops, root, gens>>
        /\ disk'.gens = disk.gens /\ disk'.root \in {disk.root, root}
    BY <1>0, <1>2 DEF RollbackSyncRoot, SyncOrFail, Release
  <2> QED BY <2>1, EndPower
<1>3. CASE RollbackActiveFails(p) \/ RemoveGenerationFails(p)
  BY <1>3 DEF RollbackActiveFails, RemoveGenerationFails
<1> QED
  BY <1>1, <1>2, <1>3, Zenon DEF Rollback

\* Calls start from a history that can be reproduced and extend it by a link
\* that can.
LEMMA CallPower ==
  ASSUME PowerInv, CrashInv', LedgerInv', NEW p \in Procs, Call(p)
  PROVE  PowerInv'
<1>0. /\ now \in 0..MaxTime /\ root.active \in Records \cup {None}
      /\ ops \subseteq SignedOperations
  BY DEF PowerInv, LedgerInv, TypeInv, TypeOK, RootDirectory
<1>1. CASE \E y \in Payloads : PublishBegin(p, y)
  <2> PICK y \in Payloads : PublishBegin(p, y)
    BY <1>1
  <2>1. /\ CleanTemporaries /\ Start(p, LegacyRecord(y, root.active, now))
        /\ UNCHANGED ops /\ Authenticates(y, y.policy, root.active, now)
    BY DEF PublishBegin
  <2>2. LegacyRecord(y, root.active, now) \in Records
    BY <1>0, LegacyRecordType
  <2> QED BY <2>1, <2>2, LegacyLinks, StartPower
<1>2. CASE \E op \in ops : ApplyPublish(p, op)
  <2> PICK op \in ops : ApplyPublish(p, op)
    BY <1>2
  <2> DEFINE n == [seq |-> op.seq, payload |-> op.payload]
             r == root.active
             l == [kind |-> "update", name |-> n, at |-> now, prev |-> None]
  <2>1. n \in GenerationNames /\ op.from \in Int
    BY <1>0 DEF SignedOperations, ApplyPublish, GenerationNames
  <2>2. /\ r \in Records /\ ~Withdrawn(r)
        /\ \A i \in 1..Len(r.ev) : LinkReproduces(r.ev, i)
    BY <1>0 DEF ApplyPublish, UpdateStateLoads, LoadsHistory
  <2>3. LastLink(r) \in Links /\ LastLink(r).name = r.name
    <3>1. r.ev \in Seq(Links) /\ r.ev # <<>> /\ LastLink(r).name = r.name
      BY <2>2 DEF Records
    <3> QED BY <3>1 DEF LastLink
  <2>4. LastLink(r).at \in Int /\ now \in Int
    BY <1>0, <2>3 DEF Links
  <2>5. /\ LastLink(r).kind # "withdraw" /\ LastLink(r).name.seq < op.seq
        /\ LastLink(r).at <= now /\ op.seq = op.payload.seq
        /\ op.payload.policy \in {LastLink(r).name.payload.policy,
                                  LastLink(r).name.payload.policy + 1}
        /\ ValidAt(op.payload, op.payload.policy, now)
    <3>1. /\ SeqOf(r) < op.seq /\ op.from <= now /\ LastLink(r).at <= op.from
      BY DEF ApplyPublish, DocumentValid
    <3>2. /\ op.seq = op.payload.seq
          /\ op.payload.policy \in {r.name.payload.policy, r.name.payload.policy + 1}
          /\ ValidAt(op.payload, op.payload.policy, now)
      BY DEF ApplyPublish, CandidateAuthorized, Authenticates
    <3>3. LastLink(r).at <= now
      BY <2>1, <2>4, <3>1
    <3> HIDE DEF r
    <3> QED BY <2>2, <2>3, <3>1, <3>2, <3>3 DEF Withdrawn, SeqOf
  <2>6. UpdateReproduces(LastLink(r), l)
    BY <2>5 DEF UpdateReproduces
  <2>7. UpdateRecord(op, r, now) = Extend(r, "update", n, now)
    BY DEF UpdateRecord
  <2>8. CleanTemporaries /\ Start(p, UpdateRecord(op, r, now)) /\ UNCHANGED ops
    BY DEF ApplyPublish
  <2> HIDE DEF n, r
  <2>9. UpdateRecord(op, r, now) \in Records
    BY <1>0, <2>1, <2>2, <2>7, ExtendType
  <2>10. \A i \in 1..Len(UpdateRecord(op, r, now).ev) :
           LinkReproduces(UpdateRecord(op, r, now).ev, i)
    BY <1>0, <2>1, <2>2, <2>6, <2>7, ExtendLinks
  <2> QED BY <2>8, <2>9, <2>10, StartPower
<1>3. CASE \E op \in ops : ApplyWithdrawal(p, op)
  <2> PICK op \in ops : ApplyWithdrawal(p, op)
    BY <1>3
  <2> DEFINE r == root.active
             n == [seq |-> op.seq, payload |-> r.name.payload]
             l == [kind |-> "withdraw", name |-> n, at |-> now, prev |-> None]
  <2>1. /\ r \in Records /\ ~Withdrawn(r)
        /\ \A i \in 1..Len(r.ev) : LinkReproduces(r.ev, i)
    BY <1>0 DEF ApplyWithdrawal, UpdateStateLoads, LoadsHistory
  <2>2. r.name.payload \in Payloads /\ op.seq \in 1..MaxSeq /\ op.from \in Int
    BY <1>0, <2>1 DEF Records, GenerationNames, SignedOperations
  <2>3. n \in GenerationNames
    BY <2>2 DEF GenerationNames
  <2>4. LastLink(r) \in Links /\ LastLink(r).name = r.name
    <3>1. r.ev \in Seq(Links) /\ r.ev # <<>> /\ LastLink(r).name = r.name
      BY <2>1 DEF Records
    <3> QED BY <3>1 DEF LastLink
  <2>5. LastLink(r).at \in Int /\ now \in Int
    BY <1>0, <2>4 DEF Links
  <2>6. /\ LastLink(r).kind # "withdraw" /\ LastLink(r).name.seq < op.seq
        /\ LastLink(r).at <= now
    <3>1. SeqOf(r) < op.seq /\ op.from <= now /\ LastLink(r).at <= op.from
      BY DEF ApplyWithdrawal, DocumentValid
    <3>2. LastLink(r).at <= now
      BY <2>2, <2>5, <3>1
    <3> HIDE DEF r
    <3> QED BY <2>1, <2>4, <3>1, <3>2 DEF Withdrawn, SeqOf
  <2>7. WithdrawalReproduces(LastLink(r), l)
    BY <2>4, <2>6 DEF WithdrawalReproduces
  <2>8. WithdrawalRecord(op, r, now) = Extend(r, "withdraw", n, now)
    BY DEF WithdrawalRecord
  <2>9. CleanTemporaries /\ Start(p, WithdrawalRecord(op, r, now)) /\ UNCHANGED ops
    BY DEF ApplyWithdrawal
  <2> HIDE DEF n, r
  <2>10. WithdrawalRecord(op, r, now) \in Records
    BY <1>0, <2>1, <2>3, <2>8, ExtendType
  <2>11. \A i \in 1..Len(WithdrawalRecord(op, r, now).ev) :
           LinkReproduces(WithdrawalRecord(op, r, now).ev, i)
    BY <1>0, <2>1, <2>3, <2>7, <2>8, ExtendLinks
  <2> QED BY <2>9, <2>10, <2>11, StartPower
<1>4. CASE \/ \E y \in Payloads : PublishReuse(p, y)
           \/ Recover(p) \/ Activate(p) \/ RecoverWithdrawal(p) \/ CleanAndRefuse(p)
  <2>1. CleanTemporaries /\ lock' = None /\ UNCHANGED ops
    BY <1>4 DEF PublishReuse, Recover, Activate, RecoverWithdrawal, CleanAndRefuse,
                OpenStore
  <2> QED BY <2>1, CleanPower
<1> QED
  BY <1>1, <1>2, <1>3, <1>4 DEF Call

\* Write-back at any moment and a power loss find both views sound.
LEMMA EnvironmentPower ==
  ASSUME PowerInv, TypeInv', LedgerInv', Environment
  PROVE  PowerInv'
<1>0. CrashInv'
  <2>1. CASE PowerLoss
    <3>1. root' = disk.root /\ gens' = disk.gens /\ lock' = None
      BY <2>1 DEF PowerLoss
    <3> QED BY <3>1, NoneAssumption DEF PowerInv, CrashInv, ActiveIntact, Holds
  <2>2. CASE Environment /\ ~PowerLoss
    <3>1. UNCHANGED <<root, gens, lock, tx>>
      BY <2>2 DEF Environment, Tick, SignOperation, Writeback
    <3> QED BY <3>1 DEF PowerInv, CrashInv, ActiveIntact
  <2> QED BY <2>1, <2>2
<1>1. CASE Tick
  BY <1>0, <1>1 DEF Tick, PowerInv
<1>2. CASE \E o \in Operations, s \in 1..MaxSeq, u \in 1..MaxTime + 1 :
             SignOperation(o, s, u)
  <2>1. /\ UNCHANGED <<root, gens, disk, lock>> /\ lock = None
        /\ Cardinality(ops) < MaxOps /\ \E x : ops' = ops \cup {x}
    BY <1>2 DEF SignOperation
  <2>2. PICK x : ops' = ops \cup {x}
    BY <2>1
  <2>3. /\ IsFiniteSet(ops') /\ Cardinality(ops) \in Nat
        /\ Cardinality(ops') <= Cardinality(ops) + 1
    <3>1. IsFiniteSet(ops)
      BY DEF PowerInv
    <3>2. /\ IsFiniteSet(ops \cup {x})
          /\ Cardinality(ops \cup {x}) =
               IF x \in ops THEN Cardinality(ops) ELSE Cardinality(ops) + 1
      BY <3>1, FS_AddElement
    <3>3. Cardinality(ops) \in Nat
      BY <3>1, FS_CardinalityType
    <3> QED BY <2>2, <3>2, <3>3
  <2>4. Cardinality(ops') <= MaxOps
    <3>1. Cardinality(ops') \in Nat
      BY <2>3, FS_CardinalityType
    <3> QED BY <2>1, <2>3, <3>1, BoundsAssumption
  <2> QED BY <1>0, <2>1, <2>3, <2>4, NoneAssumption DEF PowerInv
<1>3. CASE Writeback
  <2>1. /\ UNCHANGED <<ops, root, gens, lock, tx>>
        /\ disk'.root \in {disk.root, root} /\ disk'.gens \in {disk.gens, gens}
    BY <1>3 DEF Writeback, PowerInv, LedgerInv, TypeInv, TypeOK
  <2>2. ASSUME NEW p \in Procs, lock = p PROVE Sound(tx[p], gens, disk')
    <3>1. /\ Sound(tx[p], gens, disk) /\ StageInv(tx[p], root, gens)
      BY <2>2 DEF PowerInv, CrashInv
    <3>2. tx[p].pc \in Uncommitted \cup RollbackStages =>
            root.active = tx[p].prev
      BY <3>1 DEF Sound, StageInv, Uncommitted, RollbackStages, Committed
    <3> QED BY <2>1, <3>1, <3>2 DEF Sound
  <2>3. /\ Holds(gens.final, disk'.root.active)
        /\ Holds(disk'.gens.final, root.active)
        /\ Holds(disk'.gens.final, disk'.root.active)
    BY <2>1 DEF PowerInv, CrashInv, ActiveIntact, Holds
  <2> QED BY <1>0, <2>1, <2>2, <2>3 DEF PowerInv
<1>4. CASE PowerLoss
  <2>1. UNCHANGED <<ops, disk>> /\ root' = disk.root /\ gens' = disk.gens /\ lock' = None
    BY <1>4 DEF PowerLoss
  <2> QED BY <1>0, <2>1, NoneAssumption DEF PowerInv
<1> QED
  BY <1>1, <1>2, <1>3, <1>4 DEF Environment

LEMMA PowerStep ==
  ASSUME Faults \subseteq {"kill", "power"}, MaxOps < MaxGenerations
  PROVE  PowerInv /\ [Next]_vars => PowerInv'
<1> SUFFICES ASSUME PowerInv, [Next]_vars PROVE PowerInv'
  OBVIOUS
<1>0. TypeInv' /\ LedgerInv' /\ "io" \notin Faults /\ "undo" \notin Faults
     /\ "cancel" \notin Faults
  BY TypeStep, LedgerStep DEF PowerInv, LedgerInv
<1>1. CASE UNCHANGED vars
  BY <1>0, <1>1 DEF vars, PowerInv, CrashInv, ActiveIntact
<1>2. ASSUME NEW p \in Procs, Call(p) PROVE PowerInv'
  BY <1>0, <1>2, CallCrash, CallPower DEF PowerInv
<1>3. ASSUME NEW p \in Procs, Forward(p) PROVE PowerInv'
  BY <1>0, <1>3, HolderMoves, ForwardCrash, ForwardPower DEF PowerInv
<1>4. ASSUME NEW p \in Procs, Rollback(p) PROVE PowerInv'
  BY <1>0, <1>4, HolderMoves, RollbackCrash, RollbackPower DEF PowerInv
<1>5. ASSUME NEW p \in Procs, Fail(p) PROVE PowerInv'
  BY <1>0, <1>5 DEF Fail
<1>6. ASSUME NEW p \in Procs, Kill(p) PROVE PowerInv'
  <2>1. /\ lock' = None /\ UNCHANGED <<ops, root, gens, disk>>
    BY <1>6 DEF Kill, Release
  <2>2. CrashInv'
    BY <1>0, <2>1, IdleCrash DEF PowerInv
  <2> QED BY <1>0, <2>1, <2>2, EndPower
<1>7. CASE Environment
  BY <1>0, <1>7, EnvironmentPower
<1> QED
  BY <1>1, <1>2, <1>3, <1>4, <1>5, <1>6, <1>7 DEF Next

\* Crash safety when the power fails: whatever the kernel has written back of
\* the two directories and wherever processes die, active.json names after a
\* restart a generation that is published, sealed and complete, with every
\* generation of its history.  As long as fewer operations are signed than
\* maxTrustStoreGenerations the load that verifies a commit succeeds, so that
\* no committed transaction is ever rolled back.
THEOREM PowerSafe ==
  ASSUME Faults \subseteq {"kill", "power"}, MaxOps < MaxGenerations
  PROVE  Spec => []ActiveIntact
<1>1. Init => PowerInv
  <2> SUFFICES ASSUME Init PROVE PowerInv
    OBVIOUS
  <2>1. /\ LedgerInv /\ lock = None /\ root = EmptyRoot /\ ops = {}
        /\ disk = [root |-> EmptyRoot, gens |-> EmptyGenerations]
    BY LedgerInit DEF Init
  <2>2. CrashInv
    BY <2>1, NoneAssumption DEF LedgerInv, CrashInv, ActiveIntact, EmptyRoot
  <2>3. IsFiniteSet(ops) /\ Cardinality(ops) <= MaxOps
    BY <2>1, FS_EmptySet, BoundsAssumption
  <2> QED BY <2>1, <2>2, <2>3, NoneAssumption DEF PowerInv, Holds, EmptyRoot
<1>2. PowerInv /\ [Next]_vars => PowerInv'
  BY PowerStep
<1>3. PowerInv => ActiveIntact
  BY DEF PowerInv, CrashInv
<1> QED
  BY <1>1, <1>2, <1>3, PTL DEF Spec
=============================================================================

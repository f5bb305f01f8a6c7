--------------------------- MODULE RuntimeIntegrity ---------------------------
(***************************************************************************)
(* InstallARM64 and RemoveARM64: wrap the fallback loader of boot media in *)
(* a loader that checks md5sum.txt and then starts the original, and undo  *)
(* it.  Three names in two directories change; a failing step is rolled    *)
(* back by further steps that may fail themselves.                         *)
(*                                                                         *)
(* Any step may fail, the process may die between any two, and the power   *)
(* may go.  The media are FAT: until a directory is synced, each of its    *)
(* entries reaches the disk on its own or not at all.  Another program may *)
(* change a file or add one.  The lock of the media root admits one call   *)
(* at a time; a second is refused and does nothing.                        *)
(***************************************************************************)
EXTENDS Naturals

CONSTANTS
  MaxChanges,  \* bound on what another program does
  None

ASSUME ChangesAssumption == MaxChanges \in Nat
ASSUME NoneIsNoContent == None \notin {"original", "wrapper", "data", "changed"}

Boot == {"fallback", "backup"}     \* EFI/BOOT/BOOTAA64.EFI, bootaa64_original.efi
Files == Boot \cup {"payload", "extra"}

VARIABLES
  tree,      \* file contents by name, None for a name that does not exist
  manifest,  \* md5sum.txt: what it lists and its InstallationRecord
  litter,    \* a temporary was left behind
  durable,   \* the same names on the disk
  call,      \* the call that holds the lock
  changes,   \* changes by another program so far
  exposed,   \* a rollback took away a copy and is not synced
  excused    \* a rollback could not keep the original

media == <<tree, manifest, litter, durable>>
vars == <<media, call, changes, exposed, excused>>

-----------------------------------------------------------------------------
(* A call *)

\* While the installed state is being restored, the original may be in the memory
\* of the process only.
Irreplaceable == {"redo-stage-backup", "redo-backup"}

\* installMutationState, the data read before the first change, and what the
\* tree was then.  "stale" and "rootChanged" are differences of fileIdentity.
Idle == [op |-> "none", pc |-> "idle", original |-> None, wrapper |-> None,
         manifest |-> None, temporary |-> FALSE, done |-> {}, stale |-> FALSE,
         rootChanged |-> FALSE, hashed |-> None, failed |-> FALSE, before |-> None, result |-> "none"]

\* Mutant: the call returns and keeps the lock.
EndedLocked(result) == call' = [call EXCEPT !.pc = "idle", !.result = result]

Ended(result) == call' = [Idle EXCEPT !.result = result]

At(stage) == call.pc = stage
Goto(stage) == call' = [call EXCEPT !.pc = stage]

\* A step of the call that changes no file.
Quiet == UNCHANGED <<media, changes, exposed, excused>>

\* writeTemporary: written, synced and closed under a random name.
Stage(from, to) ==
  /\ At(from)
  /\ call' = [call EXCEPT !.pc = to, !.temporary = TRUE]
  /\ Quiet

\* Steps after which, until EFI/BOOT is synced, the disk may hold neither copy of
\* the original.
Exposing == {"undo-backup", "redo-wrapper"}
Expose(from) == exposed' = (exposed \/ from \in Exposing)

\* renameNoReplaceAt and replaceFromTemporary; "done" are the state's flags.
Rename(from, name, content, flag, to) ==
  /\ At(from)
  /\ tree' = [tree EXCEPT ![name] = content]
  /\ call' = [call EXCEPT !.pc = to, !.temporary = FALSE, !.done = @ \cup flag]
  /\ Expose(from)
  /\ UNCHANGED <<manifest, litter, durable, changes, excused>>

RenameManifest(from, content, flag, to) ==
  /\ At(from)
  /\ manifest' = content
  /\ call' = [call EXCEPT !.pc = to, !.temporary = FALSE, !.done = @ \cup flag]
  /\ UNCHANGED <<tree, litter, durable, changes, exposed, excused>>

\* removeExact.
Remove(from, name, to) ==
  /\ At(from)
  /\ tree' = [tree EXCEPT ![name] = None]
  /\ Goto(to)
  /\ Expose(from)
  /\ UNCHANGED <<manifest, litter, durable, changes, excused>>

RemoveManifest(from, to) ==
  /\ At(from)
  /\ manifest' = None
  /\ Goto(to)
  /\ UNCHANGED <<tree, litter, durable, changes, exposed, excused>>

\* syncDirectory of EFI/BOOT.
SyncBoot(from, to) ==
  /\ At(from)
  /\ durable' = [durable EXCEPT !.tree = [f \in Files |-> IF f \in Boot THEN tree[f] ELSE @[f]]]
  /\ exposed' = FALSE
  /\ Goto(to)
  /\ UNCHANGED <<tree, manifest, litter, changes, excused>>

\* syncDirectory of the media root: its entries, not the data of its files.
SyncRoot(from, to) ==
  /\ At(from)
  /\ durable' = [tree |-> [durable.tree EXCEPT !["extra"] = tree["extra"]],
                 manifest |-> manifest]
  /\ Goto(to)
  /\ UNCHANGED <<tree, manifest, litter, changes, exposed, excused>>

-----------------------------------------------------------------------------
(* Reading the tree *)

\* enumerateDirectory remembers the identity of every file.
Enumerate(from, to) ==
  /\ At(from)
  /\ call' = [call EXCEPT !.pc = to, !.stale = FALSE]
  /\ Quiet

\* verifyFromOpenRoot takes the root's identity anew.
EnumerateAnew(from, to) ==
  /\ At(from)
  /\ call' = [call EXCEPT !.pc = to, !.stale = FALSE, !.rootChanged = FALSE]
  /\ Quiet

\* The files with their digests.
Listed == [files |-> tree, litter |-> litter]

\* hashEntries reads each file once, and only if it is as enumerated; a later
\* change of it goes unseen.
HashEntries(from, to) ==
  /\ At(from)
  /\ ~call.stale
  /\ call' = [call EXCEPT !.pc = to, !.hashed = Listed]
  /\ Quiet

\* Its last check: the root is as it was.
RootUnchanged == ~call.rootChanged

\* Every record matches a file, every file has a record.
Valid == manifest # None /\ manifest.listed = call.hashed

-----------------------------------------------------------------------------
(* installARM64 *)

\* ensureCaseAbsent twice, readExactRegular and requireARM64EFIApplication.
BeginInstall ==
  /\ At("idle")
  /\ manifest = None
  /\ tree["backup"] = None
  /\ tree["fallback"] # None
  /\ call' = [Idle EXCEPT !.op = "install", !.pc = "stage-backup",
                          !.original = tree["fallback"], !.wrapper = "wrapper",
                          !.before = [boot |-> [f \in Boot |-> tree[f]], manifest |-> manifest]]
  /\ Quiet

StageBackup == Stage("stage-backup", "publish-backup")
PublishBackup == Rename("publish-backup", "backup", call.original, {"backup"}, "sync-backup")
SyncBackup == SyncBoot("sync-backup", "stage-wrapper")
StageWrapper == Stage("stage-wrapper", "replace")
ReplaceFallback == Rename("replace", "fallback", call.wrapper, {"wrapper"}, "sync-wrapper")
SyncWrapper == SyncBoot("sync-wrapper", "enumerate")

\* generateFromOpenRoot and marshalInstalledManifest.
Generate ==
  /\ At("generate")
  /\ RootUnchanged
  /\ call' = [call EXCEPT !.pc = "stage-manifest",
                          !.manifest = [listed |-> call.hashed, original |-> call.original,
                                        wrapper |-> call.wrapper]]
  /\ Quiet

StageManifest == Stage("stage-manifest", "publish-manifest")
PublishManifest ==
  RenameManifest("publish-manifest", call.manifest, {"manifest"}, "sync-manifest")

\* Mutant: the media root is not synced.
ManifestNotSynced == At("sync-manifest") /\ Goto("verify-enumerate") /\ Quiet

SyncManifest == SyncRoot("sync-manifest", "verify-enumerate")

VerifyInstalled ==
  /\ At("verify")
  /\ RootUnchanged
  /\ Valid
  /\ Ended("installed")
  /\ Quiet

Install ==
  \/ BeginInstall
  \/ StageBackup \/ PublishBackup \/ SyncBackup
  \/ StageWrapper \/ ReplaceFallback \/ SyncWrapper
  \/ Enumerate("enumerate", "hash") \/ HashEntries("hash", "generate") \/ Generate
  \/ StageManifest \/ PublishManifest \/ SyncManifest
  \/ EnumerateAnew("verify-enumerate", "verify-hash") \/ HashEntries("verify-hash", "verify")
  \/ VerifyInstalled

-----------------------------------------------------------------------------
(* rollbackInstall: every step is tried, whether or not an earlier one failed *)

UndoTemporary ==
  /\ At("undo-temporary")
  /\ call' = [call EXCEPT !.pc = "undo-manifest", !.temporary = FALSE]
  /\ Quiet

\* Mutant: the manifest stays.
UndoKeepsManifest == At("undo-manifest") /\ Goto("undo-stage") /\ Quiet

UndoManifest ==
  \/ "manifest" \in call.done /\ RemoveManifest("undo-manifest", "undo-stage")
  \/ "manifest" \notin call.done /\ At("undo-manifest") /\ Goto("undo-stage") /\ Quiet

UndoWrapper ==
  \/ "wrapper" \in call.done /\ Stage("undo-stage", "undo-replace")
  \/ "wrapper" \notin call.done /\ At("undo-stage") /\ Goto("undo-backup") /\ Quiet
  \/ Rename("undo-replace", "fallback", call.original, {}, "undo-backup")

UndoBackup ==
  \/ "backup" \in call.done /\ Remove("undo-backup", "backup", "undo-sync-boot")
  \/ "backup" \notin call.done /\ At("undo-backup") /\ Goto("undo-sync-boot") /\ Quiet

UndoSync == SyncBoot("undo-sync-boot", "undo-sync-root")

UndoEnds ==
  /\ At("undo-sync-root")
  /\ durable' = [tree |-> [durable.tree EXCEPT !["extra"] = tree["extra"]],
                 manifest |-> manifest]
  /\ Ended(IF call.failed THEN "failed" ELSE "restored")
  /\ UNCHANGED <<tree, manifest, litter, changes, exposed, excused>>

\* A step of a rollback fails; the next one is tried.  A temporary that cannot
\* be removed, or renamed and then removed, stays.
AfterFailure ==
  [s \in {"undo-temporary", "undo-manifest", "undo-stage", "undo-replace", "undo-backup",
          "redo-stage-wrapper", "redo-wrapper", "redo-stage-backup", "redo-backup",
          "redo-stage-manifest", "redo-manifest", "undo-sync-boot", "undo-sync-root"} |->
    CASE s = "undo-temporary" -> "undo-manifest"
      [] s = "undo-manifest" -> "undo-stage"
      [] s \in {"undo-stage", "undo-replace"} -> "undo-backup"
      [] s \in {"redo-stage-wrapper", "redo-wrapper"} -> "redo-stage-backup"
      [] s \in {"redo-stage-backup", "redo-backup"} -> "redo-stage-manifest"
      [] s \in {"undo-backup", "redo-stage-manifest", "redo-manifest"} -> "undo-sync-boot"
      [] s = "undo-sync-boot" -> "undo-sync-root"
      [] s = "undo-sync-root" -> "idle"]

\* The steps that there is nothing to do in cannot fail.
Attempted ==
  /\ call.pc \in DOMAIN AfterFailure
  /\ At("undo-temporary") => call.temporary
  /\ At("undo-manifest") => "manifest" \in call.done
  /\ At("undo-stage") => "wrapper" \in call.done
  /\ At("undo-backup") => "backup" \in call.done

UndoFails ==
  /\ Attempted
  /\ call' = IF At("undo-sync-root")
               THEN Idle
               ELSE [call EXCEPT !.pc = AfterFailure[call.pc], !.temporary = FALSE,
                                 !.failed = TRUE]
  /\ litter' \in IF call.pc \in {"undo-manifest", "undo-backup", "undo-sync-boot", "undo-sync-root"}
                   THEN {litter} ELSE {litter, TRUE}
  /\ excused' = (excused \/ call.pc \in Irreplaceable \cup {"undo-stage", "undo-replace"})
  /\ UNCHANGED <<tree, manifest, durable, changes, exposed>>

-----------------------------------------------------------------------------
(* RemoveARM64 *)

\* parseInstallationRecord.
BeginRemove ==
  /\ At("idle")
  /\ manifest # None
  /\ call' = [Idle EXCEPT !.op = "remove", !.pc = "check-enumerate", !.manifest = manifest,
                          !.before = [boot |-> [f \in Boot |-> tree[f]], manifest |-> manifest]]
  /\ Quiet

\* verifyFromOpenRoot; the loaders match the record.
CheckInstalled ==
  /\ At("check")
  /\ RootUnchanged
  /\ Valid
  /\ tree["fallback"] = call.manifest.wrapper
  /\ tree["backup"] = call.manifest.original
  /\ call' = [call EXCEPT !.pc = "stage-original", !.wrapper = tree["fallback"],
                          !.original = tree["backup"]]
  /\ Quiet

StageOriginal == Stage("stage-original", "restore")

\* atomicReplace; "wrapper" stands for the code's flag mutated.
RestoreOriginal == Rename("restore", "fallback", call.original, {"wrapper"}, "sync-restored")

\* Mutant: EFI/BOOT is not synced before the backup is removed.
RestoredNotSynced == At("sync-restored") /\ Goto("remove-backup") /\ Quiet

SyncRestored == SyncBoot("sync-restored", "remove-backup")
RemoveBackup == Remove("remove-backup", "backup", "sync-removed")
SyncRemoved == SyncBoot("sync-removed", "remove-manifest")
RemoveOldManifest == RemoveManifest("remove-manifest", "sync-gone")
SyncGone == SyncRoot("sync-gone", "check-removed")

CheckRemoved ==
  /\ At("check-removed")
  /\ tree["fallback"] = call.manifest.original
  /\ tree["backup"] = None
  /\ manifest = None
  /\ Ended("removed")
  /\ Quiet

RemoveCall ==
  \/ BeginRemove
  \/ EnumerateAnew("check-enumerate", "check-hash") \/ HashEntries("check-hash", "check")
  \/ CheckInstalled
  \/ StageOriginal \/ RestoreOriginal \/ SyncRestored
  \/ RemoveBackup \/ SyncRemoved
  \/ RemoveOldManifest \/ SyncGone \/ CheckRemoved

\* restoreInstalledState: wrapper, backup, manifest, in this order.
Redo ==
  \/ Stage("redo-stage-wrapper", "redo-wrapper")
  \/ Rename("redo-wrapper", "fallback", call.wrapper, {}, "redo-stage-backup")
  \/ Stage("redo-stage-backup", "redo-backup")
  \/ Rename("redo-backup", "backup", call.original, {}, "redo-stage-manifest")
  \/ Stage("redo-stage-manifest", "redo-manifest")
  \/ RenameManifest("redo-manifest", call.before.manifest, {}, "undo-sync-boot")

-----------------------------------------------------------------------------
(* Failure *)

Forward == {"stage-backup", "publish-backup", "sync-backup", "stage-wrapper", "replace",
            "sync-wrapper", "enumerate", "hash", "generate", "stage-manifest", "publish-manifest",
            "sync-manifest", "verify-enumerate", "verify-hash", "verify", "check-enumerate",
            "check-hash", "check", "stage-original", "restore", "sync-restored", "remove-backup",
            "sync-removed", "remove-manifest", "sync-gone", "check-removed"}

\* The deferred functions: an installation is always rolled back, a removal once
\* it has changed something.  A temporary that could not be written is removed on
\* the spot, unless that fails too.
Fail ==
  /\ call.pc \in Forward
  /\ \/ /\ call.op = "install"
        /\ call' = [call EXCEPT !.pc = "undo-temporary"]
     \/ /\ call.op = "remove" /\ "wrapper" \in call.done
        /\ call' = [call EXCEPT !.pc = "redo-stage-wrapper"]
     \/ /\ call.op = "remove" /\ "wrapper" \notin call.done
        /\ call' = Idle
  /\ litter' \in {litter} \cup (IF call.pc \in {"stage-backup", "stage-wrapper",
                                                "stage-manifest", "stage-original", "restore"}
                                  THEN {TRUE} ELSE {})
  /\ UNCHANGED <<tree, manifest, durable, changes, exposed, excused>>

\* Death of the process.
Kill ==
  /\ ~At("idle")
  /\ call' = Idle
  /\ litter' = (litter \/ call.temporary)
  /\ excused' = (excused \/ call.pc \in Irreplaceable)
  /\ UNCHANGED <<tree, manifest, durable, changes, exposed>>

\* The kernel writes a directory entry back.
Writeback ==
  /\ \/ \E f \in Files : durable' = [durable EXCEPT !.tree[f] = tree[f]]
     \/ durable' = [durable EXCEPT !.manifest = manifest]
  /\ UNCHANGED <<tree, manifest, litter, call, changes, exposed, excused>>

PowerLoss ==
  /\ tree' = durable.tree
  /\ manifest' = durable.manifest
  /\ litter' \in {litter, litter \/ call.temporary}
  /\ call' = Idle
  /\ excused' = (excused \/ exposed \/ call.pc \in Irreplaceable)
  /\ exposed' = FALSE
  /\ UNCHANGED <<durable, changes>>

\* Another program changes a file, or adds one to the media root.
Change ==
  /\ changes < MaxChanges
  /\ changes' = changes + 1
  /\ \/ tree' = [tree EXCEPT !["payload"] = "changed"]
        /\ call' = [call EXCEPT !.stale = ~At("idle")]
     \/ tree["extra"] = None /\ tree' = [tree EXCEPT !["extra"] = "data"]
        /\ call' = [call EXCEPT !.rootChanged = ~At("idle")]
  /\ UNCHANGED <<manifest, litter, durable, exposed, excused>>

Init ==
  /\ tree = [f \in Files |-> CASE f = "fallback" -> "original"
                                [] f = "payload" -> "data"
                                [] OTHER -> None]
  /\ manifest = None
  /\ litter = FALSE
  /\ durable = [tree |-> tree, manifest |-> manifest]
  /\ call = Idle
  /\ changes = 0
  /\ exposed = FALSE
  /\ excused = FALSE

Undo ==
  UndoTemporary \/ UndoManifest \/ UndoWrapper \/ UndoBackup \/ UndoSync \/ UndoEnds \/ UndoFails

Next == Install \/ RemoveCall \/ Undo \/ Redo \/ Fail \/ Kill \/ Writeback \/ PowerLoss \/ Change

Spec == Init /\ [][Next]_vars

-----------------------------------------------------------------------------
(* Properties *)

Contents == {"original", "wrapper", "data", "changed"}
Trees == [Files -> Contents \cup {None}]
Listings == [files : Trees, litter : BOOLEAN]
Manifests == [listed : Listings, original : Contents, wrapper : Contents]
Befores == [boot : [Boot -> Contents \cup {None}], manifest : Manifests \cup {None}]

\* Every variable has its shape, and between calls no temporary is owned.
TypeOK ==
  /\ tree \in Trees
  /\ manifest = None \/ manifest \in Manifests
  /\ litter \in BOOLEAN
  /\ durable.tree \in Trees
  /\ durable.manifest = None \/ durable.manifest \in Manifests
  /\ call.pc \in {"idle"} \cup Forward \cup DOMAIN AfterFailure
  /\ call.op \in {"none", "install", "remove"}
  /\ call.original \in Contents \cup {None}
  /\ call.hashed = None \/ call.hashed \in Listings
  /\ call.manifest = None \/ call.manifest \in Manifests
  /\ call.before = None \/ call.before \in Befores
  /\ call.done \subseteq {"backup", "wrapper", "manifest"}
  /\ (call.op = "none") <=> At("idle")
  /\ At("idle") => ~call.temporary
  /\ changes \in 0..MaxChanges

\* No call leaves the media without the original loader: it is the fallback loader
\* or the backup the wrapper starts, however a call fails, dies or loses power.
\* Excepted are a rollback that cannot rewrite the loader and then removes the
\* backup all the same, power loss before such a removal is synced, and death
\* while the installed state is restored.
OriginalKept ==
  At("idle") /\ ~excused => "original" \in {tree["fallback"], tree["backup"]}

\* A rollback none of whose steps failed restores loader, backup and manifest
\* exactly, also on the disk.
UndoExact ==
  [][~At("idle") /\ call'.result = "restored" =>
       /\ \A f \in Boot : {tree'[f], durable'.tree[f]} = {call.before.boot[f]}
       /\ {manifest', durable'.manifest} = {call.before.manifest}]_vars

\* What a call that succeeds reports is on the disk: wrapper, original and a
\* manifest that lists every file as it is, save one changed after it was read
\* the second time; or the original alone.
SuccessDurable ==
  [][~At("idle") /\ call'.result \in {"installed", "removed"} =>
       /\ \A f \in Boot : durable'.tree[f] = tree'[f]
       /\ durable'.manifest = manifest'
       /\ IF call'.result = "installed"
            THEN /\ tree'["fallback"] = "wrapper" /\ tree'["backup"] = call.original
                 /\ call.stale \/ manifest'.listed.files = tree'
            ELSE /\ tree'["fallback"] = call.before.manifest.original
                 /\ tree'["backup"] = None /\ manifest' = None]_vars
==============================================================================

---------------------------- MODULE PersistentMedia ----------------------------
(***************************************************************************)
(* Package linuxmedia, CreatePersistent: the files of a live image on a    *)
(* writable boot partition, patched to use a second, ext4 partition that   *)
(* package persistence makes.  What was inspected is a manifest of hashes: *)
(* files whose bytes are others by the time they are copied are refused.   *)
(***************************************************************************)
EXTENDS WriteCommand

Live(stage) == At("linux-persistent", stage)

LiveHold == Live("open") /\ AcquireReadLease("hash")
HashPersistentSource == Live("hash") /\ HashFirst("loader")

\* The validator's loader is a file of its own, read under its identity.
PreparePersistentRuntimeIntegrity == Live("loader") /\ Pass("target")
LiveOpenTarget == Live("target") /\ OpenTarget("work")

LiveWorkspace ==
  /\ Live("work")
  /\ w' = [w EXCEPT !.pc = "mount-iso", !.work = TRUE]
  /\ UNCHANGED <<disk, src>>

LiveMountISO == Live("mount-iso") /\ MountOwn("iso", "detect")

\* persistence.Detect: family and boot configuration of the image.
DetectPersistence == Live("detect") /\ "iso" \in w.own /\ Pass("inspect")

\* Inspect: the tree, then every file with its hash, in a manifest.
InspectTree == Live("inspect") /\ Observe("hash-files")
HashStableFile == Live("hash-files") /\ Observe("layout")

PlanPersistentLayout == Live("layout") /\ Pass("recheck")

LiveRecheck == Live("recheck") /\ Recheck("review", "untouched")

LiveReview ==
  /\ Live("review")
  /\ CheckTarget
  /\ Ask(FALSE, "erase")
  /\ UNCHANGED <<disk, src>>

LiveErase ==
  /\ Live("erase")
  /\ w' = [w EXCEPT !.pc = "wipe", !.touched = TRUE]
  /\ UNCHANGED <<disk, src>>

\* wipefs through the descriptor.
LiveWipe == Live("wipe") /\ Wipe("table")
WritePersistentGPT == Live("table") /\ CheckTarget /\ WriteTable("reread")

PersistentRereadPartitionTable == Live("reread") /\ Reread("partition")

WaitPersistentPartition == Live("partition") /\ CheckTarget /\ WaitPartition("unmount-new")

UnmountPersistentDeviceMounts == Live("unmount-new") /\ UnmountPartition("bind")

\* The partition is opened and locked, and its parent, start and size compared.
OpenPersistentPartition ==
  /\ Live("bind")
  /\ CheckTarget
  /\ parts
  /\ Pass("format")

LiveFormat == Live("format") /\ MakeFilesystem("unmount-again")
LiveUnmountAgain == Live("unmount-again") /\ UnmountPartition("mount-boot")
LiveMountBoot == Live("mount-boot") /\ MountOwn("target", "validate")

\* The manifest is the inspected one and names nothing outside the destination.
ValidateManifestForCopy == Live("validate") /\ "target" \in w.own /\ Pass("copy")

\* A copied file has the manifest's hash, or the copy fails.
CopyEntry ==
  /\ Bytes = w.plan
  /\ \/ Live("copy") /\ CopyFiles("copy-rest", Bytes)
     \/ Live("copy-rest") /\ CopyFiles("compare", Bytes)

\* CopyAndVerify then hashes every copied file through the mount.
CopyAndVerify ==
  /\ Live("compare")
  /\ port = w.fd
  /\ Held.fs = w.plan
  /\ Pass("patch")

-----------------------------------------------------------------------------
(* Package persistence changes the boot configuration *)

\* Every path is looked at and its directory opened without following links.
PatchBootTree == Live("patch") /\ port = w.fd /\ "target" \in w.own /\ Pass("patch-config")

\* A kernel line of the family without the parameter gets it.
PatchBootConfig == Live("patch-config") /\ port = w.fd /\ Pass("patch-file")

\* A temporary takes the place of the file, which must still be the one read.
PatchOneBootFile ==
  /\ Live("patch-file")
  /\ port = w.fd
  /\ "target" \in w.own
  /\ w' = [w EXCEPT !.pc = "activated", !.boot = "image", !.changed = @ \cup {w.fd}]
  /\ UNCHANGED <<disk, src>>

\* Detect again, on the copied tree.
DetectActivated ==
  /\ Live("activated")
  /\ port = w.fd
  /\ w.boot = "image"
  /\ Pass("fallback")

HashPersistentRuntimeFallback == Live("fallback") /\ port = w.fd /\ Pass("record")

\* The qualification record names the digest of the image.
WriteRecord == Live("record") /\ port = w.fd /\ Change("integrity", Held)

\* Runtime validation is installed as a transaction of its own.
InstallPersistentRuntimeIntegrity == Live("integrity") /\ port = w.fd /\ Change("umount-boot", Held)
NoRuntimeIntegrity == Live("integrity") /\ Pass("umount-boot")

LiveUmountBoot == Live("umount-boot") /\ UmountOwn("target", "flush-boot")
LiveFlushBoot == Live("flush-boot") /\ Flush("bound")

\* fsck, and the partition's identity once more.
VerifyPersistentPartitionFile == Live("bound") /\ port = w.fd /\ parts /\ Pass("persist-bind")

\* The second partition has the planned geometry.
VerifyPersistentPartitionGeometry ==
  /\ Live("persist-bind")
  /\ CheckTarget
  /\ parts
  /\ Pass("persist-plan")

-----------------------------------------------------------------------------
(* Package persistence: the second partition, at a mount point of its own *)

ValidateFilesystemPlan == Live("persist-plan") /\ Pass("persist-open")

\* Number, capacity and kind of the opened partition, then its lock.
VerifyPersistencePartition ==
  /\ Live("persist-open")
  /\ port = w.fd
  /\ parts
  /\ Pass("persist-format")

\* The closure runs under the partition's lock, which mkfs needs released.
FormatPersistence ==
  /\ Live("persist-format")
  /\ CheckTarget
  /\ mounts = {}
  /\ Change("persist-mount", Held)

MountPersistence ==
  Live("persist-mount") /\ MountUndo("persistence", "persist-root", "undo-persist")

\* persistence.conf, synced.
InitializePersistenceRoot == Live("persist-root") /\ port = w.fd /\ Change("persist-umount", Held)

UmountPersistence == Live("persist-umount") /\ UmountOwn("persistence", "recheck-copied")

LiveFailPersistence ==
  FailTo("linux-persistent", {"persist-plan", "persist-open", "persist-format",
                              "persist-mount", "persist-root", "persist-umount"},
         "undo-persist")

\* Its mount point goes when nothing it knows of is mounted there.
CleanPersistence ==
  /\ Live("undo-persist")
  /\ IF "persistence" \in w.known THEN CleanMount("persistence", "undo") ELSE Pass("undo")

-----------------------------------------------------------------------------
(* The end *)

LiveRecheckCopied == Live("recheck-copied") /\ Recheck("flush", "incomplete")
LiveFlush == Live("flush") /\ CheckTarget /\ Flush("umount-iso")
LiveUmountISO == Live("umount-iso") /\ UmountOwn("iso", "undo")

LiveFail == Fail("linux-persistent",
  {"open", "hash", "loader", "target", "work", "mount-iso", "detect", "inspect",
   "hash-files", "layout", "recheck", "review", "erase", "wipe", "table", "reread",
   "partition", "unmount-new", "bind", "format", "unmount-again", "mount-boot", "validate",
   "copy", "copy-rest", "compare", "patch", "patch-config", "patch-file", "activated",
   "fallback", "record", "integrity", "umount-boot", "flush-boot", "bound", "persist-bind",
   "recheck-copied", "flush", "umount-iso"})

LiveFailTorn == FailTorn("linux-persistent", {"wipe", "table", "format", "copy", "copy-rest",
                                              "patch-file", "record", "integrity"})

\* The boot partition is closed before the workspace is taken down.
LiveCleanBoot == Live("undo") /\ CleanMount("target", "clean-iso")
LiveCleanISO == Live("clean-iso") /\ CleanMount("iso", "clean-work")
LiveCleanWork == Live("clean-work") /\ CleanWork("close")
FinishPersistentFile == Live("close") /\ CloseTarget("release")
LiveRelease == Live("release") /\ FinishLease("emit")

\* Mutant: the completion is published whatever the finalizers say.
EmitAlways ==
  /\ Live("emit")
  /\ w' = [w EXCEPT !.pc = "returned", !.announced = TRUE]
  /\ UNCHANGED <<disk, src>>

\* emitPersistentCompletion: only after every finalizer has succeeded.
EmitPersistentCompletion ==
  /\ Live("emit")
  /\ w' = [w EXCEPT !.pc = "returned", !.announced = ~w.err]
  /\ UNCHANGED <<disk, src>>

PersistentNext ==
  \/ LiveHold \/ HashPersistentSource \/ PreparePersistentRuntimeIntegrity
  \/ LiveOpenTarget \/ LiveWorkspace \/ LiveMountISO \/ DetectPersistence \/ InspectTree
  \/ HashStableFile \/ PlanPersistentLayout \/ LiveRecheck \/ LiveReview \/ LiveErase
  \/ LiveWipe \/ WritePersistentGPT \/ PersistentRereadPartitionTable
  \/ WaitPersistentPartition \/ UnmountPersistentDeviceMounts \/ OpenPersistentPartition
  \/ LiveFormat \/ LiveUnmountAgain \/ LiveMountBoot \/ ValidateManifestForCopy
  \/ CopyEntry \/ CopyAndVerify \/ PatchBootTree \/ PatchBootConfig \/ PatchOneBootFile
  \/ DetectActivated \/ HashPersistentRuntimeFallback \/ WriteRecord
  \/ InstallPersistentRuntimeIntegrity \/ NoRuntimeIntegrity \/ LiveUmountBoot
  \/ LiveFlushBoot \/ VerifyPersistentPartitionFile \/ VerifyPersistentPartitionGeometry
  \/ ValidateFilesystemPlan \/ VerifyPersistencePartition \/ FormatPersistence
  \/ MountPersistence \/ InitializePersistenceRoot \/ UmountPersistence
  \/ LiveFailPersistence \/ CleanPersistence \/ LiveRecheckCopied \/ LiveFlush
  \/ LiveUmountISO \/ LiveFail \/ LiveFailTorn \/ LiveCleanBoot \/ LiveCleanISO
  \/ LiveCleanWork \/ FinishPersistentFile \/ LiveRelease \/ EmitPersistentCompletion
==============================================================================

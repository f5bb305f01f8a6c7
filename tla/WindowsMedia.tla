----------------------------- MODULE WindowsMedia -----------------------------
(***************************************************************************)
(* Package windowsmedia: installation media from a Windows ISO.  Until     *)
(* "erase" only the image is read, through a read-only loop mount in a     *)
(* private workspace; from there on the target is partitioned, formatted,  *)
(* filled, flushed, read back and checked, and the image hashed again.     *)
(***************************************************************************)
EXTENDS WriteCommand

Win(stage) == At("windows", stage)

-----------------------------------------------------------------------------
(* The image is held, the target locked, the workspace made *)

WinHold == Win("open") /\ AcquireReadLease("hash")

WinHash == Win("hash") /\ HashFirst("target")

WinOpenTarget == Win("target") /\ OpenTarget("work")

\* The workspace must not be on the target.
WinWorkspace ==
  /\ Win("work")
  /\ w' = [w EXCEPT !.pc = "mount-iso", !.work = TRUE]
  /\ UNCHANGED <<disk, src>>

WinMountISO == Win("mount-iso") /\ MountOwn("iso", "inspect")

-----------------------------------------------------------------------------
(* The plan *)

\* Architectures, boot files, payload and sizes of the mounted tree.
InspectMountedISO == Win("inspect") /\ Observe("split-files")

\* Parts of an install image that is split already.
FindExistingSplitFiles == Win("split-files") /\ Observe("capabilities")

\* What the image can boot: the EFI files, and for BIOS the architecture that
\* the WIM headers name.
AnalyzeCapabilities == Win("capabilities") /\ Observe("bios")
BindBIOSMetadata == Win("bios") /\ Observe("layout")

\* Scheme and system must be among them.
ResolveWindowsLayout == Win("layout") /\ Pass("dbx")

\* With a revocation list every EFI file is looked up in it; a revoked one is
\* refused, and the USB said not to be changed.
ScanDBX ==
  /\ Win("dbx")
  /\ \/ Observe("filesystem")
     \/ /\ w' = [w EXCEPT !.pc = "undo", !.err = TRUE, !.claim = "untouched"]
        /\ UNCHANGED <<disk, src>>

\* A tree with names or sizes FAT32 cannot hold gets NTFS.
ValidateFATCompatibility == Win("filesystem") /\ Observe("ca2023")

\* boot.wim is looked into for replacement boot files.
InspectWindowsCA2023Capability == Win("ca2023") /\ Observe("ca2023-stage")

\* They are extracted into the workspace; a revoked one is refused.
StageWindowsCA2023 ==
  /\ Win("ca2023-stage")
  /\ \/ Stage("drivers")
     \/ /\ w' = [w EXCEPT !.pc = "undo", !.err = TRUE, !.claim = "untouched"]
        /\ UNCHANGED <<disk, src>>

NoWindowsCA2023 == Win("ca2023") /\ Pass("drivers")

\* The driver folder is somebody else's and must not be on the target.
InspectDriverFolder == Win("drivers") /\ Pass("answers")

\* The answer file is generated from the setup image's metadata.
PreparePlanAnswerFile == Win("answers") /\ Observe("capacity")
NoAnswerFile == Win("answers") /\ Pass("capacity")

\* What will be copied must not overflow.
FinalizePlan == Win("capacity") /\ Pass("fits")

\* It must fit on the target; only a large image is split.
TargetFits(split) == Win("fits") /\ Pass(IF split THEN "split" ELSE "recheck")

PrepareSplitImage == Win("split") /\ Stage("recheck")

\* Pass 2, or the lease.
WinRecheck == Win("recheck") /\ Recheck("review", "untouched")

-----------------------------------------------------------------------------
(* The target is checked, erased and partitioned *)

\* The command's closure looks at the target once more, by device number.
WinBeforeDestructive ==
  /\ Win("review")
  /\ CheckTarget
  /\ Ask(FALSE, "staging")
  /\ UNCHANGED <<disk, src>>

\* Mutant: targetChanged is set when the table is on the disk.
StagingOnly == Win("staging") /\ Pass("wipe")

\* The staged files still have their digests.  targetChanged is set.
VerifyWindowsCA2023Staging ==
  /\ Win("staging")
  /\ w' = [w EXCEPT !.pc = "wipe", !.touched = TRUE]
  /\ UNCHANGED <<disk, src>>

\* wipefs through the path.
WinWipe == Win("wipe") /\ CheckTarget /\ Wipe("table")

\* The layout is chosen from scheme and filesystem; writeGPT and writeMBR
\* write it through the descriptor, sync it and read it back.
WriteGPT == Win("table") /\ CheckTarget /\ WriteTable("table-check")
WriteMBR == Win("table") /\ CheckTarget /\ WriteTable("boot")

VerifyGPTMetadata == Win("table-check") /\ port = w.fd /\ Held.table = "plan" /\ Pass("boot")

\* The UEFI:NTFS image goes to the second partition, when there is one.
WriteUEFINTFSPartitionImage ==
  /\ Win("boot")
  /\ port = w.fd
  /\ \E boot \in {"none", "image"} :
       w' = [w EXCEPT !.pc = "reread", !.boot = boot, !.changed = @ \cup {w.fd}]
  /\ UNCHANGED <<disk, src>>

\* A refused reread is warned about.
RereadPartitionTable == Win("reread") /\ CheckTarget /\ Reread("partition")

WaitForPartition == Win("partition") /\ CheckTarget /\ WaitPartition("boot-check")

VerifyUEFINTFSPartition ==
  /\ Win("boot-check")
  /\ w.boot = "image" => port = w.fd
  /\ Pass("unmount-new")

UnmountDeviceMounts == Win("unmount-new") /\ UnmountPartition("zero")

\* The full format zeroes the partition, which must be free, and a bad-block
\* check reads it back past the cache.
ZeroPartition ==
  /\ Win("zero")
  /\ CheckTarget
  /\ mounts = {}
  /\ Change("format", [Held EXCEPT !.fs = "none"])

QuickFormat == Win("zero") /\ Pass("format")

VerifyZeroPartition ==
  /\ Win("format")
  /\ CheckTarget
  /\ Held.fs = "none"
  /\ Pass("format")

\* mkfs by path, flushed.
WinFormat == Win("format") /\ MakeFilesystem("label")

\* The label is the reviewed one.
ReadVolumeLabel == Win("label") /\ port = w.fd /\ Pass("legacy")

\* Boot code for BIOS goes through the descriptor and the partition's path.
InstallLegacyBIOSBoot ==
  /\ Win("legacy")
  /\ port = w.fd
  /\ mounts = {}
  /\ Change("unmount-again", Held)

NoLegacyBoot == Win("legacy") /\ Pass("unmount-again")

WinUnmountAgain == Win("unmount-again") /\ UnmountPartition("mount-usb")

-----------------------------------------------------------------------------
(* The files are copied and read back *)

WinMountUSB == Win("mount-usb") /\ MountOwn("target", "copy")

\* ensureOnlyDeviceMount.
OnlyOwnMount == port = w.fd /\ "target" \in w.own /\ mounts = {}

\* It is looked at before the work and every half second during it.
WithExclusiveMount(work) == OnlyOwnMount /\ work

CopyTree == Win("copy") /\ WithExclusiveMount(CopyFiles("copy-image", Bytes))

\* The install image follows, or its staged parts.
CopyImage == Win("copy-image") /\ WithExclusiveMount(CopyFiles("apply", Mixed(w.staged, Bytes)))

\* The staged boot files take the place of copied ones.
ApplyWindowsCA2023 ==
  /\ Win("apply")
  /\ IF w.staged = None THEN Pass("sync")
     ELSE WithExclusiveMount(CopyFiles("sync", w.staged))

\* sync, umount, checkTarget and the flush.
WinUmount == Win("sync") /\ UmountOwn("target", "flush")

\* Staged boot files are read back also when nothing else is.
WinFlush ==
  /\ Win("flush")
  /\ CheckTarget
  /\ \/ ~w.verify /\ Flush("fsck")
     \/ (w.verify \/ w.staged # None) /\ Flush("remount")

WinRemount == Win("remount") /\ CheckTarget /\ MountOwn("target", "verify")

\* Every file against the mounted image and the staged parts.
VerifyTree ==
  /\ Win("verify")
  /\ w.verify
  /\ WithExclusiveMount(Held.fs = Mixed(w.staged, Bytes) /\ Pass("verify-drivers"))

VerifyStagedOnly == Win("verify") /\ ~w.verify /\ Pass("verify-staged")

\* The drivers against their folder.
VerifyDirectory == Win("verify-drivers") /\ WithExclusiveMount(Pass("verify-staged"))

\* The boot files against their staged digests.
VerifyWindowsCA2023 ==
  /\ Win("verify-staged")
  /\ WithExclusiveMount(w.staged = None \/ Held.fs \in {w.staged, "mixed"})
  /\ UmountOwn("target", "fsck")

WinCheckFilesystem == Win("fsck") /\ CheckTarget /\ Pass("recheck-copied")

\* Mutant: the image is not looked at again after the copy.
WinTrustCopy == Win("recheck-copied") /\ Pass("umount-iso")

\* Pass 3, or the lease.
WinRecheckCopied == Win("recheck-copied") /\ Recheck("umount-iso", "incomplete")

WinUmountISO == Win("umount-iso") /\ UmountOwn("iso", "undo")

-----------------------------------------------------------------------------
(* Errors and the deferred functions *)

WinFail == Fail("windows",
  {"open", "hash", "target", "work", "mount-iso", "inspect", "split-files", "capabilities",
   "bios", "layout", "dbx", "filesystem", "ca2023", "ca2023-stage", "drivers", "answers",
   "capacity", "fits", "split", "recheck", "review", "staging", "wipe", "table",
   "table-check", "boot", "reread", "partition", "boot-check", "unmount-new", "zero",
   "format", "label", "legacy", "unmount-again", "mount-usb", "copy", "copy-image", "apply",
   "sync", "flush", "remount", "verify", "verify-drivers", "verify-staged", "fsck",
   "recheck-copied", "umount-iso"})

WinFailTorn == FailTorn("windows", {"wipe", "table", "boot", "zero", "format", "legacy",
                                    "copy", "copy-image", "apply"})

WinCleanUSB == Win("undo") /\ CleanMount("target", "clean-iso")
WinCleanISO == Win("clean-iso") /\ CleanMount("iso", "clean-work")
WinCleanWork == Win("clean-work") /\ CleanWork("close")
FinishWindowsMediaFile == Win("close") /\ CloseTarget("release")
WinRelease == Win("release") /\ FinishLease("returned")

WindowsNext ==
  \/ WinHold \/ WinHash \/ WinOpenTarget \/ WinWorkspace \/ WinMountISO
  \/ InspectMountedISO \/ FindExistingSplitFiles \/ AnalyzeCapabilities
  \/ BindBIOSMetadata \/ ResolveWindowsLayout \/ ScanDBX \/ ValidateFATCompatibility
  \/ InspectWindowsCA2023Capability \/ StageWindowsCA2023 \/ NoWindowsCA2023
  \/ InspectDriverFolder \/ PreparePlanAnswerFile \/ NoAnswerFile \/ FinalizePlan
  \/ (\E split \in BOOLEAN : TargetFits(split))
  \/ PrepareSplitImage \/ WinRecheck \/ WinBeforeDestructive
  \/ VerifyWindowsCA2023Staging \/ WinWipe \/ WriteGPT \/ WriteMBR \/ VerifyGPTMetadata
  \/ WriteUEFINTFSPartitionImage \/ RereadPartitionTable \/ WaitForPartition
  \/ VerifyUEFINTFSPartition \/ UnmountDeviceMounts \/ ZeroPartition \/ QuickFormat
  \/ VerifyZeroPartition \/ WinFormat \/ ReadVolumeLabel \/ InstallLegacyBIOSBoot
  \/ NoLegacyBoot \/ WinUnmountAgain \/ WinMountUSB \/ CopyTree \/ CopyImage
  \/ ApplyWindowsCA2023 \/ WinUmount \/ WinFlush \/ WinRemount \/ VerifyTree
  \/ VerifyStagedOnly \/ VerifyDirectory \/ VerifyWindowsCA2023 \/ WinCheckFilesystem \/ WinRecheckCopied
  \/ WinUmountISO \/ WinFail \/ WinFailTorn \/ WinCleanUSB \/ WinCleanISO \/ WinCleanWork
  \/ FinishWindowsMediaFile \/ WinRelease
==============================================================================

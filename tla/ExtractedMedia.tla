----------------------------- MODULE ExtractedMedia ----------------------------
(***************************************************************************)
(* Package linuxmedia, ISO Image mode: the files of a Linux image on one   *)
(* FAT32 partition, or on an NTFS one beside a UEFI:NTFS boot partition.   *)
(* A pass that only reads may choose between the two.  An image without a  *)
(* UEFI loader lends the one inside its El Torito boot image, which is     *)
(* copied out, mounted over the tree, and copied with it.                  *)
(***************************************************************************)
EXTENDS WriteCommand

Chosen == {"extracted-fat32", "extracted-ntfs"}
Dispatch(stage) == At("extracted", stage)
Fat(stage) == At("extracted-fat32", stage)
Ntfs(stage) == At("extracted-ntfs", stage)

-----------------------------------------------------------------------------
(* Choosing the filesystem *)

\* CreateExtractedSelected, when the user chose.
RequestFilesystem(m) ==
  /\ Dispatch("open")
  /\ w' = [w EXCEPT !.mode = m]
  /\ UNCHANGED <<disk, src>>

\* SelectExtractedFilesystemImage holds, mounts and inspects, and lets go; the
\* target is never opened.
SelectHold == Dispatch("open") /\ AcquireReadLease("select-mount")

SelectMount ==
  /\ Dispatch("select-mount")
  /\ MountOwn("iso", "select-inspect")

ResolveExtractedFilesystem == Dispatch("select-inspect") /\ VerifyPinned /\ Observe("undo")

SelectFail == Fail("extracted", {"open", "select-mount", "select-inspect"})

SelectUmount == Dispatch("undo") /\ CleanMount("iso", "select-remove")

\* The directory is removed whether or not it is still mounted on.
SelectRemove ==
  /\ Dispatch("select-remove")
  /\ w' = [w EXCEPT !.pc = "select-release", !.err = @ \/ w.own # {}]
  /\ UNCHANGED <<disk, src>>

\* The lease is let go before the writer takes its own.
SelectDone(m) ==
  /\ Dispatch("select-release")
  /\ src' = Released
  /\ w' = IF w.err \/ ~LeaseIntact
          THEN [w EXCEPT !.pc = "returned", !.held = "no", !.err = TRUE]
          ELSE [w EXCEPT !.pc = "open", !.mode = m, !.held = "no", !.plan = None]
  /\ UNCHANGED disk

-----------------------------------------------------------------------------
(* The manifest, for both writers *)

Iso(stage) == w.mode \in Chosen /\ w.pc = stage

\* Base tree with its hashes.
PrepareExtractedManifest == Iso("inspect") /\ Observe("overlay")

\* A loader in the tree is enough.
NoOverlay == Iso("overlay") /\ Pass("plan")

\* The catalog of the image names one UEFI entry, of a FAT filesystem.
PlanElToritoUEFIImage == Iso("overlay") /\ Stage("extract")

\* Its sectors are copied out of the held descriptor; what is copied has the
\* planned digest, and so has the catalog afterwards.
ExtractElToritoUEFIImage == Iso("extract") /\ Bytes = w.staged /\ Pass("mount-overlay")

\* The copy is mounted read-only and must be the only thing mounted there; what
\* fails here is undone here, as far as it is known.
MountOverlay == Iso("mount-overlay") /\ MountOwn("overlay", "overlay-mounted")

VerifyReadOnlyLoopFilesystemMount ==
  Iso("overlay-mounted") /\ "overlay" \in w.own /\ Pass("merge")

\* Its tree is inspected and put over the base tree; no path may be in both
\* with other bytes.
MergeManifestOverlay == Iso("merge") /\ "overlay" \in w.own /\ Pass("plan")

\* prepared.Close runs before the workspace is taken down.
CloseOverlay == Iso("undo") /\ CleanMount("overlay", "clean-usb")

\* What FAT32 names, sizes and clusters the files need, and the capacity left.
EstimateFAT32BytesForCluster == Fat("plan") /\ Pass("layout")
PlanExtractedLayoutForScheme == Fat("layout") /\ Pass("capacity")
ValidateExtractedFAT32Capacity == Fat("capacity") /\ Pass("recheck")

\* NTFS: the plan, the asset and the shared layout agree.
PlanExtractedMedia == Ntfs("plan") /\ Pass("locate")
Locate == Ntfs("locate") /\ Pass("open-asset")
OpenVerifiedAsset == Ntfs("open-asset") /\ Pass("layout")
PlanLayoutForProfile == Ntfs("layout") /\ Pass("recheck")

\* CopyAndVerify: every entry lies below a root that was inspected.
ManifestSourcePathAllowed ==
  /\ Iso("validate")
  /\ port = w.fd
  /\ "target" \in w.own
  /\ w.staged # None => "overlay" \in w.own
  /\ Pass("copy")

\* copyEntry: the bytes of the tree and of the overlay must be the manifest's.
CopyManifestFirst(stage) == Bytes = w.plan /\ CopyFiles(stage, Bytes)
CopyManifestRest(stage) == Bytes = w.plan /\ CopyFiles(stage, Mixed(w.staged, Bytes))

-----------------------------------------------------------------------------
(* CreateExtracted: FAT32 *)

FatHold == Fat("open") /\ AcquireReadLease("hash")
FatHash == Fat("hash") /\ HashFirst("target")

\* Five seconds of trying for the lock.
AcquireExtractedTargetLock == Fat("target") /\ OpenTarget("work")

FatWorkspace ==
  /\ Fat("work")
  /\ w' = [w EXCEPT !.pc = "mount-iso", !.work = TRUE]
  /\ UNCHANGED <<disk, src>>

FatMountISO == Fat("mount-iso") /\ MountOwn("iso", "inspect")
FatRecheck == Fat("recheck") /\ Recheck("review", "untouched")

FatReview ==
  /\ Fat("review")
  /\ CheckTarget
  /\ Ask(TRUE, "erase")
  /\ UNCHANGED <<disk, src>>

FatErase ==
  /\ Fat("erase")
  /\ w' = [w EXCEPT !.pc = "wipe", !.touched = TRUE]
  /\ UNCHANGED <<disk, src>>

FatWipe == Fat("wipe") /\ Wipe("table")

\* One sector; or two tables and a protective one, read back at once.
WriteExtractedMBR == Fat("table") /\ CheckTarget /\ WriteTable("reread")
WriteExtractedGPT == Fat("table") /\ CheckTarget /\ WriteTable("verify-table")

VerifyExtractedGPT ==
  /\ Fat("verify-table")
  /\ port = w.fd
  /\ Held.table = "plan"
  /\ Pass("reread")

FatReread == Fat("reread") /\ Reread("partition")
FatPartition == Fat("partition") /\ CheckTarget /\ WaitPartition("unmount-new")
FatUnmount == Fat("unmount-new") /\ UnmountPartition("bind")
FatBind == Fat("bind") /\ port = w.fd /\ parts /\ Pass("format")
FatFormat == Fat("format") /\ MakeFilesystem("unmount-again")
FatUnmountAgain == Fat("unmount-again") /\ UnmountPartition("mount-usb")
FatMountUSB == Fat("mount-usb") /\ MountOwn("target", "validate")
FatCopy == Fat("copy") /\ CopyManifestFirst("copy-rest")
FatCopyRest == Fat("copy-rest") /\ CopyManifestRest("umount-usb")
FatUmountUSB == Fat("umount-usb") /\ UmountOwn("target", "flush")
FatFlush == Fat("flush") /\ Flush("check-fs")
FatCheckFilesystem == Fat("check-fs") /\ port = w.fd /\ Pass("bound")
FatBound == Fat("bound") /\ port = w.fd /\ parts /\ Pass("recheck-copied")
FatRecheckCopied == Fat("recheck-copied") /\ Recheck("flush-disk", "incomplete")
FatFlushDisk == Fat("flush-disk") /\ CheckTarget /\ Flush("umount-iso")
FatUmountISO == Fat("umount-iso") /\ UmountOwn("iso", "complete")

\* The completion is announced here, with the finalizers still to run.
FatComplete ==
  /\ Fat("complete")
  /\ w' = [w EXCEPT !.pc = "undo", !.announced = TRUE]
  /\ UNCHANGED <<disk, src>>

FatCleanUSB == Fat("clean-usb") /\ CleanMount("target", "clean-iso")
FatCleanISO == Fat("clean-iso") /\ CleanMount("iso", "clean-work")
FatCleanWork == Fat("clean-work") /\ CleanWork("close")
FatClose == Fat("close") /\ CloseTarget("release")
FatRelease == Fat("release") /\ FinishLease("returned")

-----------------------------------------------------------------------------
(* CreateExtractedNTFS *)

NtfsHold == Ntfs("open") /\ AcquireReadLease("hash")
NtfsHash == Ntfs("hash") /\ HashFirst("target")
NtfsOpenTarget == Ntfs("target") /\ OpenTarget("work")

NtfsWorkspace ==
  /\ Ntfs("work")
  /\ w' = [w EXCEPT !.pc = "mount-iso", !.work = TRUE]
  /\ UNCHANGED <<disk, src>>

NtfsMountISO == Ntfs("mount-iso") /\ MountOwn("iso", "inspect")

NtfsRecheck == Ntfs("recheck") /\ Recheck("review", "untouched")

NtfsReview ==
  /\ Ntfs("review")
  /\ CheckTarget
  /\ Ask(TRUE, "erase")
  /\ UNCHANGED <<disk, src>>

NtfsErase ==
  /\ Ntfs("erase")
  /\ w' = [w EXCEPT !.pc = "wipe", !.touched = TRUE]
  /\ UNCHANGED <<disk, src>>

NtfsWipe == Ntfs("wipe") /\ Wipe("table")

\* uefintfs.WriteLayout.
WriteMBRLayout == Ntfs("table") /\ CheckTarget /\ WriteTable("boot")
WriteGPTLayout == Ntfs("table") /\ CheckTarget /\ WriteTable("boot")

\* uefintfs.WriteAndVerify puts the boot image in place and reads it back.
WriteAndVerify ==
  /\ Ntfs("boot")
  /\ port = w.fd
  /\ w' = [w EXCEPT !.pc = "reread", !.boot = "image", !.changed = @ \cup {w.fd}]
  /\ UNCHANGED <<disk, src>>

NtfsReread == Ntfs("reread") /\ Reread("partition")
NtfsPartition == Ntfs("partition") /\ CheckTarget /\ WaitPartition("unmount-new")
NtfsUnmount == Ntfs("unmount-new") /\ UnmountPartition("boot-check")

\* uefintfs.VerifyPartitionPath, before and after the files.
VerifyPartitionPath ==
  /\ port = w.fd
  /\ w.boot = "image"
  /\ \/ Ntfs("boot-check") /\ Pass("bind")
     \/ Ntfs("boot-again") /\ Pass("recheck-copied")

NtfsBind == Ntfs("bind") /\ port = w.fd /\ parts /\ Pass("format")
NtfsFormat == Ntfs("format") /\ MakeFilesystem("unmount-again")
NtfsUnmountAgain == Ntfs("unmount-again") /\ UnmountPartition("mount-usb")
NtfsMountUSB == Ntfs("mount-usb") /\ MountOwn("target", "validate")
NtfsCopy == Ntfs("copy") /\ CopyManifestFirst("copy-rest")
NtfsCopyRest == Ntfs("copy-rest") /\ CopyManifestRest("umount-usb")
NtfsUmountUSB == Ntfs("umount-usb") /\ UmountOwn("target", "flush")
NtfsFlush == Ntfs("flush") /\ Flush("check-fs")
NtfsCheckFilesystem == Ntfs("check-fs") /\ port = w.fd /\ Pass("bound")
NtfsBound == Ntfs("bound") /\ port = w.fd /\ parts /\ Pass("boot-again")
NtfsRecheckCopied == Ntfs("recheck-copied") /\ Recheck("flush-disk", "incomplete")
NtfsFlushDisk == Ntfs("flush-disk") /\ CheckTarget /\ Flush("umount-iso")
NtfsUmountISO == Ntfs("umount-iso") /\ UmountOwn("iso", "complete")

NtfsComplete ==
  /\ Ntfs("complete")
  /\ w' = [w EXCEPT !.pc = "undo", !.announced = TRUE]
  /\ UNCHANGED <<disk, src>>

NtfsCleanUSB == Ntfs("clean-usb") /\ CleanMount("target", "clean-iso")
NtfsCleanISO == Ntfs("clean-iso") /\ CleanMount("iso", "clean-work")
NtfsCleanWork == Ntfs("clean-work") /\ CleanWork("close")
NtfsClose == Ntfs("close") /\ CloseTarget("release")
NtfsRelease == Ntfs("release") /\ FinishLease("returned")

-----------------------------------------------------------------------------

IsoFail == \E m \in Chosen : Fail(m,
  {"open", "hash", "target", "work", "mount-iso", "inspect", "overlay", "extract",
   "mount-overlay", "overlay-mounted", "merge", "plan", "layout", "capacity", "locate",
   "open-asset", "recheck", "review", "erase", "wipe", "table", "verify-table", "boot", "reread", "partition",
   "unmount-new", "boot-check", "bind", "format", "unmount-again", "mount-usb", "validate", "copy",
   "copy-rest", "umount-usb", "flush", "check-fs", "bound", "boot-again", "recheck-copied", "flush-disk",
   "umount-iso", "complete"})

IsoFailTorn == \E m \in Chosen :
  FailTorn(m, {"wipe", "table", "boot", "format", "copy", "copy-rest"})

SelectionNext ==
  \/ \E m \in Chosen : RequestFilesystem(m)
  \/ SelectHold \/ SelectMount \/ ResolveExtractedFilesystem \/ SelectFail
  \/ SelectUmount \/ SelectRemove
  \/ \E m \in Chosen : SelectDone(m)

ManifestNext ==
  \/ PrepareExtractedManifest \/ NoOverlay \/ PlanElToritoUEFIImage
  \/ ExtractElToritoUEFIImage \/ MountOverlay \/ VerifyReadOnlyLoopFilesystemMount \/ MergeManifestOverlay
  \/ ManifestSourcePathAllowed \/ CloseOverlay

FatNext ==
  \/ FatHold \/ FatHash \/ AcquireExtractedTargetLock \/ FatWorkspace \/ FatMountISO
  \/ EstimateFAT32BytesForCluster \/ PlanExtractedLayoutForScheme
  \/ ValidateExtractedFAT32Capacity \/ FatRecheck \/ FatReview \/ FatErase \/ FatWipe \/ WriteExtractedMBR
  \/ WriteExtractedGPT \/ VerifyExtractedGPT \/ FatReread \/ FatPartition \/ FatUnmount \/ FatBind \/ FatFormat \/ FatUnmountAgain
  \/ FatMountUSB \/ FatCopy \/ FatCopyRest \/ FatUmountUSB \/ FatFlush
  \/ FatCheckFilesystem \/ FatBound
  \/ FatRecheckCopied \/ FatFlushDisk \/ FatUmountISO \/ FatComplete \/ FatCleanUSB
  \/ FatCleanISO \/ FatCleanWork \/ FatClose \/ FatRelease

NtfsNext ==
  \/ NtfsHold \/ NtfsHash \/ NtfsOpenTarget \/ NtfsWorkspace \/ NtfsMountISO
  \/ PlanExtractedMedia \/ Locate \/ OpenVerifiedAsset \/ PlanLayoutForProfile
  \/ NtfsRecheck \/ NtfsReview \/ NtfsErase \/ NtfsWipe \/ WriteMBRLayout \/ WriteGPTLayout
  \/ WriteAndVerify
  \/ NtfsReread \/ NtfsPartition \/ NtfsUnmount \/ VerifyPartitionPath \/ NtfsBind
  \/ NtfsFormat \/ NtfsUnmountAgain \/ NtfsMountUSB \/ NtfsCopy \/ NtfsCopyRest
  \/ NtfsUmountUSB \/ NtfsFlush \/ NtfsCheckFilesystem \/ NtfsBound \/ NtfsRecheckCopied \/ NtfsFlushDisk
  \/ NtfsUmountISO \/ NtfsComplete \/ NtfsCleanUSB \/ NtfsCleanISO \/ NtfsCleanWork
  \/ NtfsClose \/ NtfsRelease

ExtractedNext == SelectionNext \/ ManifestNext \/ FatNext \/ NtfsNext \/ IsoFail \/ IsoFailTorn
==============================================================================

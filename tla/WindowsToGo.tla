------------------------------ MODULE WindowsToGo ------------------------------
(***************************************************************************)
(* Package windowstogo: one image of a Windows ISO is applied to the       *)
(* unmounted target, and boot files taken from it are put on a boot        *)
(* partition.  The boot manager and the image's metadata are looked at     *)
(* before the target is erased and must be the applied ones.               *)
(***************************************************************************)
EXTENDS WriteCommand

ToGo(stage) == At("windows-to-go", stage)

ToGoHold == ToGo("open") /\ AcquireReadLease("hash")
ToGoHash == ToGo("hash") /\ HashFirst("target")

\* The lock is waited for a little.
ToGoOpenTarget == ToGo("target") /\ OpenTarget("work")

CreateSecureWorkDir ==
  /\ ToGo("work")
  /\ w' = [w EXCEPT !.pc = "mount-iso", !.work = TRUE]
  /\ UNCHANGED <<disk, src>>

ToGoMountISO == ToGo("mount-iso") /\ MountOwn("iso", "loop")

\* findmnt must call the mount a read-only loop.
VerifyReadOnlyLoopMount == ToGo("loop") /\ "iso" \in w.own /\ Pass("inspect")

\* Payload and metadata of the chosen image give the plan.
InspectMountedInstallPayload == ToGo("inspect") /\ Observe("metadata-first")
InspectWIMMetadata == ToGo("metadata-first") /\ Observe("plan")
BuildPlan == ToGo("plan") /\ Pass("tools")

\* The same programs as before, and the sector size that was planned with.
ResolveRequiredTools == ToGo("tools") /\ Pass("sector")
LiveLogicalSectorSize == ToGo("sector") /\ port # None /\ Pass("preflight")

\* The boot manager and the store template are extracted and checked.
PreflightImage == ToGo("preflight") /\ Stage("recheck")

ToGoRecheck == ToGo("recheck") /\ Recheck("metadata", "untouched")

\* The metadata read again is the one of the plan.
ReinspectImage ==
  /\ ToGo("metadata")
  /\ \/ Bytes = w.plan /\ Goto("review")
     \/ Bytes # w.plan /\ w' = [w EXCEPT !.pc = "undo", !.err = TRUE, !.claim = "untouched"]
  /\ UNCHANGED <<disk, src>>

\* VerifyOpenDevice and EnsureNoMountedDescendants, around the command's own check.
Clear == Bound /\ NoneMounted

ToGoReview ==
  /\ ToGo("review")
  /\ Clear
  /\ Ask(FALSE, "erase")
  /\ UNCHANGED <<disk, src>>

ToGoErase ==
  /\ ToGo("erase")
  /\ Clear
  /\ w' = [w EXCEPT !.pc = "wipe", !.touched = TRUE]
  /\ UNCHANGED <<disk, src>>

ToGoWipe == ToGo("wipe") /\ Wipe("table")

\* BuildGPT, WriteGPT: both copies written, synced and read back.
BuildGPT == ToGo("table") /\ Bound /\ Pass("write-table")
ToGoWriteGPT == ToGo("write-table") /\ port = w.fd /\ WriteTable("reread")

\* Eight attempts; here the refusal is an error.
ToGoReread ==
  /\ ToGo("reread")
  /\ port = w.fd
  /\ mounts = {}
  /\ parts' = (Held.table = "plan")
  /\ Goto("partition")
  /\ UNCHANGED <<port, attached, mounts, cache, media, src>>

ToGoWaitForPartition == ToGo("partition") /\ WaitPartition("unmount-new")
UnmountAll == ToGo("unmount-new") /\ UnmountPartition("require")
RequireUnmounted == ToGo("require") /\ port = w.fd /\ mounts = {} /\ Pass("format")

\* Both partitions, flushed and probed.
FormatPartitions == ToGo("format") /\ MakeFilesystem("health")

\* The device number of the path is the expected one.
NewTargetHealthMonitor == ToGo("health") /\ port = w.fd /\ Pass("apply")

\* wimlib writes the volume in place, which nobody may have mounted.
ToGoApply ==
  /\ ToGo("apply")
  /\ port = w.fd
  /\ mounts = {}
  /\ Change("applying", [Held EXCEPT !.fs = Mixed(@, Bytes)])

\* The health monitor stops it when the disk is gone.
RunWIMApply ==
  /\ ToGo("applying")
  /\ port = w.fd
  /\ Change("flush-os", [Held EXCEPT !.fs = Mixed(@, Bytes)])

ToGoFlushOS == ToGo("flush-os") /\ Flush("mount-os")

\* mountPrivate also looks for other mounts.
MountPrivate ==
  \/ ToGo("mount-os") /\ (MountAlone("target", "mount-esp") \/ MountShared("target"))
  \/ ToGo("mount-esp") /\ (MountAlone("esp", "materialize") \/ MountShared("esp"))

-----------------------------------------------------------------------------
(* Materialize: the boot partition is filled from the applied volume *)

BothMounted == port = w.fd /\ {"target", "esp"} \subseteq w.own

MaterializeRoots == ToGo("materialize") /\ BothMounted /\ Pass("copy-boot")

\* Boot files and fonts.
CopyTreeBounded ==
  /\ ToGo("copy-boot")
  /\ BothMounted
  /\ w' = [w EXCEPT !.pc = "fallback", !.boot = Held.fs, !.changed = @ \cup {w.fd}]
  /\ UNCHANGED <<disk, src>>

\* The boot manager is copied to the fallback name, and both are compared.
CopyFallback == ToGo("fallback") /\ BothMounted /\ Pass("fallback-check")
CompareFallback == ToGo("fallback-check") /\ BothMounted /\ Pass("bcd")

\* The store is written from the volume's template, and read back.
CreateBCD == ToGo("bcd") /\ BothMounted /\ Pass("bcd-check")
VerifyBCD == ToGo("bcd-check") /\ BothMounted /\ Pass("answer")

\* The answer file of the plan goes to the Windows volume.
WriteAnswerFile == ToGo("answer") /\ BothMounted /\ Change("same-boot", Held)

\* The boot manager is the one of the preflight (a mixed volume may have either).
CompareBootManager ==
  /\ ToGo("same-boot")
  /\ w.boot \in {w.staged, "mixed"}
  /\ Pass("sync")

SyncFilesystem == ToGo("sync") /\ BothMounted /\ Pass("umount-esp")

ToGoUmountESP == ToGo("umount-esp") /\ UmountOwn("esp", "umount-os")
ToGoUmountOS == ToGo("umount-os") /\ UmountOwn("target", "flush")
ToGoFlush == ToGo("flush") /\ Flush("recheck-applied")
ToGoRecheckApplied == ToGo("recheck-applied") /\ Recheck("remount-os", "incomplete")

ToGoRemount ==
  \/ ToGo("remount-os") /\ (MountAlone("target", "remount-esp") \/ MountShared("target"))
  \/ ToGo("remount-esp") /\ (MountAlone("esp", "verify") \/ MountShared("esp"))

\* Boot files, answer file and store are compared, the Windows tree is not.
CompareTreeBounded == ToGo("verify") /\ BothMounted /\ Pass("verify-answer")

VerifyMaterialization ==
  /\ ToGo("verify-answer")
  /\ BothMounted
  /\ w.boot \in {w.staged, "mixed"}
  /\ Pass("verify-bcd")

VerifyBCDAgain == ToGo("verify-bcd") /\ BothMounted /\ UmountOwn("esp", "umount-verified")

ToGoUmountVerified == ToGo("umount-verified") /\ UmountOwn("target", "probe")

\* fsck, ntfsfix and blkid.
VerifyFilesystemProbe == ToGo("probe") /\ port = w.fd /\ Pass("gpt")

\* The table and both identities; the completion is announced here, with the
\* deferred functions still to run.
VerifyGPTOnDevice ==
  /\ ToGo("gpt")
  /\ Held.table = "plan"
  /\ Bound
  /\ VerifyPinned
  /\ w' = [w EXCEPT !.pc = "undo", !.announced = TRUE]
  /\ UNCHANGED <<disk, src>>

ToGoFail == Fail("windows-to-go",
  {"open", "hash", "target", "work", "mount-iso", "loop", "inspect", "metadata-first",
   "plan", "tools", "sector", "preflight", "recheck", "metadata", "review", "erase", "wipe",
   "table", "write-table", "reread", "partition", "unmount-new", "require", "format",
   "health", "apply", "applying", "flush-os", "mount-os", "mount-esp", "materialize",
   "copy-boot", "fallback", "fallback-check", "bcd", "bcd-check", "answer", "same-boot",
   "sync", "umount-esp", "umount-os", "flush", "recheck-applied", "remount-os",
   "remount-esp", "verify", "verify-answer", "verify-bcd", "umount-verified", "probe",
   "gpt"})

ToGoFailTorn == FailTorn("windows-to-go", {"wipe", "write-table", "format", "apply",
                                           "applying", "answer"})

ToGoCleanESP == ToGo("undo") /\ CleanMount("esp", "clean-os")
ToGoCleanOS == ToGo("clean-os") /\ CleanMount("target", "clean-iso")
ToGoCleanISO == ToGo("clean-iso") /\ CleanMount("iso", "clean-work")
ToGoCleanWork == ToGo("clean-work") /\ CleanWork("close")
ToGoCloseTarget == ToGo("close") /\ CloseTarget("release")
ToGoRelease == ToGo("release") /\ FinishLease("returned")

ToGoNext ==
  \/ ToGoHold \/ ToGoHash \/ ToGoOpenTarget \/ CreateSecureWorkDir \/ ToGoMountISO
  \/ VerifyReadOnlyLoopMount \/ InspectMountedInstallPayload \/ InspectWIMMetadata
  \/ BuildPlan \/ ResolveRequiredTools \/ LiveLogicalSectorSize \/ PreflightImage
  \/ ToGoRecheck \/ ReinspectImage \/ ToGoReview \/ ToGoErase \/ ToGoWipe
  \/ BuildGPT \/ ToGoWriteGPT \/ ToGoReread \/ ToGoWaitForPartition \/ UnmountAll \/ RequireUnmounted
  \/ FormatPartitions \/ NewTargetHealthMonitor \/ ToGoApply \/ RunWIMApply \/ ToGoFlushOS
  \/ MountPrivate \/ MaterializeRoots \/ CopyTreeBounded \/ CopyFallback
  \/ CompareFallback \/ CreateBCD \/ VerifyBCD \/ WriteAnswerFile \/ CompareBootManager
  \/ SyncFilesystem \/ ToGoUmountESP \/ ToGoUmountOS \/ ToGoFlush \/ ToGoRecheckApplied
  \/ ToGoRemount \/ CompareTreeBounded \/ VerifyMaterialization \/ VerifyBCDAgain
  \/ ToGoUmountVerified \/ VerifyFilesystemProbe \/ VerifyGPTOnDevice \/ ToGoFail
  \/ ToGoFailTorn \/ ToGoCleanESP \/ ToGoCleanOS \/ ToGoCleanISO \/ ToGoCleanWork
  \/ ToGoCloseTarget \/ ToGoRelease
==============================================================================

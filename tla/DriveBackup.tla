------------------------------ MODULE DriveBackup ------------------------------
(***************************************************************************)
(* rufusarm64-device-backup and package drivebackup: a whole disk is read  *)
(* into a raw image, or converted by qemu-img into a VHD or VHDX container *)
(* that is compared with the disk again.                                   *)
(***************************************************************************)
EXTENDS CaptureSession

Formats == {"raw", "vhd", "vhdx"}
Backup(stage) == c.format \in Formats /\ c.pc = stage

\* run: the options; a graphical caller may not ask for --no-unmount.
StartBackup(format, noUnmount) ==
  /\ Doing("start")
  /\ c' = [c EXCEPT !.pc = "find", !.format = format, !.noUnmount = noUnmount]
  /\ UNCHANGED <<disk, src, dest>>

FindSource == Backup("find") /\ DiscoverSource("inspect")

\* The reserve a container needs, then the destination.
InspectDestinationForFormat == Backup("inspect") /\ InspectDestination("confirm")

BackupDryRun == Backup("confirm") /\ End("planned")

ConfirmCapture ==
  /\ Backup("confirm")
  /\ c.noUnmount => mounts = {}
  /\ Pass("revalidate")

\* revalidateSource; what it lists is unmounted, and nothing may be left.
BackupRevalidate ==
  /\ Backup("revalidate")
  /\ RevalidateSource
  /\ c' = [c EXCEPT !.pc = "unmount", !.listed = mounts]
  /\ UNCHANGED <<disk, src, dest>>

UnmountSource(from, stage) ==
  /\ Backup(from)
  /\ IF c.noUnmount THEN UNCHANGED mounts ELSE UnmountListed(c.listed)
  /\ c' = [c EXCEPT !.pc = stage, !.listed = {}]
  /\ UNCHANGED <<port, attached, parts, cache, media, src, dest>>

NoMountLeft == Backup("no-mounts") /\ NoneMounted /\ Pass("measure")

-----------------------------------------------------------------------------
(* CaptureDevice *)

MeasureContainer == Backup("measure") /\ Pass("prepare")
BackupDestination == Backup("prepare") /\ PrepareDestination("open")

\* O_EXCL fails while a filesystem of the disk is mounted.
OpenSource ==
  /\ Backup("open")
  /\ NoneMounted
  /\ c' = [c EXCEPT !.pc = "check", !.fd = port]
  /\ UNCHANGED <<disk, src, dest>>

VerifyHeldSource == VerifyOpenDevice(c.fd, Size[c.identity.disk])

\* BeforeRead: the source is looked up once more, now that it is held.
BeforeRead ==
  /\ Backup("check")
  /\ VerifyHeldSource
  /\ RevalidateSource
  /\ c' = [c EXCEPT !.pc = "check-unmount", !.listed = mounts]
  /\ UNCHANGED <<disk, src, dest>>

BeforeReadMounts ==
  /\ Backup("check-mounts")
  /\ NoneMounted
  /\ VerifyHeldSource
  /\ Pass("temporary")

BackupTemporary ==
  /\ Backup("temporary")
  /\ VerifyHeldSource
  /\ c' = [c EXCEPT !.pc = IF c.format = "raw" THEN "copy" ELSE "hash", !.read = Edits]
  /\ dest' = [dest EXCEPT !.temp = TRUE]
  /\ UNCHANGED <<disk, src>>

\* Copy: every chunk is read once, written and hashed.
CopyChunk(part, from, stage) ==
  /\ Backup(from)
  /\ port = c.fd
  /\ WritePart(part, src[part].ver, stage)

CopySync ==
  /\ Backup("copy-sync")
  /\ c' = [c EXCEPT !.pc = "owner", !.synced = TRUE, !.digest = c.image]
  /\ UNCHANGED <<disk, src, dest>>

\* HashExact: the held source from its first byte to its last.
HashExact(part, from, stage) ==
  /\ Backup(from)
  /\ VerifyHeldSource
  /\ c' = [c EXCEPT !.pc = stage,
                    !.digest = IF part = "first" THEN <<src.first.ver, "none">>
                               ELSE <<@[1], src.rest.ver>>]
  /\ UNCHANGED <<disk, src, dest>>

\* qemu-img convert reads the same descriptor again.
ConvertContainer(part, from, stage) ==
  /\ Backup(from)
  /\ VerifyHeldSource
  /\ WritePart(part, src[part].ver, stage)

ConvertSync == Backup("convert-sync") /\ SyncFile("compare")

\* qemu-img compare reads it a third time.
CompareContainer(i, part, from, stage) ==
  /\ Backup(from)
  /\ VerifyHeldSource
  /\ c.image[i] = src[part].ver
  /\ Pass(stage)

\* qemu-img check knows VHDX only; the output is then hashed.
CheckContainer == Backup("consistency") /\ VerifyHeldSource /\ Pass("hash-output")
HashOutput == Backup("hash-output") /\ VerifyHeldSource /\ Pass("output-sync")
OutputSync == Backup("output-sync") /\ VerifyHeldSource /\ SyncFile("owner")

\* The file is given to the desktop user, synced, and closed.
ApplyGraphicalDestinationOwner == Backup("owner") /\ SyncFile("verify")

\* The source is still the same open device, the path still the directory.
VerifyAfterClose == Backup("verify") /\ VerifyHeldSource /\ Pass("path")
BackupRevalidatePath == Backup("path") /\ RevalidateDestination("publish")
PublishNoReplace == Backup("publish") /\ Rename("publish-sync")

\* Before the capture an error only ends the command.
BackupRefuse ==
  /\ c.format \in Formats
  /\ c.pc \in {"find", "inspect", "confirm", "revalidate", "unmount", "no-mounts"}
  /\ End("error")

BackupFail ==
  /\ c.format \in Formats
  /\ FailIn({"measure", "prepare", "open", "check", "check-unmount", "check-mounts",
           "temporary", "copy", "copy-rest", "copy-sync", "hash", "hash-rest", "convert",
           "convert-rest", "convert-sync", "compare", "compare-rest", "consistency",
           "hash-output", "output-sync", "owner", "verify", "path", "publish"})

BackupNext ==
  \/ \E format \in Formats, noUnmount \in BOOLEAN : StartBackup(format, noUnmount)
  \/ FindSource
  \/ InspectDestinationForFormat
  \/ BackupDryRun
  \/ ConfirmCapture
  \/ BackupRevalidate
  \/ UnmountSource("unmount", "no-mounts")
  \/ NoMountLeft
  \/ MeasureContainer
  \/ BackupDestination
  \/ OpenSource
  \/ BeforeRead
  \/ UnmountSource("check-unmount", "check-mounts")
  \/ BeforeReadMounts
  \/ BackupTemporary
  \/ CopyChunk("first", "copy", "copy-rest")
  \/ CopyChunk("rest", "copy-rest", "copy-sync")
  \/ CopySync
  \/ HashExact("first", "hash", "hash-rest")
  \/ HashExact("rest", "hash-rest", "convert")
  \/ ConvertContainer("first", "convert", "convert-rest")
  \/ ConvertContainer("rest", "convert-rest", "convert-sync")
  \/ ConvertSync
  \/ CompareContainer(1, "first", "compare", "compare-rest")
  \/ CompareContainer(2, "rest", "compare-rest", "consistency")
  \/ CheckContainer
  \/ HashOutput
  \/ OutputSync
  \/ ApplyGraphicalDestinationOwner
  \/ VerifyAfterClose
  \/ BackupRevalidatePath
  \/ PublishNoReplace
  \/ BackupRefuse
  \/ BackupFail
==============================================================================

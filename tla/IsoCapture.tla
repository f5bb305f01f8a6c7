------------------------------ MODULE IsoCapture -------------------------------
(***************************************************************************)
(* rufusarm64-device-backup --format iso and package isocapture: the one   *)
(* mounted filesystem of a disk is inventoried, bound read-only into a     *)
(* private workspace, mastered into an image, and the image is mounted and *)
(* compared.  The filesystem stays mounted read-write where it was, so its *)
(* files can change at any time; what is relied on are inventories that    *)
(* agree.                                                                  *)
(***************************************************************************)
EXTENDS CaptureSession

Iso(stage) == c.format = "iso" /\ c.pc = stage

StartISO ==
  /\ Doing("start")
  /\ c' = [c EXCEPT !.pc = "find", !.format = "iso"]
  /\ UNCHANGED <<disk, src, dest>>

\* The disk, and its one mounted filesystem.
SelectISOSource(stage) ==
  /\ mounts = {"media"}
  /\ DiscoverSource(stage)

FindFilesystem == Iso("find") /\ SelectISOSource("plan")

-----------------------------------------------------------------------------
(* Inventories *)

\* BindingSHA256: the mount, and of each file its bytes and its times.
Binding(scan) == scan

\* ContentSHA256: the bytes only.
Content(scan) == Pair(scan)

\* portableContentSHA256 leaves out the sizes of directories.
Portable(scan) == Pair(scan)

\* The files can be read through the mount, or through the view of it, which
\* is a mount of its own and outlives the other one.
Viewing == c.own \cap {"bind", "ro"} # {}
Readable == IF Viewing THEN port = c.identity ELSE mounts = {"media"}
MountId == IF Viewing THEN 0 ELSE src.mount

\* Scan: one file after the other, each of them stable while it is hashed.
ScanFirst(from, stage) ==
  /\ Iso(from)
  /\ Readable
  /\ c' = [c EXCEPT !.pc = stage,
                    !.scan = [mount |-> MountId, first |-> src.first, rest |-> None]]
  /\ UNCHANGED <<disk, src, dest>>

Scanned == [c.scan EXCEPT !.rest = src.rest]
ScanRest(from) == Iso(from) /\ Readable /\ MountId = c.scan.mount

\* InspectFilesystemCapture: the plan that is reviewed.
PlanScanned ==
  /\ ScanRest("plan-rest")
  /\ c' = [c EXCEPT !.pc = "plan-destination", !.plan = Scanned, !.scan = None]
  /\ UNCHANGED <<disk, src, dest>>

InspectFilesystemCapture == Iso("plan-destination") /\ InspectDestination("confirm")

IsoDryRun == Iso("confirm") /\ End("planned")
ConfirmISOCapture == Iso("confirm") /\ Pass("revalidate")

\* The same disk and the same mount point.
RevalidateISOSource ==
  /\ Iso("revalidate")
  /\ RevalidateSource
  /\ mounts = {"media"}
  /\ Pass("view")

-----------------------------------------------------------------------------
(* OpenReadOnlySourceView *)

\* requireExpectedSourceBinding.
ReviewedInventory(scan) == Binding(scan) = Binding(c.plan)

ViewBefore ==
  /\ ScanRest("view-rest")
  /\ ReviewedInventory(Scanned)
  /\ c' = [c EXCEPT !.pc = "workspace", !.scan = None]
  /\ UNCHANGED <<disk, src, dest>>

ViewWorkspace ==
  /\ Iso("workspace")
  /\ c' = [c EXCEPT !.pc = "bind", !.work = {"view"}]
  /\ UNCHANGED <<disk, src, dest>>

\* mount --bind of the held directory, still writable.  When the context ends
\* while it runs, the mount may be there and is not known.
BindView ==
  /\ Iso("bind")
  /\ mounts = {"media"} /\ src.mount = c.plan.mount
  /\ \/ c' = [c EXCEPT !.pc = "remount", !.own = {"bind"}, !.known = {"bind"}]
     \/ c' = [c EXCEPT !.pc = "undo", !.own = {"bind"}, !.cut = TRUE, !.report = "failed"]
  /\ UNCHANGED <<disk, src, dest>>

RemountView ==
  /\ Iso("remount")
  /\ c' = [c EXCEPT !.pc = "view-scan", !.own = {"ro"}, !.known = {"ro"}]
  /\ UNCHANGED <<disk, src, dest>>

\* The view's own inventory, of the same contents.  Its mount is another one,
\* which Master's inventories then agree on.
ViewScanned ==
  /\ ScanRest("view-scan-rest")
  /\ Content(Scanned) = Content(c.plan)
  /\ c' = [c EXCEPT !.pc = "prepare", !.view = Scanned, !.scan = None]
  /\ UNCHANGED <<disk, src, dest>>

-----------------------------------------------------------------------------
(* Destination, Master, VerifyPortableImage *)

PrepareISODestination == Iso("prepare") /\ PrepareDestination("temporary")
IsoTemporary == Iso("temporary") /\ CreateTemporary("provider-plan")

\* The arguments of the provider, for a private file with one link.
BuildProviderPlan == Iso("provider-plan") /\ Pass("private")
ValidatePrivateOutput == Iso("private") /\ dest.temp /\ Pass("master-scan")

\* The files have the view's contents and times.
SameAsView(from, stage) ==
  /\ ScanRest(from)
  /\ Binding(Scanned) = Binding(c.view)
  /\ c' = [c EXCEPT !.pc = stage, !.scan = None]
  /\ UNCHANGED <<disk, src, dest>>

MasterBefore == SameAsView("master-rest", "provider")

\* The provider reads the files and writes the image.
Provide(part, from, stage) ==
  /\ Iso(from)
  /\ port = c.identity
  /\ WritePart(part, src[part].ver, stage)

MasterSync == Iso("master-sync") /\ SyncFile("master-after")
MasterAfter == SameAsView("after-rest", "hash-image")
HashImage == Iso("hash-image") /\ Pass("udf-work")

UDFWorkspace ==
  /\ Iso("udf-work")
  /\ c' = [c EXCEPT !.pc = "udf-mount", !.work = @ \cup {"udf"}]
  /\ UNCHANGED <<disk, src, dest>>

\* The image through a loop device.
OpenReadOnlyUDFMount ==
  /\ Iso("udf-mount")
  /\ \/ c' = [c EXCEPT !.pc = "udf-scan", !.own = @ \cup {"udf"}, !.known = @ \cup {"udf"}]
     \/ c' = [c EXCEPT !.pc = "undo-udf", !.own = @ \cup {"udf"}, !.cut = TRUE,
                       !.report = "failed"]
  /\ UNCHANGED <<disk, src, dest>>

\* What the mounted image holds is what the view held.
ComparePortable ==
  /\ Iso("udf-scan")
  /\ c.image = Portable(c.view)
  /\ Pass("udf-close")

\* Mutant: the flag that the mount is there stays set.
CloseUDFForgotten ==
  /\ Iso("udf-close")
  /\ c' = [c EXCEPT !.pc = "final-scan", !.own = @ \ {"udf"}, !.work = @ \ {"udf"}]
  /\ UNCHANGED <<disk, src, dest>>

\* The session is closed and the image hashed again.
CloseUDF ==
  /\ Iso("udf-close")
  /\ c' = [c EXCEPT !.pc = "final-scan", !.own = @ \ {"udf"}, !.known = @ \ {"udf"},
                    !.work = @ \ {"udf"}]
  /\ UNCHANGED <<disk, src, dest>>

FinalScanned == SameAsView("final-rest", "view-close")

\* view.Close: unmounted, and the workspace removed.
CloseView ==
  /\ Iso("view-close")
  /\ c' = [c EXCEPT !.pc = "owner", !.own = {}, !.known = {}, !.work = {},
                    !.digest = c.image]
  /\ UNCHANGED <<disk, src, dest>>

\* It is tried once only.
CloseViewFails ==
  /\ Iso("view-close")
  /\ c' = [c EXCEPT !.pc = "undo", !.known = {}, !.report = "failed"]
  /\ UNCHANGED <<disk, src, dest>>

ApplyGraphicalISOOwner == Iso("owner") /\ SyncFile("close")
CloseImage == Iso("close") /\ SyncFile("path")
IsoRevalidatePath == Iso("path") /\ NameFree /\ RevalidateDestination("publish")
PublishISONoReplace == Iso("publish") /\ Rename("publish-sync")

-----------------------------------------------------------------------------
(* Errors and the deferred cleanup *)

IsoRefuse ==
  /\ c.format = "iso"
  /\ c.pc \in {"find", "plan", "plan-rest", "plan-destination", "confirm", "revalidate"}
  /\ End("error")

\* An error goes back through what is open: the UDF mount, then the view.
IsoFail ==
  /\ c.format = "iso"
  /\ c.pc \in {"view", "view-rest", "workspace", "bind", "remount", "view-scan",
               "view-scan-rest", "prepare", "temporary", "provider-plan", "private", "master-scan", "master-rest",
               "provider", "provider-rest", "master-sync", "master-after", "after-rest",
               "hash-image", "udf-work", "udf-mount", "udf-scan", "udf-close", "final-scan",
               "final-rest", "owner", "close", "path", "publish"}
  /\ c' = [c EXCEPT !.pc = IF "udf" \in c.work THEN "undo-udf" ELSE "undo", !.scan = None, !.report = "failed"]
  /\ UNCHANGED <<disk, src, dest>>

\* Unmounted and removed; a mount that stays keeps its workspace.  A mount
\* nobody knows of is in the way of the removal.
UndoUDF ==
  /\ Iso("undo-udf")
  /\ \/ /\ c.own \cap {"udf"} \subseteq c.known
        /\ c' = [c EXCEPT !.pc = "undo", !.own = @ \ {"udf"}, !.known = @ \ {"udf"},
                          !.work = @ \ {"udf"}]
     \/ /\ "udf" \in c.own
        /\ c' = [c EXCEPT !.pc = "undo", !.known = @ \ {"udf"}]
  /\ UNCHANGED <<disk, src, dest>>

UndoView ==
  /\ Iso("undo-view")
  /\ \/ /\ c.own \ {"udf"} \subseteq c.known
        /\ c' = [c EXCEPT !.pc = "done", !.own = @ \cap {"udf"}, !.known = {},
                          !.work = @ \ {"view"}]
     \/ /\ c.own \ {"udf"} # {}
        /\ "bind" \notin c.own \ c.known
        /\ c' = [c EXCEPT !.pc = "done", !.known = {}]
  /\ UNCHANGED <<disk, src, dest>>

\* os.RemoveAll of the workspace while the source is mounted in it, writable:
\* the files of the source go, the workspace stays.
RemoveThroughBind ==
  /\ Iso("undo-view")
  /\ "bind" \in c.own \ c.known
  /\ src' = IF port = c.identity
            THEN [src EXCEPT !.first.ver = "gone", !.rest.ver = "gone"] ELSE src
  /\ Proceed("done")
  /\ UNCHANGED <<disk, dest>>

IsoNext ==
  \/ StartISO
  \/ FindFilesystem
  \/ ScanFirst("plan", "plan-rest")
  \/ PlanScanned
  \/ InspectFilesystemCapture
  \/ IsoDryRun
  \/ ConfirmISOCapture
  \/ RevalidateISOSource
  \/ ScanFirst("view", "view-rest")
  \/ ViewBefore
  \/ ViewWorkspace
  \/ BindView
  \/ RemountView
  \/ ScanFirst("view-scan", "view-scan-rest")
  \/ ViewScanned
  \/ PrepareISODestination
  \/ IsoTemporary
  \/ BuildProviderPlan
  \/ ValidatePrivateOutput
  \/ ScanFirst("master-scan", "master-rest")
  \/ MasterBefore
  \/ Provide("first", "provider", "provider-rest")
  \/ Provide("rest", "provider-rest", "master-sync")
  \/ MasterSync
  \/ ScanFirst("master-after", "after-rest")
  \/ MasterAfter
  \/ HashImage
  \/ UDFWorkspace
  \/ OpenReadOnlyUDFMount
  \/ ComparePortable
  \/ CloseUDF
  \/ ScanFirst("final-scan", "final-rest")
  \/ FinalScanned
  \/ CloseView
  \/ CloseViewFails
  \/ ApplyGraphicalISOOwner
  \/ CloseImage
  \/ IsoRevalidatePath
  \/ PublishISONoReplace
  \/ IsoRefuse
  \/ IsoFail
  \/ UndoUDF
  \/ UndoView
  \/ RemoveThroughBind
==============================================================================

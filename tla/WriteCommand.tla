------------------------------ MODULE WriteCommand -----------------------------
(***************************************************************************)
(* The commands in front of the writers: rufus-linux write and the         *)
(* graphical application's Linux media helper.  Both find the target and   *)
(* bind it by identity, have it confirmed, take its mounts down and hand   *)
(* the writer a closure that looks at the target again.  The command line  *)
(* first turns a compressed or virtual image into a private raw file.      *)
(***************************************************************************)
EXTENDS MediaSession

\* The options of a command line are either front end's.
Start(front, noUnmount) ==
  /\ w.pc = "start"
  /\ front = "helper" => ~noUnmount
  /\ w' = [w EXCEPT !.pc = "source", !.front = front, !.mode = "none", !.noUnmount = noUnmount]
  /\ UNCHANGED <<disk, src>>

\* sourcefile.Inspect; the helper is given the identity the application saw.
InspectSource ==
  /\ At("none", "source")
  /\ w' = [w EXCEPT !.pc = "discover", !.pin = [mtime |-> src.mtime, ctime |-> src.ctime]]
  /\ UNCHANGED <<disk, src>>

\* ResolveDevice, Find, ValidateExpectedIdentity, ValidateTarget.
CliDiscover ==
  /\ At("none", "discover")
  /\ w.front = "cli"
  /\ ValidateTarget
  /\ w' = [w EXCEPT !.pc = "prepare", !.identity = port, !.listed = mounts]
  /\ UNCHANGED <<disk, src>>

HelperDiscover(m) ==
  /\ At("none", "discover")
  /\ w.front = "helper"
  /\ ValidateTarget
  /\ Verify
  /\ w' = [w EXCEPT !.pc = "revalidate", !.mode = m, !.identity = port]
  /\ UNCHANGED <<disk, src>>

-----------------------------------------------------------------------------
(* PrepareInputWithOptions *)

Preparing(stage) == At("none", stage)

\* The kind of container, from the first and last bytes.
ProbeInput == Preparing("prepare") /\ Verify /\ Pass("probed")

\* A plain image is used where it is.
PreparePlain ==
  /\ Preparing("probed")
  /\ Verify
  /\ Goto("select")
  /\ UNCHANGED <<disk, src>>

\* Anything else is held while it is read.
PrepareHold == Preparing("probed") /\ AcquireReadLease("prepare-hash")

\* Sequential formats under a lease are hashed while they are read.
PrepareHash(sequential) ==
  /\ Preparing("prepare-hash")
  /\ IF w.held = "lease" /\ sequential
     THEN Goto("prepare-dir")
     ELSE VerifyPinned /\ w' = [w EXCEPT !.pc = "prepare-dir", !.digest = src.ver]
  /\ UNCHANGED <<disk, src>>

\* A private directory, removed again when preparing fails.
PrepareDirectory == Preparing("prepare-dir") /\ Pass("prepare-read")

\* The first bytes go to prepared.raw in it.
PrepareOpen ==
  /\ Preparing("prepare-read")
  /\ w' = [w EXCEPT !.pc = "prepare-rest", !.image = src.ver]
  /\ UNCHANGED <<disk, src>>

\* The rest of them.  What comes out larger than the target is refused.
Expanded ==
  /\ Preparing("prepare-rest")
  /\ w' = [w EXCEPT !.pc = "prepare-check", !.image = Mixed(@, src.ver)]
  /\ UNCHANGED <<disk, src>>

PrepareStream == Expanded
PrepareZIP == Expanded
PrepareExternalDecompress == Expanded
PrepareVirtualDisk == Expanded

\* VerifyPinned, then the lease or a second hash.
PrepareCheck ==
  /\ Preparing("prepare-check")
  /\ VerifyPinned
  /\ IF w.held = "lease" THEN LeaseIntact ELSE src.ver = w.digest
  /\ Goto("prepare-bind")
  /\ UNCHANGED <<disk, src>>

\* The prepared file has its own identity and digest; the lease is checked
\* once more and let go.
PrepareBind ==
  /\ Preparing("prepare-bind")
  /\ LeaseIntact
  /\ src' = Released
  /\ w' = [w EXCEPT !.pc = "select", !.private = TRUE, !.held = "no", !.digest = None]
  /\ UNCHANGED disk

-----------------------------------------------------------------------------
(* The rest of runWrite *)

\* The image is opened, looked at and closed again.
InspectOpenFile == At("none", "select") /\ Verify /\ Pass("mode")

\* What was seen decides which modes are open, and --mode which one is taken.
SelectWriteMode(m, verify) ==
  /\ At("none", "mode")
  /\ w.private \/ w.noUnmount => m \in AllOptions
  /\ w' = [w EXCEPT !.pc = "options", !.mode = m, !.verify = verify]
  /\ UNCHANGED <<disk, src>>

\* The options of every other mode are refused, and a raw image has to fit.
ValidateOptions == w.pc = "options" /\ Pass("confirm")

DryRun ==
  /\ w.pc = "confirm"
  /\ End("planned")

\* The phrase is typed, or --yes given.
ConfirmDestructive ==
  /\ w.pc = "confirm"
  /\ w.noUnmount => w.listed = {}
  /\ Goto("revalidate")
  /\ UNCHANGED <<disk, src>>

\* safety.RevalidateTarget by the selected identity.
RevalidateSelected ==
  /\ w.pc = "revalidate"
  /\ SameIdentity(w.identity)
  /\ ValidateTarget
  /\ w' = [w EXCEPT !.pc = "unmount", !.listed = mounts]
  /\ UNCHANGED <<disk, src>>

\* The mounts of that listing go; runWrite alone does not look for new ones.
UnmountSelected ==
  /\ w.pc = "unmount"
  /\ IF w.noUnmount THEN UNCHANGED mounts ELSE UnmountListed(w.listed)
  /\ w.front # "cli" => mounts' = {}
  /\ w' = [w EXCEPT !.pc = "open", !.listed = {}]
  /\ UNCHANGED <<port, attached, parts, cache, media, src>>

\* targetCheck, as the writer calls it.  The strict one compares the selected
\* identity, the other one the kernel's device number, which is used again.
Ask(strict, ret) ==
  w' = [w EXCEPT !.pc = IF strict \/ w.front = "helper" THEN "ask-strict" ELSE "ask",
                 !.ret = ret]

TargetCheck ==
  /\ w.pc \in {"ask", "ask-strict"}
  /\ w.pc = "ask-strict" => SameIdentity(w.identity)
  /\ ValidateTarget
  /\ w' = [w EXCEPT !.pc = "ask-unmount", !.listed = mounts]
  /\ UNCHANGED <<disk, src>>

TargetCheckUnmount ==
  /\ w.pc = "ask-unmount"
  /\ IF w.noUnmount THEN UNCHANGED mounts ELSE UnmountListed(w.listed)
  /\ w' = [w EXCEPT !.pc = "ask-mounts", !.listed = {}]
  /\ UNCHANGED <<port, attached, parts, cache, media, src>>

TargetCheckMounts ==
  /\ w.pc = "ask-mounts"
  /\ NoneMounted
  /\ w' = [w EXCEPT !.pc = w.ret, !.ret = "none"]
  /\ UNCHANGED <<disk, src>>

\* A refused check is the writer's error.
TargetCheckFails ==
  /\ w.pc \in {"ask", "ask-strict", "ask-unmount", "ask-mounts"}
  /\ w' = [w EXCEPT !.pc = "undo", !.ret = "none", !.listed = {}, !.err = TRUE]
  /\ UNCHANGED <<disk, src>>

\* Before the writer runs an error ends the command; preparation says that the
\* USB was not changed.
Refuse ==
  /\ w.pc \in {"source", "discover", "prepare", "probed", "prepare-hash", "prepare-dir",
               "prepare-read", "prepare-rest", "prepare-check", "prepare-bind", "select",
               "mode", "options", "confirm", "revalidate", "unmount"}
  /\ w' = [w EXCEPT !.pc = "ended", !.status = "refused", !.held = "no",
                    !.claim = IF w.pc \in {"prepare-check", "prepare-bind"}
                              THEN "untouched" ELSE @]
  /\ src' = Released
  /\ UNCHANGED disk

\* The writer has returned: an error is reported, or the table is read again
\* and the completion announced.
Return ==
  /\ w.pc = "returned"
  /\ IF w.err \/ w.mode = "raw"
     THEN w.err /\ End("failed")
     ELSE /\ w' = [w EXCEPT !.pc = "ended", !.status = "ok", !.announced = TRUE]
          /\ UNCHANGED <<disk, src>>

CommandNext ==
  \/ \E front \in {"cli", "helper"}, noUnmount \in BOOLEAN : Start(front, noUnmount)
  \/ InspectSource
  \/ CliDiscover
  \/ \E m \in {"linux-persistent", "extracted"} : HelperDiscover(m)
  \/ ProbeInput
  \/ PreparePlain
  \/ PrepareHold
  \/ \E sequential \in BOOLEAN : PrepareHash(sequential)
  \/ PrepareDirectory
  \/ PrepareOpen
  \/ PrepareStream \/ PrepareZIP \/ PrepareExternalDecompress \/ PrepareVirtualDisk
  \/ PrepareCheck
  \/ PrepareBind
  \/ InspectOpenFile
  \/ \E m \in {"raw", "windows"}, verify \in BOOLEAN : SelectWriteMode(m, verify)
  \/ \E m \in {"windows-to-go", "linux-persistent"} : SelectWriteMode(m, FALSE)
  \/ ValidateOptions
  \/ DryRun
  \/ ConfirmDestructive
  \/ RevalidateSelected
  \/ UnmountSelected
  \/ TargetCheck
  \/ TargetCheckUnmount
  \/ TargetCheckMounts
  \/ TargetCheckFails
  \/ Refuse
  \/ Return
==============================================================================

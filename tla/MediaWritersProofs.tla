--------------------------- MODULE MediaWritersProofs ---------------------------
(***************************************************************************)
(* What the commands that write bootable media promise, for every image,   *)
(* every set of disks and every number of edits and attachments.           *)
(*                                                                         *)
(* One inductive invariant serves all of them.  Its core, PhaseInv, says   *)
(* for each phase of a writer (the target unopened, reviewed, checked for  *)
(* the last time, written, cleaned up, closed) whether it has a descriptor *)
(* and may have changed something; OpenInv what a descriptor stands for    *)
(* while disks are swapped; CleanInv what a stage has mounted, made and    *)
(* held.  Each step of MediaSession is shown once to keep it, under what   *)
(* the stage it goes to expects; the writers are then a walk through their *)
(* stages.  The verdict on a drive has an invariant of its own, VerdictInv,*)
(* that rests on the type of the writer.                                   *)
(***************************************************************************)
EXTENDS MediaWriters, WellFoundedInduction, TLAPS

-----------------------------------------------------------------------------
(* The stages and the fields of a writer.  A step changes few of them: the *)
(* lemmas of this part say, for each set of fields that changes together,  *)
(* that the type is kept and what stays.                                   *)

\* The stages of a look at the target, and the stage that follows it.
Asking == {"ask", "ask-strict", "ask-unmount", "ask-mounts"}
Answers == {"lease", "final", "flush", "staging", "erase", "prepared", "begin", "finished",
            "ready"}

\* All of them, and none.
Returns == Answers \cup {"none"}
\* An image is being expanded into a private file, or nothing has begun.
Preparatory == {"start", "prepare-rest", "prepare-check", "prepare-bind"}
\* The target is not open yet.
UnopenedStages ==
  {"source", "discover", "prepare", "probed", "prepare-hash", "prepare-dir",
   "prepare-read", "select", "mode", "options", "confirm", "revalidate", "unmount", "open",
   "hash", "target", "lease", "loader"} \cup Preparatory
\* It is open, and image and target are looked at.
ReviewStages ==
  {"work", "mount-iso", "inspect", "split-files", "capabilities", "bios", "layout", "dbx",
   "filesystem", "ca2023", "ca2023-stage", "drivers", "answers", "capacity", "fits", "split",
   "recheck", "review", "loop", "metadata-first", "plan", "tools", "sector", "preflight",
   "metadata", "detect", "hash-files", "overlay", "extract", "mount-overlay",
   "overlay-mounted", "merge", "locate", "open-asset", "lock", "prepared", "before"}
\* It has been looked at for the last time.
CheckedStages == {"staging", "erase", "begin", "ready", "clear"}
\* What was mounted, made and opened is let go.
ClosingStages ==
  {"undo", "undo-persist", "clean-iso", "clean-os", "clean-usb", "clean-work", "close"}
\* The target is closed.
ClosedStages == {"release", "emit", "returned", "report", "ended"}

\* The target is written and read back.
WritingStages ==
  {"wipe", "table", "table-check", "verify-table", "write-table", "boot", "reread", "partition",
   "boot-check", "unmount-new", "require", "bind", "zero", "format", "label", "legacy", "health",
   "apply", "applying", "flush-os", "mount-os", "mount-esp", "materialize", "copy-boot",
   "fallback", "fallback-check", "bcd", "bcd-check", "answer", "same-boot", "sync",
   "umount-esp", "umount-os", "flush", "recheck-applied", "remount-os", "remount-esp",
   "verify", "verify-answer", "verify-bcd", "umount-verified", "probe", "gpt",
   "unmount-again", "mount-usb", "mount-boot", "validate", "copy", "copy-image", "copy-rest",
   "remount", "verify-drivers", "verify-staged", "fsck", "umount-usb", "check-fs", "bound",
   "boot-again", "recheck-copied", "flush-disk", "umount-iso", "complete", "compare", "patch",
   "patch-config", "patch-file", "activated", "record", "integrity", "umount-boot",
   "flush-boot", "persist-bind", "persist-plan", "persist-open", "persist-format",
   "persist-mount", "persist-root", "persist-umount", "write", "write-rest", "readback",
   "finish", "finished", "final"}
\* The filesystem of extracted media is chosen.
ChoosingStages == {"select-mount", "select-inspect", "select-remove", "select-release"}
\* Every stage.
Stages == Asking \cup UnopenedStages \cup ReviewStages \cup CheckedStages \cup WritingStages
            \cup ClosingStages \cup ClosedStages \cup ChoosingStages

\* The types of the fields of a writer.
OwnMounts == {"iso", "overlay"} \cup TargetMounts
\* Who called it.
Fronts == {"none", "cli", "helper", "tool"}
\* Its mode.
Kinds == Modes \cup {"none", "extracted"}
\* The times of the image when it was selected.
Pins == [mtime : 0..MaxEdits, ctime : 0..MaxEdits]
\* What a digest can be of.
DigestSet == Digests \cup {None}
\* What can be at the device path.
Ports == Attachments \cup {None}
\* How the image is held.
Helds == {"no", "lease", "passes"}
\* What the boot files come from.
Boots == Contents \cup {"image"}
\* What an error says of the target.
Claims == {"none", "untouched", "incomplete"}
\* What it returns.
Statuses == {"none", "refused", "planned", "ok", "failed"}

\* A writer, whatever its device test.
Writers(test) ==
  [pc : Stages, ret : Returns, front : Fronts, mode : Kinds, verify : BOOLEAN,
   noUnmount : BOOLEAN, pin : Pins, private : BOOLEAN, image : DigestSet,
   digest : DigestSet, plan : DigestSet, staged : DigestSet, held : Helds,
   identity : Ports, listed : SUBSET MountRoots, fd : Ports, work : BOOLEAN,
   own : SUBSET OwnMounts, known : SUBSET OwnMounts, boot : Boots, touched : BOOLEAN,
   changed : SUBSET Attachments, swapped : BOOLEAN, flawed : BOOLEAN, err : BOOLEAN,
   claim : Claims, announced : BOOLEAN, status : Statuses, test : {test}]

\* The type of the writer.
Shape == w \in Writers(w.test)

\* A step keeps who is writing and what was selected.
SameWho ==
  /\ w'.mode = w.mode
  /\ w'.front = w.front
  /\ w'.identity = w.identity

\* It keeps the descriptor.
SameOpen ==
  /\ w'.fd = w.fd
  /\ w'.swapped = w.swapped

\* It keeps what has been changed and what is said of it.
SameDeed ==
  /\ w'.changed = w.changed
  /\ w'.touched = w.touched
  /\ w'.claim = w.claim

\* It keeps mounts and workspace.
SameMounts ==
  /\ w'.own = w.own
  /\ w'.known = w.known
  /\ w'.work = w.work

\* It keeps the hold on the image.
SameLease ==
  /\ w'.held = w.held
  /\ w'.private = w.private

\* It keeps the outcome.
SameEnd ==
  /\ w'.err = w.err
  /\ w'.announced = w.announced
  /\ w'.status = w.status

\* It keeps what was read.
SameData ==
  /\ w'.image = w.image
  /\ w'.digest = w.digest
  /\ w'.plan = w.plan
  /\ w'.staged = w.staged
  /\ w'.flawed = w.flawed
  /\ w'.verify = w.verify
  /\ w'.test = w.test

\* Only the stage.
LEMMA MovesShape ==
  ASSUME Shape, NEW stage \in Stages,
         w' = [w EXCEPT !.pc = stage]
  PROVE  /\ Shape' /\ SameWho /\ SameOpen /\ SameDeed /\ SameMounts /\ SameLease /\ SameEnd
         /\ SameData /\ w'.pc = stage /\ w'.ret = w.ret
<1>1. Shape'
  BY ZenonT(60) DEF Shape, Writers
<1>2. /\ SameWho /\ SameOpen /\ SameDeed /\ SameMounts /\ SameLease /\ SameEnd /\ SameData
  BY <1>1 DEF Shape, Writers, SameWho, SameOpen, SameDeed, SameMounts, SameLease, SameEnd, SameData
<1>3. /\ w'.pc = stage /\ w'.ret = w.ret
  BY <1>1 DEF Shape, Writers
<1> QED BY <1>1, <1>2, <1>3

\* The image is pinned.
LEMMA PinsShape ==
  ASSUME Shape, NEW stage \in Stages, NEW newPin \in Pins,
         w' = [w EXCEPT !.pc = stage, !.pin = newPin]
  PROVE  /\ Shape' /\ SameWho /\ SameOpen /\ SameDeed /\ SameMounts /\ SameLease /\ SameEnd
         /\ SameData /\ w'.pc = stage /\ w'.pin = newPin /\ w'.ret = w.ret
<1>1. Shape'
  BY ZenonT(60) DEF Shape, Writers
<1>2. /\ SameWho /\ SameOpen /\ SameDeed /\ SameMounts /\ SameLease /\ SameEnd /\ SameData
  BY <1>1 DEF Shape, Writers, SameWho, SameOpen, SameDeed, SameMounts, SameLease, SameEnd, SameData
<1>3. /\ w'.pc = stage /\ w'.pin = newPin /\ w'.ret = w.ret
  BY <1>1 DEF Shape, Writers
<1> QED BY <1>1, <1>2, <1>3

\* The target is found.
LEMMA FindsShape ==
  ASSUME Shape, NEW stage \in Stages, NEW newIdentity \in Ports,
         NEW newListed \in SUBSET MountRoots,
         w' = [w EXCEPT !.pc = stage, !.identity = newIdentity, !.listed = newListed]
  PROVE  /\ Shape' /\ SameOpen /\ SameDeed /\ SameMounts /\ SameLease /\ SameEnd /\ SameData
         /\ w'.pc = stage /\ w'.identity = newIdentity /\ w'.listed = newListed
         /\ w'.mode = w.mode /\ w'.front = w.front /\ w'.ret = w.ret
<1>1. Shape'
  BY ZenonT(60) DEF Shape, Writers
<1>2. /\ SameOpen /\ SameDeed /\ SameMounts /\ SameLease /\ SameEnd /\ SameData
  BY <1>1 DEF Shape, Writers, SameOpen, SameDeed, SameMounts, SameLease, SameEnd, SameData
<1>3. /\ w'.pc = stage /\ w'.identity = newIdentity /\ w'.listed = newListed
      /\ w'.mode = w.mode /\ w'.front = w.front /\ w'.ret = w.ret
  BY <1>1 DEF Shape, Writers
<1> QED BY <1>1, <1>2, <1>3

\* The helper names the writer.
LEMMA HandsShape ==
  ASSUME Shape, NEW stage \in Stages, NEW newMode \in Kinds, NEW newIdentity \in Ports,
         w' = [w EXCEPT !.pc = stage, !.mode = newMode, !.identity = newIdentity]
  PROVE  /\ Shape' /\ SameOpen /\ SameDeed /\ SameMounts /\ SameLease /\ SameEnd /\ SameData
         /\ w'.pc = stage /\ w'.mode = newMode /\ w'.identity = newIdentity
         /\ w'.front = w.front /\ w'.ret = w.ret
<1>1. Shape'
  BY ZenonT(60) DEF Shape, Writers
<1>2. /\ SameOpen /\ SameDeed /\ SameMounts /\ SameLease /\ SameEnd /\ SameData
  BY <1>1 DEF Shape, Writers, SameOpen, SameDeed, SameMounts, SameLease, SameEnd, SameData
<1>3. /\ w'.pc = stage /\ w'.mode = newMode /\ w'.identity = newIdentity
      /\ w'.front = w.front /\ w'.ret = w.ret
  BY <1>1 DEF Shape, Writers
<1> QED BY <1>1, <1>2, <1>3

\* The mode is chosen.
LEMMA ChoosesShape ==
  ASSUME Shape, NEW stage \in Stages, NEW newMode \in Kinds, NEW newVerify \in BOOLEAN,
         w' = [w EXCEPT !.pc = stage, !.mode = newMode, !.verify = newVerify]
  PROVE  /\ Shape' /\ SameOpen /\ SameDeed /\ SameMounts /\ SameLease /\ SameEnd
         /\ w'.pc = stage /\ w'.mode = newMode /\ w'.verify = newVerify
         /\ w'.front = w.front /\ w'.identity = w.identity /\ w'.image = w.image
         /\ w'.digest = w.digest /\ w'.plan = w.plan /\ w'.staged = w.staged
         /\ w'.flawed = w.flawed /\ w'.test = w.test /\ w'.ret = w.ret
<1>1. Shape'
  BY ZenonT(60) DEF Shape, Writers
<1>2. /\ SameOpen /\ SameDeed /\ SameMounts /\ SameLease /\ SameEnd
  BY <1>1 DEF Shape, Writers, SameOpen, SameDeed, SameMounts, SameLease, SameEnd
<1>3. /\ w'.pc = stage /\ w'.mode = newMode /\ w'.verify = newVerify
  BY <1>1 DEF Shape, Writers
<1>4. /\ w'.front = w.front /\ w'.identity = w.identity /\ w'.image = w.image
      /\ w'.digest = w.digest /\ w'.plan = w.plan /\ w'.staged = w.staged
      /\ w'.flawed = w.flawed /\ w'.test = w.test /\ w'.ret = w.ret
  BY <1>1 DEF Shape, Writers
<1> QED BY <1>1, <1>2, <1>3, <1>4

\* The extracted writer is chosen.
LEMMA NamesShape ==
  ASSUME Shape, NEW newMode \in Kinds,
         w' = [w EXCEPT !.mode = newMode]
  PROVE  /\ Shape' /\ SameOpen /\ SameDeed /\ SameMounts /\ SameLease /\ SameEnd /\ SameData
         /\ w'.mode = newMode /\ w'.front = w.front /\ w'.identity = w.identity
         /\ w'.pc = w.pc /\ w'.ret = w.ret
<1>1. Shape'
  BY ZenonT(60) DEF Shape, Writers
<1>2. /\ SameOpen /\ SameDeed /\ SameMounts /\ SameLease /\ SameEnd /\ SameData
  BY <1>1 DEF Shape, Writers, SameOpen, SameDeed, SameMounts, SameLease, SameEnd, SameData
<1>3. /\ w'.mode = newMode /\ w'.front = w.front /\ w'.identity = w.identity
      /\ w'.pc = w.pc /\ w'.ret = w.ret
  BY <1>1 DEF Shape, Writers
<1> QED BY <1>1, <1>2, <1>3

\* The image is held.
LEMMA HoldsShape ==
  ASSUME Shape, NEW stage \in Stages, NEW newHeld \in Helds,
         w' = [w EXCEPT !.pc = stage, !.held = newHeld]
  PROVE  /\ Shape' /\ SameWho /\ SameOpen /\ SameDeed /\ SameMounts /\ SameEnd /\ SameData
         /\ w'.pc = stage /\ w'.held = newHeld /\ w'.private = w.private /\ w'.ret = w.ret
<1>1. Shape'
  BY ZenonT(60) DEF Shape, Writers
<1>2. /\ SameWho /\ SameOpen /\ SameDeed /\ SameMounts /\ SameEnd /\ SameData
  BY <1>1 DEF Shape, Writers, SameWho, SameOpen, SameDeed, SameMounts, SameEnd, SameData
<1>3. /\ w'.pc = stage /\ w'.held = newHeld /\ w'.private = w.private /\ w'.ret = w.ret
  BY <1>1 DEF Shape, Writers
<1> QED BY <1>1, <1>2, <1>3

\* A digest is taken.
LEMMA DigestsShape ==
  ASSUME Shape, NEW stage \in Stages, NEW newDigest \in DigestSet,
         w' = [w EXCEPT !.pc = stage, !.digest = newDigest]
  PROVE  /\ Shape' /\ SameWho /\ SameOpen /\ SameDeed /\ SameMounts /\ SameLease /\ SameEnd
         /\ w'.pc = stage /\ w'.digest = newDigest /\ w'.image = w.image /\ w'.plan = w.plan
         /\ w'.staged = w.staged /\ w'.flawed = w.flawed /\ w'.verify = w.verify
         /\ w'.test = w.test /\ w'.ret = w.ret
<1>1. Shape'
  BY ZenonT(60) DEF Shape, Writers
<1>2. /\ SameWho /\ SameOpen /\ SameDeed /\ SameMounts /\ SameLease /\ SameEnd
  BY <1>1 DEF Shape, Writers, SameWho, SameOpen, SameDeed, SameMounts, SameLease, SameEnd
<1>3. /\ w'.pc = stage /\ w'.digest = newDigest
  BY <1>1 DEF Shape, Writers
<1>4. /\ w'.image = w.image /\ w'.plan = w.plan /\ w'.staged = w.staged
      /\ w'.flawed = w.flawed /\ w'.verify = w.verify /\ w'.test = w.test /\ w'.ret = w.ret
  BY <1>1 DEF Shape, Writers
<1> QED BY <1>1, <1>2, <1>3, <1>4

\* Bytes go to the private image.
LEMMA ExpandsShape ==
  ASSUME Shape, NEW stage \in Stages, NEW newImage \in DigestSet,
         w' = [w EXCEPT !.pc = stage, !.image = newImage]
  PROVE  /\ Shape' /\ SameWho /\ SameOpen /\ SameDeed /\ SameMounts /\ SameLease /\ SameEnd
         /\ w'.pc = stage /\ w'.image = newImage /\ w'.digest = w.digest /\ w'.plan = w.plan
         /\ w'.staged = w.staged /\ w'.flawed = w.flawed /\ w'.verify = w.verify
         /\ w'.test = w.test /\ w'.ret = w.ret
<1>1. Shape'
  BY ZenonT(60) DEF Shape, Writers
<1>2. /\ SameWho /\ SameOpen /\ SameDeed /\ SameMounts /\ SameLease /\ SameEnd
  BY <1>1 DEF Shape, Writers, SameWho, SameOpen, SameDeed, SameMounts, SameLease, SameEnd
<1>3. /\ w'.pc = stage /\ w'.image = newImage
  BY <1>1 DEF Shape, Writers
<1>4. /\ w'.digest = w.digest /\ w'.plan = w.plan /\ w'.staged = w.staged
      /\ w'.flawed = w.flawed /\ w'.verify = w.verify /\ w'.test = w.test /\ w'.ret = w.ret
  BY <1>1 DEF Shape, Writers
<1> QED BY <1>1, <1>2, <1>3, <1>4

\* The private image takes the place of the selected one.
LEMMA BindsShape ==
  ASSUME Shape, NEW stage \in Stages, NEW newPrivate \in BOOLEAN, NEW newHeld \in Helds,
         NEW newDigest \in DigestSet,
         w' = [w EXCEPT !.pc = stage, !.private = newPrivate, !.held = newHeld,
                        !.digest = newDigest]
  PROVE  /\ Shape' /\ SameWho /\ SameOpen /\ SameDeed /\ SameMounts /\ SameEnd
         /\ w'.pc = stage /\ w'.private = newPrivate /\ w'.held = newHeld
         /\ w'.digest = newDigest /\ w'.image = w.image /\ w'.plan = w.plan
         /\ w'.staged = w.staged /\ w'.flawed = w.flawed /\ w'.verify = w.verify
         /\ w'.test = w.test /\ w'.ret = w.ret
<1>1. Shape'
  BY ZenonT(60) DEF Shape, Writers
<1>2. /\ SameWho /\ SameOpen /\ SameDeed /\ SameMounts /\ SameEnd
  BY <1>1 DEF Shape, Writers, SameWho, SameOpen, SameDeed, SameMounts, SameEnd
<1>3. /\ w'.pc = stage /\ w'.private = newPrivate /\ w'.held = newHeld
      /\ w'.digest = newDigest
  BY <1>1 DEF Shape, Writers
<1>4. /\ w'.image = w.image /\ w'.plan = w.plan /\ w'.staged = w.staged
      /\ w'.flawed = w.flawed /\ w'.verify = w.verify /\ w'.test = w.test /\ w'.ret = w.ret
  BY <1>1 DEF Shape, Writers
<1> QED BY <1>1, <1>2, <1>3, <1>4

\* Mounts are listed, or forgotten.
LEMMA ListsShape ==
  ASSUME Shape, NEW stage \in Stages, NEW newListed \in SUBSET MountRoots,
         w' = [w EXCEPT !.pc = stage, !.listed = newListed]
  PROVE  /\ Shape' /\ SameWho /\ SameOpen /\ SameDeed /\ SameMounts /\ SameLease /\ SameEnd
         /\ SameData /\ w'.pc = stage /\ w'.listed = newListed /\ w'.ret = w.ret
<1>1. Shape'
  BY ZenonT(60) DEF Shape, Writers
<1>2. /\ SameWho /\ SameOpen /\ SameDeed /\ SameMounts /\ SameLease /\ SameEnd /\ SameData
  BY <1>1 DEF Shape, Writers, SameWho, SameOpen, SameDeed, SameMounts, SameLease, SameEnd, SameData
<1>3. /\ w'.pc = stage /\ w'.listed = newListed /\ w'.ret = w.ret
  BY <1>1 DEF Shape, Writers
<1> QED BY <1>1, <1>2, <1>3

\* The target is to be looked at.
LEMMA AsksShape ==
  ASSUME Shape, NEW stage \in Stages, NEW newRet \in Returns,
         w' = [w EXCEPT !.pc = stage, !.ret = newRet]
  PROVE  /\ Shape' /\ SameWho /\ SameOpen /\ SameDeed /\ SameMounts /\ SameLease /\ SameEnd
         /\ SameData /\ w'.pc = stage /\ w'.ret = newRet
<1>1. Shape'
  BY ZenonT(60) DEF Shape, Writers
<1>2. /\ SameWho /\ SameOpen /\ SameDeed /\ SameMounts /\ SameLease /\ SameEnd /\ SameData
  BY <1>1 DEF Shape, Writers, SameWho, SameOpen, SameDeed, SameMounts, SameLease, SameEnd, SameData
<1>3. /\ w'.pc = stage /\ w'.ret = newRet
  BY <1>1 DEF Shape, Writers
<1> QED BY <1>1, <1>2, <1>3

\* The look is refused.
LEMMA RefusedShape ==
  ASSUME Shape, NEW stage \in Stages, NEW newRet \in Returns,
         NEW newListed \in SUBSET MountRoots, NEW newErr \in BOOLEAN,
         w' = [w EXCEPT !.pc = stage, !.ret = newRet, !.listed = newListed, !.err = newErr]
  PROVE  /\ Shape' /\ SameWho /\ SameOpen /\ SameDeed /\ SameMounts /\ SameLease /\ SameData
         /\ w'.pc = stage /\ w'.ret = newRet /\ w'.listed = newListed /\ w'.err = newErr
         /\ w'.announced = w.announced /\ w'.status = w.status
<1>1. Shape'
  BY ZenonT(60) DEF Shape, Writers
<1>2. /\ SameWho /\ SameOpen /\ SameDeed /\ SameMounts /\ SameLease /\ SameData
  BY <1>1 DEF Shape, Writers, SameWho, SameOpen, SameDeed, SameMounts, SameLease, SameData
<1>3. /\ w'.pc = stage /\ w'.ret = newRet /\ w'.listed = newListed /\ w'.err = newErr
      /\ w'.announced = w.announced /\ w'.status = w.status
  BY <1>1 DEF Shape, Writers
<1> QED BY <1>1, <1>2, <1>3

\* The command ends, announced.
LEMMA AnnouncesShape ==
  ASSUME Shape, NEW stage \in Stages, NEW newStatus \in Statuses,
         NEW newAnnounced \in BOOLEAN,
         w' = [w EXCEPT !.pc = stage, !.status = newStatus, !.announced = newAnnounced]
  PROVE  /\ Shape' /\ SameWho /\ SameOpen /\ SameDeed /\ SameMounts /\ SameLease /\ SameData
         /\ w'.pc = stage /\ w'.status = newStatus /\ w'.announced = newAnnounced
         /\ w'.err = w.err /\ w'.ret = w.ret
<1>1. Shape'
  BY ZenonT(60) DEF Shape, Writers
<1>2. /\ SameWho /\ SameOpen /\ SameDeed /\ SameMounts /\ SameLease /\ SameData
  BY <1>1 DEF Shape, Writers, SameWho, SameOpen, SameDeed, SameMounts, SameLease, SameData
<1>3. /\ w'.pc = stage /\ w'.status = newStatus /\ w'.announced = newAnnounced
      /\ w'.err = w.err /\ w'.ret = w.ret
  BY <1>1 DEF Shape, Writers
<1> QED BY <1>1, <1>2, <1>3

\* The lease is let go.
LEMMA LetsShape ==
  ASSUME Shape, NEW stage \in Stages, NEW newErr \in BOOLEAN, NEW newClaim \in Claims,
         w' = [w EXCEPT !.pc = stage, !.held = "no", !.err = newErr, !.claim = newClaim]
  PROVE  /\ Shape' /\ SameWho /\ SameOpen /\ SameMounts /\ SameData /\ w'.pc = stage
         /\ w'.held = "no" /\ w'.err = newErr /\ w'.claim = newClaim
         /\ w'.changed = w.changed /\ w'.touched = w.touched /\ w'.private = w.private
         /\ w'.announced = w.announced /\ w'.status = w.status /\ w'.ret = w.ret
<1>1. Shape'
  BY ZenonT(60) DEF Shape, Writers, Helds
<1>2. /\ SameWho /\ SameOpen /\ SameMounts /\ SameData
  BY <1>1 DEF Shape, Writers, SameWho, SameOpen, SameMounts, SameData
<1>3. /\ w'.pc = stage /\ w'.held = "no" /\ w'.err = newErr /\ w'.claim = newClaim
  BY <1>1 DEF Shape, Writers
<1>4. /\ w'.changed = w.changed /\ w'.touched = w.touched /\ w'.private = w.private
      /\ w'.announced = w.announced /\ w'.status = w.status /\ w'.ret = w.ret
  BY <1>1 DEF Shape, Writers
<1> QED BY <1>1, <1>2, <1>3, <1>4

\* The choice fails.
LEMMA SpoilsShape ==
  ASSUME Shape, NEW stage \in Stages, NEW newHeld \in Helds, NEW newErr \in BOOLEAN,
         w' = [w EXCEPT !.pc = stage, !.held = newHeld, !.err = newErr]
  PROVE  /\ Shape' /\ SameWho /\ SameOpen /\ SameDeed /\ SameMounts /\ SameData
         /\ w'.pc = stage /\ w'.held = newHeld /\ w'.err = newErr /\ w'.private = w.private
         /\ w'.announced = w.announced /\ w'.status = w.status /\ w'.ret = w.ret
<1>1. Shape'
  BY ZenonT(60) DEF Shape, Writers
<1>2. /\ SameWho /\ SameOpen /\ SameDeed /\ SameMounts /\ SameData
  BY <1>1 DEF Shape, Writers, SameWho, SameOpen, SameDeed, SameMounts, SameData
<1>3. /\ w'.pc = stage /\ w'.held = newHeld /\ w'.err = newErr
  BY <1>1 DEF Shape, Writers
<1>4. /\ w'.private = w.private /\ w'.announced = w.announced /\ w'.status = w.status
      /\ w'.ret = w.ret
  BY <1>1 DEF Shape, Writers
<1> QED BY <1>1, <1>2, <1>3, <1>4

\* An error with a message.
LEMMA SaysShape ==
  ASSUME Shape, NEW stage \in Stages, NEW newClaim \in Claims,
         w' = [w EXCEPT !.pc = stage, !.err = TRUE, !.claim = newClaim]
  PROVE  /\ Shape' /\ SameWho /\ SameOpen /\ SameMounts /\ SameLease /\ SameData
         /\ w'.pc = stage /\ w'.err = TRUE /\ w'.claim = newClaim /\ w'.changed = w.changed
         /\ w'.touched = w.touched /\ w'.announced = w.announced /\ w'.status = w.status
         /\ w'.ret = w.ret
<1>1. Shape'
  BY ZenonT(60) DEF Shape, Writers
<1>2. /\ SameWho /\ SameOpen /\ SameMounts /\ SameLease /\ SameData
  BY <1>1 DEF Shape, Writers, SameWho, SameOpen, SameMounts, SameLease, SameData
<1>3. /\ w'.pc = stage /\ w'.err = TRUE /\ w'.claim = newClaim
  BY <1>1 DEF Shape, Writers
<1>4. /\ w'.changed = w.changed /\ w'.touched = w.touched /\ w'.announced = w.announced
      /\ w'.status = w.status /\ w'.ret = w.ret
  BY <1>1 DEF Shape, Writers
<1> QED BY <1>1, <1>2, <1>3, <1>4

\* An error.
LEMMA ErrsShape ==
  ASSUME Shape, NEW stage \in Stages,
         w' = [w EXCEPT !.pc = stage, !.err = TRUE]
  PROVE  /\ Shape' /\ SameWho /\ SameOpen /\ SameDeed /\ SameMounts /\ SameLease /\ SameData
         /\ w'.pc = stage /\ w'.err = TRUE /\ w'.announced = w.announced
         /\ w'.status = w.status /\ w'.ret = w.ret
<1>1. Shape'
  BY ZenonT(60) DEF Shape, Writers
<1>2. /\ SameWho /\ SameOpen /\ SameDeed /\ SameMounts /\ SameLease /\ SameData
  BY <1>1 DEF Shape, Writers, SameWho, SameOpen, SameDeed, SameMounts, SameLease, SameData
<1>3. /\ w'.pc = stage /\ w'.err = TRUE /\ w'.announced = w.announced
      /\ w'.status = w.status /\ w'.ret = w.ret
  BY <1>1 DEF Shape, Writers
<1> QED BY <1>1, <1>2, <1>3

\* The choice removes its directory.
LEMMA RemovesShape ==
  ASSUME Shape, NEW stage \in Stages, NEW newErr \in BOOLEAN,
         w' = [w EXCEPT !.pc = stage, !.err = newErr]
  PROVE  /\ Shape' /\ SameWho /\ SameOpen /\ SameDeed /\ SameMounts /\ SameLease /\ SameData
         /\ w'.pc = stage /\ w'.err = newErr /\ w'.announced = w.announced
         /\ w'.status = w.status /\ w'.ret = w.ret
<1>1. Shape'
  BY ZenonT(60) DEF Shape, Writers
<1>2. /\ SameWho /\ SameOpen /\ SameDeed /\ SameMounts /\ SameLease /\ SameData
  BY <1>1 DEF Shape, Writers, SameWho, SameOpen, SameDeed, SameMounts, SameLease, SameData
<1>3. /\ w'.pc = stage /\ w'.err = newErr /\ w'.announced = w.announced
      /\ w'.status = w.status /\ w'.ret = w.ret
  BY <1>1 DEF Shape, Writers
<1> QED BY <1>1, <1>2, <1>3

\* A mount is made or taken down.
LEMMA MountsShape ==
  ASSUME Shape, NEW stage \in Stages, NEW newOwn \in SUBSET OwnMounts,
         NEW newKnown \in SUBSET OwnMounts,
         w' = [w EXCEPT !.pc = stage, !.own = newOwn, !.known = newKnown]
  PROVE  /\ Shape' /\ SameWho /\ SameOpen /\ SameDeed /\ SameLease /\ SameEnd /\ SameData
         /\ w'.pc = stage /\ w'.own = newOwn /\ w'.known = newKnown /\ w'.work = w.work
         /\ w'.ret = w.ret
<1>1. Shape'
  BY ZenonT(60) DEF Shape, Writers
<1>2. /\ SameWho /\ SameOpen /\ SameDeed /\ SameLease /\ SameEnd /\ SameData
  BY <1>1 DEF Shape, Writers, SameWho, SameOpen, SameDeed, SameLease, SameEnd, SameData
<1>3. /\ w'.pc = stage /\ w'.own = newOwn /\ w'.known = newKnown /\ w'.work = w.work
      /\ w'.ret = w.ret
  BY <1>1 DEF Shape, Writers
<1> QED BY <1>1, <1>2, <1>3

\* A mount nobody knows of.
LEMMA LosesShape ==
  ASSUME Shape, NEW stage \in Stages, NEW newOwn \in SUBSET OwnMounts,
         w' = [w EXCEPT !.pc = stage, !.err = TRUE, !.own = newOwn]
  PROVE  /\ Shape' /\ SameWho /\ SameOpen /\ SameDeed /\ SameLease /\ SameData
         /\ w'.pc = stage /\ w'.err = TRUE /\ w'.own = newOwn /\ w'.known = w.known
         /\ w'.work = w.work /\ w'.announced = w.announced /\ w'.status = w.status
         /\ w'.ret = w.ret
<1>1. Shape'
  BY ZenonT(60) DEF Shape, Writers
<1>2. /\ SameWho /\ SameOpen /\ SameDeed /\ SameLease /\ SameData
  BY <1>1 DEF Shape, Writers, SameWho, SameOpen, SameDeed, SameLease, SameData
<1>3. /\ w'.pc = stage /\ w'.err = TRUE /\ w'.own = newOwn
  BY <1>1 DEF Shape, Writers
<1>4. /\ w'.known = w.known /\ w'.work = w.work /\ w'.announced = w.announced
      /\ w'.status = w.status /\ w'.ret = w.ret
  BY <1>1 DEF Shape, Writers
<1> QED BY <1>1, <1>2, <1>3, <1>4

\* The target is opened.
LEMMA OpensShape ==
  ASSUME Shape, NEW stage \in Stages, NEW newFd \in Ports, NEW newSwapped \in BOOLEAN,
         w' = [w EXCEPT !.pc = stage, !.fd = newFd, !.swapped = newSwapped]
  PROVE  /\ Shape' /\ SameWho /\ SameDeed /\ SameMounts /\ SameLease /\ SameEnd /\ SameData
         /\ w'.pc = stage /\ w'.fd = newFd /\ w'.swapped = newSwapped /\ w'.ret = w.ret
<1>1. Shape'
  BY ZenonT(60) DEF Shape, Writers
<1>2. /\ SameWho /\ SameDeed /\ SameMounts /\ SameLease /\ SameEnd /\ SameData
  BY <1>1 DEF Shape, Writers, SameWho, SameDeed, SameMounts, SameLease, SameEnd, SameData
<1>3. /\ w'.pc = stage /\ w'.fd = newFd /\ w'.swapped = newSwapped /\ w'.ret = w.ret
  BY <1>1 DEF Shape, Writers
<1> QED BY <1>1, <1>2, <1>3

\* The target is closed.
LEMMA ClosesShape ==
  ASSUME Shape, NEW stage \in Stages, NEW newFd \in Ports, NEW newErr \in BOOLEAN,
         w' = [w EXCEPT !.pc = stage, !.fd = newFd, !.err = newErr]
  PROVE  /\ Shape' /\ SameWho /\ SameDeed /\ SameMounts /\ SameLease /\ SameData
         /\ w'.pc = stage /\ w'.fd = newFd /\ w'.err = newErr /\ w'.swapped = w.swapped
         /\ w'.announced = w.announced /\ w'.status = w.status /\ w'.ret = w.ret
<1>1. Shape'
  BY ZenonT(60) DEF Shape, Writers
<1>2. /\ SameWho /\ SameDeed /\ SameMounts /\ SameLease /\ SameData
  BY <1>1 DEF Shape, Writers, SameWho, SameDeed, SameMounts, SameLease, SameData
<1>3. /\ w'.pc = stage /\ w'.fd = newFd /\ w'.err = newErr
  BY <1>1 DEF Shape, Writers
<1>4. /\ w'.swapped = w.swapped /\ w'.announced = w.announced /\ w'.status = w.status
      /\ w'.ret = w.ret
  BY <1>1 DEF Shape, Writers
<1> QED BY <1>1, <1>2, <1>3, <1>4

\* The target is changed.
LEMMA WritesShape ==
  ASSUME Shape, NEW stage \in Stages, NEW newChanged \in SUBSET Attachments,
         w' = [w EXCEPT !.pc = stage, !.changed = newChanged]
  PROVE  /\ Shape' /\ SameWho /\ SameOpen /\ SameMounts /\ SameLease /\ SameEnd /\ SameData
         /\ w'.pc = stage /\ w'.changed = newChanged /\ w'.touched = w.touched
         /\ w'.claim = w.claim /\ w'.ret = w.ret
<1>1. Shape'
  BY ZenonT(60) DEF Shape, Writers
<1>2. /\ SameWho /\ SameOpen /\ SameMounts /\ SameLease /\ SameEnd /\ SameData
  BY <1>1 DEF Shape, Writers, SameWho, SameOpen, SameMounts, SameLease, SameEnd, SameData
<1>3. /\ w'.pc = stage /\ w'.changed = newChanged /\ w'.touched = w.touched
      /\ w'.claim = w.claim /\ w'.ret = w.ret
  BY <1>1 DEF Shape, Writers
<1> QED BY <1>1, <1>2, <1>3

\* Its boot files are changed.
LEMMA BootsShape ==
  ASSUME Shape, NEW stage \in Stages, NEW newBoot \in Boots,
         NEW newChanged \in SUBSET Attachments,
         w' = [w EXCEPT !.pc = stage, !.boot = newBoot, !.changed = newChanged]
  PROVE  /\ Shape' /\ SameWho /\ SameOpen /\ SameMounts /\ SameLease /\ SameEnd /\ SameData
         /\ w'.pc = stage /\ w'.boot = newBoot /\ w'.changed = newChanged
         /\ w'.touched = w.touched /\ w'.claim = w.claim /\ w'.ret = w.ret
<1>1. Shape'
  BY ZenonT(60) DEF Shape, Writers
<1>2. /\ SameWho /\ SameOpen /\ SameMounts /\ SameLease /\ SameEnd /\ SameData
  BY <1>1 DEF Shape, Writers, SameWho, SameOpen, SameMounts, SameLease, SameEnd, SameData
<1>3. /\ w'.pc = stage /\ w'.boot = newBoot /\ w'.changed = newChanged
      /\ w'.touched = w.touched /\ w'.claim = w.claim /\ w'.ret = w.ret
  BY <1>1 DEF Shape, Writers
<1> QED BY <1>1, <1>2, <1>3

\* A change fails.
LEMMA TearsShape ==
  ASSUME Shape, NEW stage \in Stages, NEW newChanged \in SUBSET Attachments,
         w' = [w EXCEPT !.pc = stage, !.err = TRUE, !.changed = newChanged]
  PROVE  /\ Shape' /\ SameWho /\ SameOpen /\ SameMounts /\ SameLease /\ SameData
         /\ w'.pc = stage /\ w'.err = TRUE /\ w'.changed = newChanged
         /\ w'.touched = w.touched /\ w'.claim = w.claim /\ w'.announced = w.announced
         /\ w'.status = w.status /\ w'.ret = w.ret
<1>1. Shape'
  BY ZenonT(60) DEF Shape, Writers
<1>2. /\ SameWho /\ SameOpen /\ SameMounts /\ SameLease /\ SameData
  BY <1>1 DEF Shape, Writers, SameWho, SameOpen, SameMounts, SameLease, SameData
<1>3. /\ w'.pc = stage /\ w'.err = TRUE /\ w'.changed = newChanged
  BY <1>1 DEF Shape, Writers
<1>4. /\ w'.touched = w.touched /\ w'.claim = w.claim /\ w'.announced = w.announced
      /\ w'.status = w.status /\ w'.ret = w.ret
  BY <1>1 DEF Shape, Writers
<1> QED BY <1>1, <1>2, <1>3, <1>4

\* A change fails that is the first one.
LEMMA TearsFirstShape ==
  ASSUME Shape, NEW stage \in Stages, NEW newChanged \in SUBSET Attachments,
         w' = [w EXCEPT !.pc = stage, !.err = TRUE, !.touched = TRUE, !.changed = newChanged]
  PROVE  /\ Shape' /\ SameWho /\ SameOpen /\ SameMounts /\ SameLease /\ SameData
         /\ w'.pc = stage /\ w'.err = TRUE /\ w'.touched = TRUE /\ w'.changed = newChanged
         /\ w'.claim = w.claim /\ w'.announced = w.announced /\ w'.status = w.status
         /\ w'.ret = w.ret
<1>1. Shape'
  BY ZenonT(60) DEF Shape, Writers
<1>2. /\ SameWho /\ SameOpen /\ SameMounts /\ SameLease /\ SameData
  BY <1>1 DEF Shape, Writers, SameWho, SameOpen, SameMounts, SameLease, SameData
<1>3. /\ w'.pc = stage /\ w'.err = TRUE /\ w'.touched = TRUE /\ w'.changed = newChanged
  BY <1>1 DEF Shape, Writers
<1>4. /\ w'.claim = w.claim /\ w'.announced = w.announced /\ w'.status = w.status
      /\ w'.ret = w.ret
  BY <1>1 DEF Shape, Writers
<1> QED BY <1>1, <1>2, <1>3, <1>4

\* The first change of a raw writer.
LEMMA ClearsShape ==
  ASSUME Shape, NEW stage \in Stages, NEW newChanged \in SUBSET Attachments,
         w' = [w EXCEPT !.pc = stage, !.touched = TRUE, !.changed = newChanged]
  PROVE  /\ Shape' /\ SameWho /\ SameOpen /\ SameMounts /\ SameLease /\ SameEnd /\ SameData
         /\ w'.pc = stage /\ w'.touched = TRUE /\ w'.changed = newChanged
         /\ w'.claim = w.claim /\ w'.ret = w.ret
<1>1. Shape'
  BY ZenonT(60) DEF Shape, Writers
<1>2. /\ SameWho /\ SameOpen /\ SameMounts /\ SameLease /\ SameEnd /\ SameData
  BY <1>1 DEF Shape, Writers, SameWho, SameOpen, SameMounts, SameLease, SameEnd, SameData
<1>3. /\ w'.pc = stage /\ w'.touched = TRUE /\ w'.changed = newChanged
      /\ w'.claim = w.claim /\ w'.ret = w.ret
  BY <1>1 DEF Shape, Writers
<1> QED BY <1>1, <1>2, <1>3

\* The target is about to be changed.
LEMMA TouchesShape ==
  ASSUME Shape, NEW stage \in Stages,
         w' = [w EXCEPT !.pc = stage, !.touched = TRUE]
  PROVE  /\ Shape' /\ SameWho /\ SameOpen /\ SameMounts /\ SameLease /\ SameEnd /\ SameData
         /\ w'.pc = stage /\ w'.touched = TRUE /\ w'.changed = w.changed
         /\ w'.claim = w.claim /\ w'.ret = w.ret
<1>1. Shape'
  BY ZenonT(60) DEF Shape, Writers
<1>2. /\ SameWho /\ SameOpen /\ SameMounts /\ SameLease /\ SameEnd /\ SameData
  BY <1>1 DEF Shape, Writers, SameWho, SameOpen, SameMounts, SameLease, SameEnd, SameData
<1>3. /\ w'.pc = stage /\ w'.touched = TRUE /\ w'.changed = w.changed /\ w'.claim = w.claim
      /\ w'.ret = w.ret
  BY <1>1 DEF Shape, Writers
<1> QED BY <1>1, <1>2, <1>3

\* The image is looked at.
LEMMA PlansShape ==
  ASSUME Shape, NEW stage \in Stages, NEW newPlan \in DigestSet,
         w' = [w EXCEPT !.pc = stage, !.plan = newPlan]
  PROVE  /\ Shape' /\ SameWho /\ SameOpen /\ SameDeed /\ SameMounts /\ SameLease /\ SameEnd
         /\ w'.pc = stage /\ w'.plan = newPlan /\ w'.image = w.image /\ w'.digest = w.digest
         /\ w'.staged = w.staged /\ w'.flawed = w.flawed /\ w'.verify = w.verify
         /\ w'.test = w.test /\ w'.ret = w.ret
<1>1. Shape'
  BY ZenonT(60) DEF Shape, Writers
<1>2. /\ SameWho /\ SameOpen /\ SameDeed /\ SameMounts /\ SameLease /\ SameEnd
  BY <1>1 DEF Shape, Writers, SameWho, SameOpen, SameDeed, SameMounts, SameLease, SameEnd
<1>3. /\ w'.pc = stage /\ w'.plan = newPlan
  BY <1>1 DEF Shape, Writers
<1>4. /\ w'.image = w.image /\ w'.digest = w.digest /\ w'.staged = w.staged
      /\ w'.flawed = w.flawed /\ w'.verify = w.verify /\ w'.test = w.test /\ w'.ret = w.ret
  BY <1>1 DEF Shape, Writers
<1> QED BY <1>1, <1>2, <1>3, <1>4

\* Part of it is put aside.
LEMMA StagesShape ==
  ASSUME Shape, NEW stage \in Stages, NEW newStaged \in DigestSet,
         w' = [w EXCEPT !.pc = stage, !.staged = newStaged]
  PROVE  /\ Shape' /\ SameWho /\ SameOpen /\ SameDeed /\ SameMounts /\ SameLease /\ SameEnd
         /\ w'.pc = stage /\ w'.staged = newStaged /\ w'.image = w.image
         /\ w'.digest = w.digest /\ w'.plan = w.plan /\ w'.flawed = w.flawed
         /\ w'.verify = w.verify /\ w'.test = w.test /\ w'.ret = w.ret
<1>1. Shape'
  BY ZenonT(60) DEF Shape, Writers
<1>2. /\ SameWho /\ SameOpen /\ SameDeed /\ SameMounts /\ SameLease /\ SameEnd
  BY <1>1 DEF Shape, Writers, SameWho, SameOpen, SameDeed, SameMounts, SameLease, SameEnd
<1>3. /\ w'.pc = stage /\ w'.staged = newStaged
  BY <1>1 DEF Shape, Writers
<1>4. /\ w'.image = w.image /\ w'.digest = w.digest /\ w'.plan = w.plan
      /\ w'.flawed = w.flawed /\ w'.verify = w.verify /\ w'.test = w.test /\ w'.ret = w.ret
  BY <1>1 DEF Shape, Writers
<1> QED BY <1>1, <1>2, <1>3, <1>4

\* What is written reaches the medium.
LEMMA FlushesShape ==
  ASSUME Shape, NEW stage \in Stages, NEW newFlawed \in BOOLEAN,
         w' = [w EXCEPT !.pc = stage, !.flawed = newFlawed]
  PROVE  /\ Shape' /\ SameWho /\ SameOpen /\ SameDeed /\ SameMounts /\ SameLease /\ SameEnd
         /\ w'.pc = stage /\ w'.flawed = newFlawed /\ w'.image = w.image
         /\ w'.digest = w.digest /\ w'.plan = w.plan /\ w'.staged = w.staged
         /\ w'.verify = w.verify /\ w'.test = w.test /\ w'.ret = w.ret
<1>1. Shape'
  BY ZenonT(60) DEF Shape, Writers
<1>2. /\ SameWho /\ SameOpen /\ SameDeed /\ SameMounts /\ SameLease /\ SameEnd
  BY <1>1 DEF Shape, Writers, SameWho, SameOpen, SameDeed, SameMounts, SameLease, SameEnd
<1>3. /\ w'.pc = stage /\ w'.flawed = newFlawed
  BY <1>1 DEF Shape, Writers
<1>4. /\ w'.image = w.image /\ w'.digest = w.digest /\ w'.plan = w.plan
      /\ w'.staged = w.staged /\ w'.verify = w.verify /\ w'.test = w.test /\ w'.ret = w.ret
  BY <1>1 DEF Shape, Writers
<1> QED BY <1>1, <1>2, <1>3, <1>4

\* The workspace is made or removed.
LEMMA WorksShape ==
  ASSUME Shape, NEW stage \in Stages, NEW newWork \in BOOLEAN,
         w' = [w EXCEPT !.pc = stage, !.work = newWork]
  PROVE  /\ Shape' /\ SameWho /\ SameOpen /\ SameDeed /\ SameLease /\ SameEnd /\ SameData
         /\ w'.pc = stage /\ w'.work = newWork /\ w'.own = w.own /\ w'.known = w.known
         /\ w'.ret = w.ret
<1>1. Shape'
  BY ZenonT(60) DEF Shape, Writers
<1>2. /\ SameWho /\ SameOpen /\ SameDeed /\ SameLease /\ SameEnd /\ SameData
  BY <1>1 DEF Shape, Writers, SameWho, SameOpen, SameDeed, SameLease, SameEnd, SameData
<1>3. /\ w'.pc = stage /\ w'.work = newWork /\ w'.own = w.own /\ w'.known = w.known
      /\ w'.ret = w.ret
  BY <1>1 DEF Shape, Writers
<1> QED BY <1>1, <1>2, <1>3

\* The completion is announced, or not.
LEMMA PublishesShape ==
  ASSUME Shape, NEW stage \in Stages, NEW newAnnounced \in BOOLEAN,
         w' = [w EXCEPT !.pc = stage, !.announced = newAnnounced]
  PROVE  /\ Shape' /\ SameWho /\ SameOpen /\ SameDeed /\ SameMounts /\ SameLease /\ SameData
         /\ w'.pc = stage /\ w'.announced = newAnnounced /\ w'.err = w.err
         /\ w'.status = w.status /\ w'.ret = w.ret
<1>1. Shape'
  BY ZenonT(60) DEF Shape, Writers
<1>2. /\ SameWho /\ SameOpen /\ SameDeed /\ SameMounts /\ SameLease /\ SameData
  BY <1>1 DEF Shape, Writers, SameWho, SameOpen, SameDeed, SameMounts, SameLease, SameData
<1>3. /\ w'.pc = stage /\ w'.announced = newAnnounced /\ w'.err = w.err
      /\ w'.status = w.status /\ w'.ret = w.ret
  BY <1>1 DEF Shape, Writers
<1> QED BY <1>1, <1>2, <1>3

\* The test goes on.
LEMMA TestsShape ==
  ASSUME Shape, NEW stage \in Stages, NEW newTest,
         w' = [w EXCEPT !.pc = stage, !.test = newTest]
  PROVE  /\ Shape' /\ SameWho /\ SameOpen /\ SameDeed /\ SameMounts /\ SameLease /\ SameEnd
         /\ w'.pc = stage /\ w'.test = newTest /\ w'.image = w.image /\ w'.digest = w.digest
         /\ w'.plan = w.plan /\ w'.staged = w.staged /\ w'.flawed = w.flawed
         /\ w'.verify = w.verify /\ w'.ret = w.ret
<1>1. Shape'
  BY ZenonT(60) DEF Shape, Writers
<1>2. /\ SameWho /\ SameOpen /\ SameDeed /\ SameMounts /\ SameLease /\ SameEnd
  BY <1>1 DEF Shape, Writers, SameWho, SameOpen, SameDeed, SameMounts, SameLease, SameEnd
<1>3. /\ w'.pc = stage /\ w'.test = newTest
  BY <1>1 DEF Shape, Writers
<1>4. /\ w'.image = w.image /\ w'.digest = w.digest /\ w'.plan = w.plan
      /\ w'.staged = w.staged /\ w'.flawed = w.flawed /\ w'.verify = w.verify
      /\ w'.ret = w.ret
  BY <1>1 DEF Shape, Writers
<1> QED BY <1>1, <1>2, <1>3, <1>4

\* The same stage again.
LEMMA TestsOnShape ==
  ASSUME Shape, NEW newTest,
         w' = [w EXCEPT !.test = newTest]
  PROVE  /\ Shape' /\ SameWho /\ SameOpen /\ SameDeed /\ SameMounts /\ SameLease /\ SameEnd
         /\ w'.test = newTest /\ w'.image = w.image /\ w'.digest = w.digest
         /\ w'.plan = w.plan /\ w'.staged = w.staged /\ w'.flawed = w.flawed
         /\ w'.verify = w.verify /\ w'.pc = w.pc /\ w'.ret = w.ret
<1>1. Shape'
  BY ZenonT(60) DEF Shape, Writers
<1>2. /\ SameWho /\ SameOpen /\ SameDeed /\ SameMounts /\ SameLease /\ SameEnd
  BY <1>1 DEF Shape, Writers, SameWho, SameOpen, SameDeed, SameMounts, SameLease, SameEnd
<1>3. /\ w'.test = newTest
  BY <1>1 DEF Shape, Writers
<1>4. /\ w'.image = w.image /\ w'.digest = w.digest /\ w'.plan = w.plan
      /\ w'.staged = w.staged /\ w'.flawed = w.flawed /\ w'.verify = w.verify
      /\ w'.pc = w.pc /\ w'.ret = w.ret
  BY <1>1 DEF Shape, Writers
<1> QED BY <1>1, <1>2, <1>3, <1>4

\* A region is written.
LEMMA FillsShape ==
  ASSUME Shape, NEW stage \in Stages, NEW newChanged \in SUBSET Attachments, NEW newTest,
         w' = [w EXCEPT !.pc = stage, !.changed = newChanged, !.test = newTest]
  PROVE  /\ Shape' /\ SameWho /\ SameOpen /\ SameMounts /\ SameLease /\ SameEnd
         /\ w'.pc = stage /\ w'.changed = newChanged /\ w'.test = newTest
         /\ w'.touched = w.touched /\ w'.claim = w.claim /\ w'.image = w.image
         /\ w'.digest = w.digest /\ w'.plan = w.plan /\ w'.staged = w.staged
         /\ w'.flawed = w.flawed /\ w'.verify = w.verify /\ w'.ret = w.ret
<1>1. Shape'
  BY ZenonT(60) DEF Shape, Writers
<1>2. /\ SameWho /\ SameOpen /\ SameMounts /\ SameLease /\ SameEnd
  BY <1>1 DEF Shape, Writers, SameWho, SameOpen, SameMounts, SameLease, SameEnd
<1>3. /\ w'.pc = stage /\ w'.changed = newChanged /\ w'.test = newTest
  BY <1>1 DEF Shape, Writers
<1>4. /\ w'.touched = w.touched /\ w'.claim = w.claim /\ w'.image = w.image
      /\ w'.digest = w.digest /\ w'.plan = w.plan /\ w'.staged = w.staged
      /\ w'.flawed = w.flawed /\ w'.verify = w.verify /\ w'.ret = w.ret
  BY <1>1 DEF Shape, Writers
<1> QED BY <1>1, <1>2, <1>3, <1>4

\* The test has a verdict.
LEMMA JudgesShape ==
  ASSUME Shape, NEW stage \in Stages, NEW newErr \in BOOLEAN, NEW newTest,
         w' = [w EXCEPT !.pc = stage, !.err = newErr, !.test = newTest]
  PROVE  /\ Shape' /\ SameWho /\ SameOpen /\ SameDeed /\ SameMounts /\ SameLease
         /\ w'.pc = stage /\ w'.err = newErr /\ w'.test = newTest
         /\ w'.announced = w.announced /\ w'.status = w.status /\ w'.image = w.image
         /\ w'.digest = w.digest /\ w'.plan = w.plan /\ w'.staged = w.staged
         /\ w'.flawed = w.flawed /\ w'.verify = w.verify /\ w'.ret = w.ret
<1>1. Shape'
  BY ZenonT(60) DEF Shape, Writers
<1>2. /\ SameWho /\ SameOpen /\ SameDeed /\ SameMounts /\ SameLease
  BY <1>1 DEF Shape, Writers, SameWho, SameOpen, SameDeed, SameMounts, SameLease
<1>3. /\ w'.pc = stage /\ w'.err = newErr /\ w'.test = newTest
  BY <1>1 DEF Shape, Writers
<1>4. /\ w'.announced = w.announced /\ w'.status = w.status /\ w'.image = w.image
      /\ w'.digest = w.digest /\ w'.plan = w.plan /\ w'.staged = w.staged
      /\ w'.flawed = w.flawed /\ w'.verify = w.verify /\ w'.ret = w.ret
  BY <1>1 DEF Shape, Writers
<1> QED BY <1>1, <1>2, <1>3, <1>4

\* The report of a tool.
LEMMA ReportsShape ==
  ASSUME Shape, NEW stage \in Stages, NEW newClaim \in Claims,
         w' = [w EXCEPT !.pc = stage, !.claim = newClaim]
  PROVE  /\ Shape' /\ SameWho /\ SameOpen /\ SameMounts /\ SameLease /\ SameEnd /\ SameData
         /\ w'.pc = stage /\ w'.claim = newClaim /\ w'.changed = w.changed
         /\ w'.touched = w.touched /\ w'.ret = w.ret
<1>1. Shape'
  BY ZenonT(60) DEF Shape, Writers
<1>2. /\ SameWho /\ SameOpen /\ SameMounts /\ SameLease /\ SameEnd /\ SameData
  BY <1>1 DEF Shape, Writers, SameWho, SameOpen, SameMounts, SameLease, SameEnd, SameData
<1>3. /\ w'.pc = stage /\ w'.claim = newClaim /\ w'.changed = w.changed
      /\ w'.touched = w.touched /\ w'.ret = w.ret
  BY <1>1 DEF Shape, Writers
<1> QED BY <1>1, <1>2, <1>3

-----------------------------------------------------------------------------
(* The inductive invariant *)

\* While the target is looked at, the stage that follows counts.
Place == IF w.pc \in Asking THEN w.ret ELSE w.pc

\* A raw writer has closed the target and looks at the medium.
Finishing(mode, stage) == mode = "raw" /\ stage \in {"flush", "verify", "finish"}

\* Before the target is opened; open; confirmed for the last time; being changed; being
\* cleaned up; closed.
Phase(mode, stage) ==
  IF stage \in ClosedStages \/ Finishing(mode, stage) THEN "closed"
  ELSE IF stage \in UnopenedStages \/ mode \in {"none", "extracted"} THEN "unopened"
  ELSE IF stage \in ClosingStages THEN "closing"
  ELSE IF stage \in ReviewStages THEN "reviewing"
  ELSE IF stage \in CheckedStages \/ (mode = "raw" /\ stage = "final") THEN "checked"
  ELSE "writing"

\* The phase of the writer.
Now == Phase(w.mode, Place)

\* The writers whose last look compares identities.
Strict == w.mode = "raw" \/ w.front = "helper"

-----------------------------------------------------------------------------
(* The descriptor and the changes *)

\* Nothing is changed before the target is opened and confirmed, and before the writer
\* counts it as changed.
PhaseInv ==
  /\ w.pc \in Asking => w.ret \in Answers
  /\ Now = "unopened" => w.fd = None /\ w.changed = {}
  /\ Now \in {"reviewing", "checked"} => w.fd # None /\ w.changed = {}
  /\ Now = "writing" => w.fd # None /\ (w.touched \/ w.mode = "qualify")
  /\ Now = "closed" => w.fd = None
  /\ Now \notin {"closing", "closed"} => w.claim = "none"
  /\ Now \in {"checked", "writing"} /\ Strict /\ w.pc # "ask-strict" =>
       w.pc # "ask" /\ w.fd = w.identity

\* While a descriptor is open no other disk takes the path.
OpenInv ==
  w.fd # None =>
    /\ port \in {None, w.fd}
    /\ Size[w.fd.disk] = Size[w.identity.disk]
    /\ w.fd # w.identity => w.swapped
    /\ w.changed \subseteq {w.fd}

\* What has been changed, and what is said of it.
ChangedInv ==
  /\ w.changed # {} => w.touched \/ w.mode = "qualify"
  /\ ClaimHonest
  /\ ErasesReviewed

\* All about the target.
TargetInv == PhaseInv /\ OpenInv /\ ChangedInv

-----------------------------------------------------------------------------
(* Mounts, workspace and lease *)

\* The writers that mount the image and have a workspace.
Builders == {"windows", "windows-to-go", "linux-persistent", "extracted-fat32",
             "extracted-ntfs"}

\* The mounts of a writer.
Own(mode) ==
  IF mode = "windows-to-go" THEN {"iso", "target", "esp"}
  ELSE IF mode \in Chosen THEN {"iso", "overlay", "target"}
  ELSE IF mode \in Builders THEN {"iso", "target"}
  ELSE {}

\* Those that may be left at a stage of a writer that has not failed.
Left(mode, stage) ==
  IF mode = "extracted" THEN (IF stage \in {"select-inspect", "undo"} THEN {"iso"} ELSE {})
  ELSE IF stage \in {"clean-work", "close"} \/ Phase(mode, stage) \in {"unopened", "closed"} THEN {}
  ELSE IF stage = "clean-iso" THEN {"iso"}
  ELSE IF stage \in {"clean-os", "clean-usb"} THEN {"iso", "target"}
  ELSE IF stage \in {"persist-root", "persist-umount", "undo-persist"}
  THEN Own(mode) \cup {"persistence"}
  ELSE Own(mode)

\* Stages without a workspace.
NoWork(mode, stage) ==
  stage = "close" \/ Phase(mode, stage) \in {"closed", "unopened"} \/ mode \notin Builders

\* Stages at which the image is not held.
Freed(mode, stage) ==
  \/ mode \in {"freedos", "qualify"}
  \/ stage \in {"start", "source", "discover", "prepare", "probed", "select", "mode", "options",
                "confirm", "revalidate", "unmount", "open", "lease", "emit", "returned",
                "report"}
  \/ Finishing(mode, stage)

\* Without an error the writer has what its stage says, and at the end nothing.
CleanInv ==
  /\ w.known \subseteq w.own
  /\ ~w.err => /\ w.known = w.own
               /\ w.own \subseteq Left(w.mode, Place)
               /\ NoWork(w.mode, Place) => ~w.work
  /\ Freed(w.mode, Place) => w.held = "no"
  /\ src.lease # "none" => w.held = "lease" /\ ~w.private
  /\ Finishing(w.mode, Place) => ~w.err
  /\ w.status # "none" <=> w.pc = "ended"
  /\ w.announced /\ w.mode \notin Early =>
       w.pc = "ended" \/ (w.pc = "returned" /\ w.mode = "linux-persistent")
  /\ EndsClean

-----------------------------------------------------------------------------

\* A private image has bytes, and no writer is named before the start.
ImageInv ==
  /\ w.private \/ w.pc \in Preparatory \ {"start"} => w.image \in Digests
  /\ w.pc = "start" => w.mode = "none"

\* The type of the image file.
SrcType ==
  src \in [ver : Versions, mtime : 0..MaxEdits, ctime : 0..MaxEdits,
           others : 0..MaxOthers, lease : {"none", "held", "broken"},
           past : SUBSET Versions]

\* The inductive invariant.
Inv == Shape /\ SrcType /\ DiskTypeOK /\ ImageInv /\ TargetInv /\ CleanInv

-----------------------------------------------------------------------------
(* What a step keeps when it leaves the fields an invariant is about *)

\* A stage that promises no more than the present one, or that of an error.
Onward(stage) ==
  /\ stage \in Stages /\ w.pc \notin Asking /\ stage \notin Asking
  /\ w.pc \notin {"returned", "ended"} /\ stage # "ended"
  /\ Phase(w.mode, stage) \in {Phase(w.mode, w.pc), "closing"}
  /\ NoWork(w.mode, stage) => NoWork(w.mode, w.pc)
  /\ Freed(w.mode, stage) => Freed(w.mode, w.pc)
  /\ Finishing(w.mode, stage) => Finishing(w.mode, w.pc)
  /\ stage \notin Preparatory

\* The mounts of the present stage may be left at it.
Carries(stage) == Left(w.mode, w.pc) \subseteq Left(w.mode, stage)

\* A step keeps the target.
SameTarget == SameWho /\ SameOpen /\ SameDeed

\* A step that touches neither target nor descriptor keeps what is known of them.
LEMMA TargetOnward ==
  ASSUME TargetInv, Onward(w'.pc), SameTarget, port' = port
  PROVE  TargetInv'
<1>1. Place = w.pc /\ Place' = w'.pc /\ w'.pc \notin Asking
  BY DEF Place, Onward
<1>2. Now' \in {Now, "closing"} /\ (Strict <=> Strict')
  BY <1>1 DEF Now, Strict, Onward, SameTarget, SameWho
<1>3. PhaseInv'
  BY <1>1, <1>2 DEF TargetInv, PhaseInv, SameTarget, SameWho, SameOpen, SameDeed, Asking, Onward
<1>4. OpenInv' /\ ChangedInv'
  BY DEF TargetInv, OpenInv, ChangedInv, ClaimHonest, ErasesReviewed,
         SameTarget, SameWho, SameOpen, SameDeed
<1> QED BY <1>3, <1>4 DEF TargetInv

\* So does one that changes the target once it counts as changed.
LEMMA TargetChanged ==
  ASSUME TargetInv, Onward(w'.pc), SameWho, SameOpen, port' = port,
         Phase(w.mode, w.pc) = "writing", w'.changed = w.changed \cup {w.fd},
         w'.touched = w.touched, w'.claim = w.claim
  PROVE  TargetInv'
<1>1. Place = w.pc /\ Place' = w'.pc /\ w'.pc \notin Asking /\ w.pc \notin Asking
  BY DEF Place, Onward
<1>2. Now = "writing" /\ Now' \in {Now, "closing"} /\ (Strict <=> Strict')
  BY <1>1 DEF Now, Strict, Onward, SameWho
<1>3. /\ w.fd # None /\ (w.touched \/ w.mode = "qualify") /\ w.claim = "none"
      /\ Strict => w.fd = w.identity
  BY <1>1, <1>2 DEF TargetInv, PhaseInv, Asking
<1>4. PhaseInv'
  BY <1>1, <1>2, <1>3 DEF PhaseInv, SameWho, SameOpen, Asking
<1>5. OpenInv'
  BY <1>3 DEF TargetInv, OpenInv, SameWho, SameOpen
<1>6. w'.changed = {w.fd}
  BY <1>3 DEF TargetInv, OpenInv
<1>7. ErasesReviewed'
  BY <1>3, <1>6 DEF TargetInv, OpenInv, ErasesReviewed, SameWho, SameOpen, Strict
<1>8. ChangedInv'
  BY <1>3, <1>7 DEF ChangedInv, ClaimHonest, SameWho
<1> QED BY <1>4, <1>5, <1>8 DEF TargetInv

\* The writer counts the target as changed, after the last look.
LEMMA TargetTouched ==
  ASSUME TargetInv, w.pc \notin Asking, w'.pc \notin Asking, SameWho, SameOpen, port' = port,
         Phase(w.mode, w.pc) = "checked", Phase(w.mode, w'.pc) \in {"writing", "closing"},
         w'.changed \in {w.changed, w.changed \cup {w.fd}},
         w'.touched = TRUE, w'.claim = w.claim
  PROVE  TargetInv'
<1>1. Place = w.pc /\ Place' = w'.pc
  BY DEF Place
<1>2. Now = "checked" /\ Now' \in {"writing", "closing"} /\ (Strict <=> Strict')
  BY <1>1 DEF Now, Strict, SameWho
<1>3. /\ w.fd # None /\ w.changed = {} /\ w.claim = "none"
      /\ Strict => w.fd = w.identity
  BY <1>1, <1>2 DEF TargetInv, PhaseInv, Asking
<1>4. PhaseInv'
  BY <1>1, <1>2, <1>3 DEF PhaseInv, SameWho, SameOpen, Asking
<1>5. OpenInv'
  BY <1>3 DEF TargetInv, OpenInv, SameWho, SameOpen
<1>6. w'.changed \in {{}, {w.fd}}
  BY <1>3
<1>7. ErasesReviewed'
  BY <1>3, <1>6 DEF TargetInv, OpenInv, ErasesReviewed, SameWho, SameOpen, Strict
<1>8. ChangedInv'
  BY <1>3, <1>7 DEF ChangedInv, ClaimHonest, SameWho
<1> QED BY <1>4, <1>5, <1>8 DEF TargetInv

\* An error may say that the target is untouched while it is.
LEMMA TargetSays ==
  ASSUME TargetInv, Onward(w'.pc), SameWho, SameOpen, port' = port,
         Phase(w.mode, w'.pc) = "closing",
         w'.changed = w.changed, w'.touched = w.touched,
         w'.claim = "untouched" => w.changed = {} \/ w.claim = "untouched"
  PROVE  TargetInv'
<1>1. Place = w.pc /\ Place' = w'.pc /\ w'.pc \notin Asking
  BY DEF Place, Onward
<1>2. Now' = "closing"
  BY <1>1 DEF Now, SameWho
<1>3. PhaseInv'
  BY <1>1, <1>2 DEF PhaseInv
<1>4. OpenInv' /\ ChangedInv'
  BY DEF TargetInv, OpenInv, ChangedInv, ClaimHonest, ErasesReviewed, SameWho, SameOpen
<1> QED BY <1>3, <1>4 DEF TargetInv

\* The same step without error keeps what is known of mounts, workspace and lease.
LEMMA CleanOnward ==
  ASSUME CleanInv, Onward(w'.pc), Carries(w'.pc), SameMounts, SameLease, SameEnd,
         w'.mode = w.mode, src'.lease = src.lease
  PROVE  CleanInv'
<1>1. Place = w.pc /\ Place' = w'.pc
  BY DEF Place, Onward
<1>2. w.status = "none" /\ (w.announced => w.mode \in Early)
  BY DEF CleanInv, Onward
<1>3. EndsClean'
  BY <1>2 DEF EndsClean, SameEnd
<1> QED
  BY <1>1, <1>2, <1>3 DEF CleanInv, Onward, Carries, SameMounts, SameLease, SameEnd

\* A mount that may be left at the next stage is added.
LEMMA CleanMounted ==
  ASSUME CleanInv, Onward(w'.pc), Carries(w'.pc), NEW m \in Left(w.mode, w'.pc),
         w'.own = w.own \cup {m}, w'.known = w.known \cup {m}, w'.work = w.work,
         SameLease, SameEnd, w'.mode = w.mode, src'.lease = src.lease
  PROVE  CleanInv'
<1>1. Place = w.pc /\ Place' = w'.pc
  BY DEF Place, Onward
<1>2. w.status = "none" /\ (w.announced => w.mode \in Early)
  BY DEF CleanInv, Onward
<1>3. EndsClean'
  BY <1>2 DEF EndsClean, SameEnd
<1> QED
  BY <1>1, <1>2, <1>3 DEF CleanInv, Onward, Carries, SameLease, SameEnd

\* One is taken down.
LEMMA CleanUnmounted ==
  ASSUME CleanInv, Onward(w'.pc), NEW m, Left(w.mode, w.pc) \ {m} \subseteq Left(w.mode, w'.pc),
         w'.own = w.own \ {m}, w'.known = w.known \ {m}, w'.work = w.work,
         SameLease, SameEnd, w'.mode = w.mode, src'.lease = src.lease
  PROVE  CleanInv'
<1>1. Place = w.pc /\ Place' = w'.pc
  BY DEF Place, Onward
<1>2. w.status = "none" /\ (w.announced => w.mode \in Early)
  BY DEF CleanInv, Onward
<1>3. EndsClean'
  BY <1>2 DEF EndsClean, SameEnd
<1> QED
  BY <1>1, <1>2, <1>3 DEF CleanInv, Onward, SameLease, SameEnd

\* After an error anything may be left.
LEMMA CleanFailed ==
  ASSUME CleanInv, Onward(w'.pc), ~Finishing(w.mode, w'.pc), w'.err = TRUE,
         w'.known \subseteq w'.own, SameLease,
         w'.announced = w.announced, w'.status = w.status,
         w'.mode = w.mode, src'.lease = src.lease
  PROVE  CleanInv'
<1>1. Place = w.pc /\ Place' = w'.pc
  BY DEF Place, Onward
<1>2. w.status = "none" /\ (w.announced => w.mode \in Early)
  BY DEF CleanInv, Onward
<1>3. EndsClean'
  BY <1>2 DEF EndsClean
<1> QED
  BY <1>1, <1>2, <1>3 DEF CleanInv, Onward, SameLease

\* The private image stays what it is.
LEMMA ImageKept ==
  ASSUME ImageInv, w'.pc \notin Preparatory, w'.private = w.private, w'.image = w.image
  PROVE  ImageInv'
BY DEF ImageInv, Preparatory

-----------------------------------------------------------------------------
(* The steps the writers share *)

\* What is read of the image is one of its contents.
LEMMA BytesRead ==
  ASSUME Inv
  PROVE  /\ Bytes \in Digests /\ Bytes \in DigestSet /\ Bytes \in Contents
         /\ Digests \subseteq Contents
         /\ src.ver \in Digests
<1>1. Digests \subseteq Contents
  BY ContentAssumption DEF Digests, Contents
<1>2. src.ver \in Digests
  BY DEF Inv, SrcType, Digests
<1>3. w.private => w.image \in Digests
  BY DEF Inv, ImageInv
<1> QED BY <1>1, <1>2, <1>3 DEF Bytes, DigestSet

\* Nothing but the writer changes.
LEMMA Quiet ==
  ASSUME Inv, UNCHANGED <<disk, src>>
  PROVE  SrcType' /\ DiskTypeOK' /\ port' = port /\ src' = src
BY DEF Inv, SrcType, DiskTypeOK, disk

\* Two versions make one of the contents.
LEMMA MixedContent ==
  ASSUME NEW old, NEW new \in Digests
  PROVE  Mixed(old, new) \in Digests
BY DEF Mixed, Digests

\* A step of the disk that moves the writer to the next stage.
LEMMA GotoStep ==
  ASSUME Inv, NEW s, Onward(s), Carries(s), Goto(s), port' = port, DiskTypeOK', src' = src
  PROVE  Inv'
<1>1. s \in Stages BY DEF Onward
<1>2. /\ Shape' /\ SameWho /\ SameOpen /\ SameDeed /\ SameMounts /\ SameLease /\ SameEnd
      /\ SameData /\ w'.pc = s
  BY <1>1, MovesShape DEF Inv, Goto
<1>3. TargetInv'
  BY <1>2, TargetOnward DEF Inv, SameTarget
<1>4. CleanInv'
  BY <1>2, CleanOnward DEF Inv, SameWho
<1>5. ImageInv'
  BY <1>2, ImageKept DEF Inv, Onward, SameLease, SameData
<1> QED BY <1>2, <1>3, <1>4, <1>5 DEF Inv, SrcType

\* The writer looks at something and goes on.
LEMMA PassStep ==
  ASSUME Inv, NEW s, Onward(s), Carries(s), Pass(s)
  PROVE  Inv'
BY Quiet, GotoStep DEF Pass

\* The writer has failed.
LEMMA ErrStep ==
  ASSUME Inv, NEW s, Onward(s), ~Finishing(w.mode, s),
         w' = [w EXCEPT !.pc = s, !.err = TRUE], UNCHANGED <<disk, src>>
  PROVE  Inv'
<1>1. s \in Stages BY DEF Onward
<1>2. /\ Shape' /\ SameWho /\ SameOpen /\ SameDeed /\ SameMounts /\ SameLease /\ SameData
      /\ w'.pc = s /\ w'.err = TRUE /\ w'.announced = w.announced /\ w'.status = w.status
  BY <1>1, ErrsShape, Zenon DEF Inv
<1>3. TargetInv'
  BY <1>2, TargetOnward, Quiet DEF Inv, SameTarget
<1>4. CleanInv'
  <2>1. w'.known \subseteq w'.own
    BY <1>2 DEF Inv, CleanInv, SameMounts
  <2> QED BY <1>2, <2>1, CleanFailed, Quiet DEF Inv, SameWho
<1>5. ImageInv'
  BY <1>2, ImageKept DEF Inv, Onward, SameLease, SameData
<1> QED BY <1>2, <1>3, <1>4, <1>5, Quiet DEF Inv

\* It has failed and says what of the target.
LEMMA SaysStep ==
  ASSUME Inv, NEW s, Onward(s), ~Finishing(w.mode, s), Phase(w.mode, s) = "closing",
         NEW message \in Claims, message = "untouched" => w.changed = {} \/ w.claim = "untouched",
         w' = [w EXCEPT !.pc = s, !.err = TRUE, !.claim = message], UNCHANGED <<disk, src>>
  PROVE  Inv'
<1>1. s \in Stages BY DEF Onward
<1>2. /\ Shape' /\ SameWho /\ SameOpen /\ SameMounts /\ SameLease /\ SameData
      /\ w'.pc = s /\ w'.err = TRUE /\ w'.announced = w.announced /\ w'.status = w.status
      /\ w'.claim = message /\ w'.touched = w.touched /\ w'.changed = w.changed
  BY <1>1, SaysShape, Zenon DEF Inv
<1>3. TargetInv'
  BY <1>2, TargetSays, Quiet DEF Inv, SameWho
<1>4. CleanInv'
  <2>1. w'.known \subseteq w'.own
    BY <1>2 DEF Inv, CleanInv, SameMounts
  <2> QED BY <1>2, <2>1, CleanFailed, Quiet DEF Inv, SameWho
<1>5. ImageInv'
  BY <1>2, ImageKept DEF Inv, Onward, SameLease, SameData
<1> QED BY <1>2, <1>3, <1>4, <1>5, Quiet DEF Inv

\* A second look at the image; what its failure says is true of the target.
LEMMA RecheckStep ==
  ASSUME Inv, NEW s, Onward(s), Carries(s), NEW message \in {"untouched", "incomplete"},
         Onward("undo"), Phase(w.mode, "undo") = "closing",
         message = "untouched" => Phase(w.mode, w.pc) = "reviewing",
         Recheck(s, message)
  PROVE  Inv'
<1>1. CASE Goto(s)
  BY <1>1, PassStep DEF Recheck, Pass
<1>2. CASE w' = [w EXCEPT !.pc = "undo", !.err = TRUE,
                          !.claim = IF VerifyPinned THEN message ELSE w.claim]
  <2> DEFINE said == IF VerifyPinned THEN message ELSE w.claim
  <2>1. said \in Claims
    BY DEF Inv, Shape, Writers, Claims
  <2>2. message = "untouched" => w.changed = {}
    BY DEF Inv, TargetInv, PhaseInv, Now, Place, Onward
  <2>3. ~Finishing(w.mode, "undo")
    BY DEF Finishing
  <2>4. said = "untouched" => w.changed = {} \/ w.claim = "untouched"
    BY <2>2
  <2> HIDE DEF said
  <2>5. w' = [w EXCEPT !.pc = "undo", !.err = TRUE, !.claim = said]
    BY <1>2 DEF said
  <2> QED BY <2>1, <2>3, <2>4, <2>5, SaysStep, Zenon DEF Recheck
<1> QED BY <1>1, <1>2 DEF Recheck

\* The image is hashed.
LEMMA HashStep ==
  ASSUME Inv, NEW s, Onward(s), Carries(s), HashFirst(s)
  PROVE  Inv'
<1>1. s \in Stages BY DEF Onward
<1>2. /\ Shape' /\ SameWho /\ SameOpen /\ SameDeed /\ SameMounts /\ SameLease /\ SameEnd
      /\ w'.image = w.image /\ w'.pc = s
  BY <1>1, BytesRead, DigestsShape, Zenon DEF Inv, HashFirst
<1>3. UNCHANGED <<disk, src>> BY DEF HashFirst
<1>4. TargetInv'
  BY <1>2, <1>3, TargetOnward, Quiet DEF Inv, SameTarget
<1>5. CleanInv'
  BY <1>2, <1>3, CleanOnward, Quiet DEF Inv, SameWho
<1>6. ImageInv'
  BY <1>2, ImageKept DEF Inv, Onward, SameLease
<1> QED BY <1>2, <1>3, <1>4, <1>5, <1>6, Quiet DEF Inv

\* What the image says goes into the plan.
LEMMA ObserveStep ==
  ASSUME Inv, NEW s, Onward(s), Carries(s), Observe(s)
  PROVE  Inv'
<1>1. s \in Stages BY DEF Onward
<1>2. Mixed(w.plan, Bytes) \in DigestSet
  BY BytesRead, MixedContent DEF DigestSet
<1>3. /\ Shape' /\ SameWho /\ SameOpen /\ SameDeed /\ SameMounts /\ SameLease /\ SameEnd
      /\ w'.image = w.image /\ w'.pc = s
  BY <1>1, <1>2, PlansShape, Zenon DEF Inv, Observe
<1>4. UNCHANGED <<disk, src>> BY DEF Observe
<1>5. TargetInv'
  BY <1>3, <1>4, TargetOnward, Quiet DEF Inv, SameTarget
<1>6. CleanInv'
  BY <1>3, <1>4, CleanOnward, Quiet DEF Inv, SameWho
<1>7. ImageInv'
  BY <1>3, ImageKept DEF Inv, Onward, SameLease
<1> QED BY <1>3, <1>4, <1>5, <1>6, <1>7, Quiet DEF Inv

\* A part of it is put aside.
LEMMA StageStep ==
  ASSUME Inv, NEW s, Onward(s), Carries(s), Stage(s)
  PROVE  Inv'
<1>1. s \in Stages BY DEF Onward
<1>2. Mixed(w.staged, Bytes) \in DigestSet
  BY BytesRead, MixedContent DEF DigestSet
<1>3. /\ Shape' /\ SameWho /\ SameOpen /\ SameDeed /\ SameMounts /\ SameLease /\ SameEnd
      /\ w'.image = w.image /\ w'.pc = s
  BY <1>1, <1>2, StagesShape, Zenon DEF Inv, Stage
<1>4. UNCHANGED <<disk, src>> BY DEF Stage
<1>5. TargetInv'
  BY <1>3, <1>4, TargetOnward, Quiet DEF Inv, SameTarget
<1>6. CleanInv'
  BY <1>3, <1>4, CleanOnward, Quiet DEF Inv, SameWho
<1>7. ImageInv'
  BY <1>3, ImageKept DEF Inv, Onward, SameLease
<1> QED BY <1>3, <1>4, <1>5, <1>6, <1>7, Quiet DEF Inv

\* A mount is made, and known unless it fails.
LEMMA MountStep ==
  ASSUME Inv, NEW s, Onward(s), Carries(s), NEW m \in OwnMounts, m \in Left(w.mode, s),
         NEW undo, Onward(undo), ~Finishing(w.mode, undo), MountUndo(m, s, undo)
  PROVE  Inv'
<1>1. s \in Stages /\ undo \in Stages BY DEF Onward
<1>2. w.own \cup {m} \in SUBSET OwnMounts /\ w.known \cup {m} \in SUBSET OwnMounts
      /\ w.own \in SUBSET OwnMounts /\ w.known \in SUBSET OwnMounts
  BY DEF Inv, Shape, Writers
<1>3. UNCHANGED <<disk, src>> BY DEF MountUndo
<1>4. CASE w' = [w EXCEPT !.pc = s, !.own = @ \cup {m}, !.known = @ \cup {m}]
  <2>1. /\ Shape' /\ SameWho /\ SameOpen /\ SameDeed /\ SameLease /\ SameEnd /\ SameData
        /\ w'.pc = s /\ w'.own = w.own \cup {m} /\ w'.known = w.known \cup {m}
        /\ w'.work = w.work
    <3> DEFINE own == w.own \cup {m}
               known == w.known \cup {m}
    <3>1. /\ own \in SUBSET OwnMounts /\ known \in SUBSET OwnMounts
          /\ w' = [w EXCEPT !.pc = s, !.own = own, !.known = known]
      BY <1>2, <1>4
    <3> HIDE DEF own, known
    <3>2. Shape BY DEF Inv
    <3>3. /\ Shape' /\ SameWho /\ SameOpen /\ SameDeed /\ SameLease /\ SameEnd /\ SameData
          /\ w'.pc = s /\ w'.own = own /\ w'.known = known /\ w'.work = w.work
      BY <1>1, <3>1, <3>2, MountsShape, ZenonT(30)
    <3> QED BY <3>3 DEF own, known
  <2>2. TargetInv'
    BY <1>3, <2>1, TargetOnward, Quiet DEF Inv, SameTarget
  <2>3. CleanInv'
    BY <1>3, <2>1, CleanMounted, Quiet DEF Inv, SameWho
  <2>4. ImageInv'
    BY <2>1, ImageKept DEF Inv, Onward, SameLease, SameData
  <2> QED BY <1>3, <2>1, <2>2, <2>3, <2>4, Quiet DEF Inv
<1>5. CASE w' = [w EXCEPT !.pc = undo, !.err = TRUE, !.own = @ \cup {m}]
  <2>1. /\ Shape' /\ SameWho /\ SameOpen /\ SameDeed /\ SameLease /\ SameData
        /\ w'.pc = undo /\ w'.own = w.own \cup {m} /\ w'.known = w.known /\ w'.err = TRUE
        /\ w'.announced = w.announced /\ w'.status = w.status
    <3> DEFINE own == w.own \cup {m}
    <3>1. own \in SUBSET OwnMounts /\ w' = [w EXCEPT !.pc = undo, !.err = TRUE, !.own = own]
      BY <1>2, <1>5
    <3> HIDE DEF own
    <3>2. /\ Shape' /\ SameWho /\ SameOpen /\ SameDeed /\ SameLease /\ SameData
          /\ w'.pc = undo /\ w'.own = own /\ w'.known = w.known /\ w'.err = TRUE
          /\ w'.announced = w.announced /\ w'.status = w.status
      BY <1>1, <3>1, LosesShape, Zenon DEF Inv
    <3> QED BY <3>2 DEF own
  <2>2. TargetInv'
    BY <1>3, <2>1, TargetOnward, Quiet DEF Inv, SameTarget
  <2>3. CleanInv'
    <3>1. w'.known \subseteq w'.own
      BY <2>1 DEF Inv, CleanInv
    <3> QED BY <1>3, <2>1, <3>1, CleanFailed, Quiet DEF Inv, SameWho
  <2>4. ImageInv'
    BY <2>1, ImageKept DEF Inv, Onward, SameLease, SameData
  <2> QED BY <1>3, <2>1, <2>2, <2>3, <2>4, Quiet DEF Inv
<1> QED BY <1>4, <1>5 DEF MountUndo

\* Another mount is found: the writer's own is forgotten.
LEMMA SharedStep ==
  ASSUME Inv, NEW m \in OwnMounts, Onward("undo"), MountShared(m)
  PROVE  Inv'
<1>1. w.own \cup {m} \in SUBSET OwnMounts
  BY DEF Inv, Shape, Writers
<1>2. UNCHANGED <<disk, src>> BY DEF MountShared
<1>3. /\ Shape' /\ SameWho /\ SameOpen /\ SameDeed /\ SameLease /\ SameData
      /\ w'.pc = "undo" /\ w'.own = w.own \cup {m} /\ w'.known = w.known /\ w'.err = TRUE
      /\ w'.announced = w.announced /\ w'.status = w.status
  <2> DEFINE own == w.own \cup {m}
  <2>1. own \in SUBSET OwnMounts /\ w' = [w EXCEPT !.pc = "undo", !.err = TRUE, !.own = own]
    BY <1>1 DEF MountShared
  <2> HIDE DEF own
  <2>2. /\ Shape' /\ SameWho /\ SameOpen /\ SameDeed /\ SameLease /\ SameData
        /\ w'.pc = "undo" /\ w'.own = own /\ w'.known = w.known /\ w'.err = TRUE
        /\ w'.announced = w.announced /\ w'.status = w.status
    BY <2>1, LosesShape, Zenon DEF Inv, Onward
  <2> QED BY <2>2 DEF own
<1>4. TargetInv'
  BY <1>2, <1>3, TargetOnward, Quiet DEF Inv, SameTarget
<1>5. CleanInv'
  <2>1. w'.known \subseteq w'.own
    BY <1>3 DEF Inv, CleanInv
  <2>2. ~Finishing(w.mode, "undo")
    BY DEF Finishing
  <2> QED BY <1>2, <1>3, <2>1, <2>2, CleanFailed, Quiet DEF Inv, SameWho
<1>6. ImageInv'
  BY <1>3, ImageKept DEF Inv, Onward, SameLease, SameData
<1> QED BY <1>2, <1>3, <1>4, <1>5, <1>6, Quiet DEF Inv

\* A mount of the writer is taken down, or is not.
LEMMA UmountStep ==
  ASSUME Inv, NEW s, Onward(s), NEW m, Left(w.mode, w.pc) \ {m} \subseteq Left(w.mode, s),
         UmountOwn(m, s)
  PROVE  Inv'
<1>1. s \in Stages BY DEF Onward
<1>2. w.own \ {m} \in SUBSET OwnMounts /\ w.known \ {m} \in SUBSET OwnMounts
  BY DEF Inv, Shape, Writers
<1>3. /\ Shape' /\ SameWho /\ SameOpen /\ SameDeed /\ SameLease /\ SameEnd /\ SameData
      /\ w'.pc = s /\ w'.own = w.own \ {m} /\ w'.known = w.known \ {m}
      /\ w'.work = w.work
  <2> DEFINE own == w.own \ {m}
             known == w.known \ {m}
  <2>1. /\ own \in SUBSET OwnMounts /\ known \in SUBSET OwnMounts
        /\ w' = [w EXCEPT !.pc = s, !.own = own, !.known = known]
    BY <1>2 DEF UmountOwn
  <2> HIDE DEF own, known
  <2>2. /\ Shape' /\ SameWho /\ SameOpen /\ SameDeed /\ SameLease /\ SameEnd /\ SameData
        /\ w'.pc = s /\ w'.own = own /\ w'.known = known /\ w'.work = w.work
    <3>1. Shape BY DEF Inv
    <3> QED BY <1>1, <2>1, <3>1, MountsShape, ZenonT(30)
  <2> QED BY <2>2 DEF own, known
<1> UNCHANGED <<disk, src>> BY DEF UmountOwn
<1>4. TargetInv'
  BY <1>3, TargetOnward, Quiet DEF Inv, SameTarget
<1>5. CleanInv'
  BY <1>3, CleanUnmounted, Quiet DEF Inv, SameWho
<1>6. ImageInv'
  BY <1>3, ImageKept DEF Inv, Onward, SameLease, SameData
<1> QED BY <1>3, <1>4, <1>5, <1>6, Quiet DEF Inv

\* The deferred umount.
LEMMA CleanMountStep ==
  ASSUME Inv, NEW s, Onward(s), ~Finishing(w.mode, s), NEW m,
         Left(w.mode, w.pc) \ {m} \subseteq Left(w.mode, s), CleanMount(m, s)
  PROVE  Inv'
<1>1. CASE m \notin w.known /\ Goto(s)
  <2>1. UNCHANGED <<disk, src>> BY DEF CleanMount
  <2>2. s \in Stages BY DEF Onward
  <2>3. /\ Shape' /\ SameWho /\ SameOpen /\ SameDeed /\ SameMounts /\ SameLease /\ SameEnd
        /\ SameData /\ w'.pc = s
    BY <1>1, <2>2, MovesShape DEF Inv, Goto
  <2>4. TargetInv'
    BY <2>1, <2>3, TargetOnward, Quiet DEF Inv, SameTarget
  <2>5. w'.known = w.known \ {m} /\ (~w.err => w'.own = w.own \ {m})
    BY <1>1, <2>3 DEF Inv, CleanInv, SameMounts
  <2>6. CleanInv'
    <3>1. CASE w.err
      BY <2>1, <2>3, <3>1, CleanFailed, Quiet DEF Inv, SameWho, SameEnd, SameMounts, CleanInv
    <3>2. CASE ~w.err
      BY <2>1, <2>3, <2>5, <3>2, CleanUnmounted, Quiet DEF Inv, SameWho, SameMounts
    <3> QED BY <3>1, <3>2
  <2>7. ImageInv'
    BY <2>3, ImageKept DEF Inv, Onward, SameLease, SameData
  <2> QED BY <2>1, <2>3, <2>4, <2>6, <2>7, Quiet DEF Inv
<1>2. CASE m \in w.known /\ w' = [w EXCEPT !.pc = s, !.own = @ \ {m}, !.known = @ \ {m}]
  BY <1>2, UmountStep, Zenon DEF CleanMount, UmountOwn, Inv, CleanInv
<1>3. CASE m \in w.known /\ w' = [w EXCEPT !.pc = s, !.err = TRUE]
  BY <1>3, ErrStep, Zenon DEF CleanMount
<1> QED BY <1>1, <1>2, <1>3 DEF CleanMount

-----------------------------------------------------------------------------
(* The target is opened, looked at and changed *)

\* What a disk holds.
Cells == [table : Contents, fs : Contents]

\* While the target counts as changed it is open.
LEMMA OpenWhileWriting ==
  ASSUME Inv, w.pc \notin Asking, Phase(w.mode, w.pc) \in {"reviewing", "checked", "writing"}
  PROVE  w.fd \in Attachments /\ w.fd.disk \in Disks /\ Held \in Cells
<1>1. Now \in {"reviewing", "checked", "writing"}
  BY DEF Now, Place
<1>2. w.fd \in Ports /\ w.fd # None
  BY <1>1 DEF Inv, TargetInv, PhaseInv, Shape, Writers
<1>3. w.fd \in Attachments
  BY <1>2 DEF Ports
<1>4. w.fd.disk \in Disks
  BY <1>3 DEF Attachments
<1> QED BY <1>3, <1>4 DEF Held, Inv, DiskTypeOK, Cells

\* The literals of the model are contents.
LEMMA Literals ==
  {"plan", "empty", "mixed", "old", "none", "torn"} \subseteq Contents
BY ContentAssumption DEF Contents

\* The image is held, for the first time.
LEMMA AcquireStep ==
  ASSUME Inv, NEW s \in Stages, w.pc \notin Asking, s \notin Asking, s \notin Preparatory,
         w.pc \notin {"returned", "ended"}, s # "ended",
         Phase(w.mode, s) = Phase(w.mode, w.pc), NoWork(w.mode, s) => NoWork(w.mode, w.pc),
         ~Finishing(w.mode, s),
         Freed(w.mode, w.pc), ~Freed(w.mode, s), Carries(s), AcquireReadLease(s)
  PROVE  Inv'
<1>1. PICK held \in {"lease", "passes"} :
        /\ w' = [w EXCEPT !.pc = s, !.held = held]
        /\ src' = IF held = "lease" /\ ~w.private THEN [src EXCEPT !.lease = "held"] ELSE src
  BY DEF AcquireReadLease
<1>2. held \in Helds BY DEF Helds
<1>3. /\ Shape' /\ SameWho /\ SameOpen /\ SameDeed /\ SameMounts /\ SameEnd /\ SameData
      /\ w'.pc = s /\ w'.held = held /\ w'.private = w.private
  BY <1>1, <1>2, HoldsShape, Zenon DEF Inv
<1>4. SrcType' /\ src'.lease = (IF held = "lease" /\ ~w.private THEN "held" ELSE src.lease)
  BY <1>1 DEF Inv, SrcType
<1>5. DiskTypeOK' /\ port' = port
  BY DEF Inv, DiskTypeOK, AcquireReadLease, disk
<1>6. Place = w.pc /\ Place' = s /\ w.mode' = w.mode
  BY <1>3 DEF Place, SameWho
<1>7. TargetInv'
  <2>1. Now' = Now /\ (Strict <=> Strict')
    BY <1>3, <1>6 DEF Now, Strict, SameWho
  <2>2. PhaseInv'
    BY <1>3, <2>1
       DEF Inv, TargetInv, PhaseInv, SameWho, SameOpen, SameDeed, Asking
  <2>3. OpenInv' /\ ChangedInv'
    BY <1>3, <1>5 DEF Inv, TargetInv, OpenInv, ChangedInv, ClaimHonest, ErasesReviewed,
                      SameWho, SameOpen, SameDeed
  <2> QED BY <2>2, <2>3 DEF TargetInv
<1>8. src.lease = "none"
  BY <1>6 DEF Inv, CleanInv
<1>9. CleanInv'
  <2>1. w.status = "none" /\ (w.announced => w.mode \in Early)
    BY DEF Inv, CleanInv
  <2>2. EndsClean'
    BY <1>3, <2>1 DEF EndsClean, SameEnd, SameWho
  <2> QED BY <1>3, <1>4, <1>6, <1>8, <2>1, <2>2
       DEF Inv, CleanInv, Carries, SameMounts, SameEnd, SameWho
<1>10. ImageInv'
  BY <1>3, ImageKept DEF Inv, SameData
<1> QED BY <1>3, <1>4, <1>5, <1>7, <1>9, <1>10 DEF Inv

\* The target is opened; the descriptor names a disk of the reviewed capacity.
LEMMA OpenStep ==
  ASSUME Inv, NEW s \in Stages, w.pc \notin Asking, s \notin Asking, s \notin Preparatory,
         w.pc \notin {"returned", "ended"}, s # "ended",
         Phase(w.mode, w.pc) = "unopened", Phase(w.mode, s) = "reviewing",
         NoWork(w.mode, s) => NoWork(w.mode, w.pc), ~Finishing(w.mode, s),
         Freed(w.mode, s) => Freed(w.mode, w.pc), Carries(s), OpenTarget(s)
  PROVE  Inv'
<1> DEFINE swapped == (port # w.identity)
<1>1. /\ port \in Ports /\ port # None /\ swapped \in BOOLEAN
      /\ w' = [w EXCEPT !.pc = s, !.fd = port, !.swapped = swapped]
      /\ UNCHANGED <<disk, src>> /\ Size[port.disk] = Size[w.identity.disk]
  BY DEF OpenTarget, Inv, DiskTypeOK, Ports
<1>2. /\ Shape' /\ SameWho /\ SameDeed /\ SameMounts /\ SameLease /\ SameEnd /\ SameData
      /\ w'.pc = s /\ w'.fd = port /\ w'.swapped = swapped
  <2> HIDE DEF swapped
  <2> QED BY <1>1, OpensShape, Zenon DEF Inv
<1>3. Place = w.pc /\ Place' = s
  BY <1>2 DEF Place
<1>4. Now = "unopened" /\ Now' = "reviewing"
  BY <1>2, <1>3 DEF Now, SameWho
<1>5. w.changed = {} /\ w.claim = "none"
  BY <1>4 DEF Inv, TargetInv, PhaseInv
<1>6. TargetInv'
  <2>1. PhaseInv'
    BY <1>1, <1>2, <1>4, <1>5 DEF PhaseInv, SameDeed
  <2>2. OpenInv'
    BY <1>1, <1>2, <1>5, Quiet DEF OpenInv, SameDeed, SameWho
  <2>3. ChangedInv'
    BY <1>2, <1>5 DEF ChangedInv, ClaimHonest, ErasesReviewed, SameDeed
  <2> QED BY <2>1, <2>2, <2>3 DEF TargetInv
<1>7. CleanInv'
  <2>1. w.status = "none" /\ (w.announced => w.mode \in Early)
    BY DEF Inv, CleanInv
  <2>2. EndsClean'
    BY <1>2, <2>1 DEF EndsClean, SameEnd, SameWho
  <2> QED BY <1>1, <1>2, <1>3, <2>1, <2>2, Quiet
       DEF Inv, CleanInv, Carries, SameMounts, SameEnd, SameWho, SameLease
<1>8. ImageInv'
  BY <1>2, ImageKept DEF Inv, SameData, SameLease
<1> QED BY <1>1, <1>2, <1>6, <1>7, <1>8, Quiet DEF Inv

\* The workspace is made.
LEMMA WorkStep ==
  ASSUME Inv, NEW s, Onward(s), Carries(s), ~NoWork(w.mode, s),
         w' = [w EXCEPT !.pc = s, !.work = TRUE], UNCHANGED <<disk, src>>
  PROVE  Inv'
<1>1. s \in Stages BY DEF Onward
<1>2. /\ Shape' /\ SameWho /\ SameOpen /\ SameDeed /\ SameLease /\ SameEnd /\ SameData
      /\ w'.pc = s /\ w'.own = w.own /\ w'.known = w.known
  BY <1>1, WorksShape, Zenon DEF Inv
<1>3. TargetInv'
  BY <1>2, TargetOnward, Quiet DEF Inv, SameTarget
<1>4. CleanInv'
  <2>1. Place = w.pc /\ Place' = w'.pc
    BY <1>2 DEF Place, Onward
  <2>2. w.status = "none" /\ (w.announced => w.mode \in Early)
    BY DEF Inv, CleanInv, Onward
  <2>3. EndsClean'
    BY <1>2, <2>2 DEF EndsClean, SameEnd, SameWho
  <2> QED BY <1>2, <2>1, <2>2, <2>3, Quiet
       DEF Inv, CleanInv, Carries, Onward, SameEnd, SameWho, SameLease
<1>5. ImageInv'
  BY <1>2, ImageKept DEF Inv, SameData, SameLease, Onward
<1> QED BY <1>2, <1>3, <1>4, <1>5, Quiet DEF Inv

\* The command is asked for another look, by identity where the writer wants it.
LEMMA AskStep ==
  ASSUME Inv, NEW s \in Answers, NEW strict \in BOOLEAN,
         w.pc \notin Asking, w.pc # "ended", w.announced => w.mode \in Early, s \notin Preparatory,
         strict \/ w.mode # "raw" \/ Finishing(w.mode, s),
         \/ Phase(w.mode, s) = Phase(w.mode, w.pc)
         \/ Phase(w.mode, w.pc) = "reviewing" /\ Phase(w.mode, s) = "checked",
         NoWork(w.mode, s) => NoWork(w.mode, w.pc),
         Freed(w.mode, s) => Freed(w.mode, w.pc), Carries(s),
         Finishing(w.mode, s) => ~w.err,
         Ask(strict, s), UNCHANGED <<disk, src>>
  PROVE  Inv'
<1> DEFINE stage == IF strict \/ w.front = "helper" THEN "ask-strict" ELSE "ask"
<1>1. /\ w' = [w EXCEPT !.pc = stage, !.ret = s]
      /\ stage \in Stages /\ s \in Returns /\ stage \in Asking /\ stage \notin Preparatory
      /\ stage \notin {"returned", "ended"} /\ s \notin Asking
  BY DEF Ask, Stages, Returns, Asking, Preparatory, Answers
<1>2. /\ Shape' /\ SameWho /\ SameOpen /\ SameDeed /\ SameMounts /\ SameLease /\ SameEnd
      /\ SameData /\ w'.pc = stage /\ w'.ret = s
  <2> HIDE DEF stage
  <2> QED BY <1>1, AsksShape, Zenon DEF Inv
<1>3. Place = w.pc /\ Place' = s
  BY <1>1, <1>2 DEF Place
<1>4. /\ Now' = Now \/ (Now = "reviewing" /\ Now' = "checked")
      /\ Now' = Phase(w.mode, s) /\ (Strict <=> Strict')
  BY <1>2, <1>3 DEF Now, Strict, SameWho
<1>5. Now' = "writing" \/ Now' = "checked" => (Strict => stage = "ask-strict")
  BY <1>4 DEF Strict, Phase
<1>6. TargetInv'
  <2>1. PhaseInv'
    BY <1>1, <1>2, <1>4, <1>5 DEF Inv, TargetInv, PhaseInv, SameDeed, SameOpen, SameWho, Asking
  <2>2. OpenInv' /\ ChangedInv'
    BY <1>2, Quiet DEF Inv, TargetInv, OpenInv, ChangedInv, ClaimHonest, ErasesReviewed,
                       SameWho, SameOpen, SameDeed
  <2> QED BY <2>1, <2>2 DEF TargetInv
<1>7. CleanInv'
  <2>1. w.status = "none"
    BY DEF Inv, CleanInv
  <2>2. EndsClean'
    BY <1>2, <2>1 DEF EndsClean, SameEnd, SameWho
  <2> QED BY <1>1, <1>2, <1>3, <2>1, <2>2, Quiet
       DEF Inv, CleanInv, Carries, SameMounts, SameEnd, SameWho, SameLease
<1>8. ImageInv'
  BY <1>1, <1>2, ImageKept DEF Inv, SameData, SameLease
<1> QED BY <1>2, <1>6, <1>7, <1>8, Quiet DEF Inv

\* The target is about to be changed.
LEMMA TouchStep ==
  ASSUME Inv, NEW s \in Stages, w.pc \notin Asking, s \notin Asking, s \notin Preparatory,
         w.pc \notin {"returned", "ended"}, s # "ended",
         Phase(w.mode, w.pc) = "checked", Phase(w.mode, s) = "writing",
         NoWork(w.mode, s) => NoWork(w.mode, w.pc), ~Finishing(w.mode, s),
         Freed(w.mode, s) => Freed(w.mode, w.pc), Carries(s),
         w' = [w EXCEPT !.pc = s, !.touched = TRUE], UNCHANGED <<disk, src>>
  PROVE  Inv'
<1>1. /\ Shape' /\ SameWho /\ SameOpen /\ SameMounts /\ SameLease /\ SameEnd /\ SameData
      /\ w'.pc = s /\ w'.touched = TRUE /\ w'.changed = w.changed /\ w'.claim = w.claim
  BY TouchesShape, Zenon DEF Inv
<1>2. TargetInv'
  BY <1>1, TargetTouched, Quiet DEF Inv
<1>3. CleanInv'
  <2>1. Place = w.pc /\ Place' = w'.pc
    BY <1>1 DEF Place
  <2>2. w.status = "none" /\ (w.announced => w.mode \in Early)
    BY DEF Inv, CleanInv
  <2>3. EndsClean'
    BY <1>1, <2>2 DEF EndsClean, SameEnd, SameWho
  <2> QED BY <1>1, <2>1, <2>2, <2>3, Quiet
       DEF Inv, CleanInv, Carries, SameEnd, SameWho, SameLease, SameMounts
<1>4. ImageInv'
  BY <1>1, ImageKept DEF Inv, SameData, SameLease
<1> QED BY <1>1, <1>2, <1>3, <1>4, Quiet DEF Inv

\* The target is changed while it counts as changed.
LEMMA ChangeStep ==
  ASSUME Inv, NEW s, Onward(s), Carries(s), Phase(w.mode, w.pc) = "writing",
         NEW c \in Cells, Change(s, c)
  PROVE  Inv'
<1>1. s \in Stages BY DEF Onward
<1>2. w.fd \in Attachments /\ w.fd.disk \in Disks
  BY OpenWhileWriting DEF Onward
<1>3. w.changed \cup {w.fd} \in SUBSET Attachments
  BY <1>2 DEF Inv, Shape, Writers
<1>4. /\ Shape' /\ SameWho /\ SameOpen /\ SameMounts /\ SameLease /\ SameEnd /\ SameData
      /\ w'.pc = s /\ w'.touched = w.touched /\ w'.claim = w.claim
      /\ w'.changed = w.changed \cup {w.fd}
  <2> DEFINE changed == w.changed \cup {w.fd}
  <2>1. changed \in SUBSET Attachments /\ w' = [w EXCEPT !.pc = s, !.changed = changed]
    BY <1>3 DEF Change
  <2> HIDE DEF changed
  <2>2. /\ Shape' /\ SameWho /\ SameOpen /\ SameMounts /\ SameLease /\ SameEnd /\ SameData
        /\ w'.pc = s /\ w'.touched = w.touched /\ w'.claim = w.claim /\ w'.changed = changed
    BY <1>1, <2>1, WritesShape, Zenon DEF Inv
  <2> QED BY <2>2 DEF changed
<1>5. DiskTypeOK' /\ port' = port /\ src' = src
  BY <1>2 DEF Change, Inv, DiskTypeOK, Cells
<1>6. TargetInv'
  BY <1>4, <1>5, TargetChanged DEF Inv
<1>7. CleanInv'
  BY <1>4, <1>5, CleanOnward DEF Inv, SameWho
<1>8. ImageInv'
  BY <1>4, ImageKept DEF Inv, SameData, SameLease, Onward
<1> QED BY <1>4, <1>5, <1>6, <1>7, <1>8 DEF Inv, SrcType

\* So it is by a table that is synced at once.
LEMMA WriteTableStep ==
  ASSUME Inv, NEW s, Onward(s), Carries(s), Phase(w.mode, w.pc) = "writing", WriteTable(s)
  PROVE  Inv'
<1>1. s \in Stages BY DEF Onward
<1>2. w.fd \in Attachments /\ w.fd.disk \in Disks
  BY OpenWhileWriting DEF Onward
<1>3. w.changed \cup {w.fd} \in SUBSET Attachments
  BY <1>2 DEF Inv, Shape, Writers
<1>4. /\ Shape' /\ SameWho /\ SameOpen /\ SameMounts /\ SameLease /\ SameEnd /\ SameData
      /\ w'.pc = s /\ w'.touched = w.touched /\ w'.claim = w.claim
      /\ w'.changed = w.changed \cup {w.fd}
  <2> DEFINE changed == w.changed \cup {w.fd}
  <2>1. changed \in SUBSET Attachments /\ w' = [w EXCEPT !.pc = s, !.changed = changed]
    BY <1>3 DEF WriteTable
  <2> HIDE DEF changed
  <2>2. /\ Shape' /\ SameWho /\ SameOpen /\ SameMounts /\ SameLease /\ SameEnd /\ SameData
        /\ w'.pc = s /\ w'.touched = w.touched /\ w'.claim = w.claim /\ w'.changed = changed
    BY <1>1, <2>1, WritesShape, Zenon DEF Inv
  <2> QED BY <2>2 DEF changed
<1>5. DiskTypeOK' /\ port' = port /\ src' = src
  BY <1>2, Literals DEF WriteTable, Inv, DiskTypeOK
<1>6. TargetInv'
  BY <1>4, <1>5, TargetChanged DEF Inv
<1>7. CleanInv'
  BY <1>4, <1>5, CleanOnward DEF Inv, SameWho
<1>8. ImageInv'
  BY <1>4, ImageKept DEF Inv, SameData, SameLease, Onward
<1> QED BY <1>4, <1>5, <1>6, <1>7, <1>8 DEF Inv, SrcType

\* The boot files of the target are changed.
BootChange(s, boot) ==
  /\ w' = [w EXCEPT !.pc = s, !.boot = boot, !.changed = @ \cup {w.fd}]
  /\ UNCHANGED <<disk, src>>

\* So it is by boot files, which are kept apart.
LEMMA BootStep ==
  ASSUME Inv, NEW s, Onward(s), Carries(s), Phase(w.mode, w.pc) = "writing",
         NEW boot \in Boots, BootChange(s, boot)
  PROVE  Inv'
<1>1. s \in Stages BY DEF Onward
<1>2. w.fd \in Attachments
  BY OpenWhileWriting DEF Onward
<1>4. /\ Shape' /\ SameWho /\ SameOpen /\ SameMounts /\ SameLease /\ SameEnd /\ SameData
      /\ w'.pc = s /\ w'.touched = w.touched /\ w'.claim = w.claim
      /\ w'.changed = w.changed \cup {w.fd}
  <2> DEFINE changed == w.changed \cup {w.fd}
  <2>1. changed \in SUBSET Attachments
        /\ w' = [w EXCEPT !.pc = s, !.boot = boot, !.changed = changed]
    BY <1>2 DEF Inv, Shape, Writers, BootChange
  <2> HIDE DEF changed
  <2>2. /\ Shape' /\ SameWho /\ SameOpen /\ SameMounts /\ SameLease /\ SameEnd /\ SameData
        /\ w'.pc = s /\ w'.touched = w.touched /\ w'.claim = w.claim /\ w'.changed = changed
    <3>1. Shape BY DEF Inv
    <3> QED BY <1>1, <2>1, <3>1, BootsShape, ZenonT(30)
  <2> QED BY <2>2 DEF changed
<1>5. UNCHANGED <<disk, src>> BY DEF BootChange
<1>6. TargetInv'
  BY <1>4, <1>5, TargetChanged, Quiet DEF Inv
<1>7. CleanInv'
  BY <1>4, <1>5, CleanOnward, Quiet DEF Inv, SameWho
<1>8. ImageInv'
  BY <1>4, ImageKept DEF Inv, SameData, SameLease, Onward
<1> QED BY <1>4, <1>5, <1>6, <1>7, <1>8, Quiet DEF Inv

-----------------------------------------------------------------------------
(* Errors and the cleanup *)

\* What is written reaches the medium, flawed or not.
LEMMA FlushStep ==
  ASSUME Inv, NEW s, Onward(s), Carries(s), Phase(w.mode, w.pc) = "writing", Flush(s)
  PROVE  Inv'
<1>1. s \in Stages BY DEF Onward
<1>2. w.fd.disk \in Disks /\ Held \in Cells
  BY OpenWhileWriting DEF Onward
<1>3. PICK flawed \in BOOLEAN :
        LET kept == IF flawed THEN [Held EXCEPT !.fs = "mixed"] ELSE Held
        IN  /\ media' = [media EXCEPT ![w.fd.disk] = kept]
            /\ cache' = [cache EXCEPT ![w.fd.disk] = kept]
            /\ w' = [w EXCEPT !.pc = s, !.flawed = @ \/ flawed]
  BY Zenon DEF Flush
<1>4. DiskTypeOK' /\ port' = port /\ src' = src
  <2> DEFINE kept == IF flawed THEN [Held EXCEPT !.fs = "mixed"] ELSE Held
  <2>1. kept \in Cells
    BY <1>2, Literals DEF Cells
  <2>2. /\ media' = [media EXCEPT ![w.fd.disk] = kept]
        /\ cache' = [cache EXCEPT ![w.fd.disk] = kept]
    BY <1>3
  <2> HIDE DEF kept
  <2> QED BY <2>1, <2>2 DEF Flush, Inv, DiskTypeOK, Cells
<1>5. /\ Shape' /\ SameWho /\ SameOpen /\ SameDeed /\ SameMounts /\ SameLease /\ SameEnd
      /\ w'.pc = s /\ w'.image = w.image
  <2> DEFINE newFlawed == w.flawed \/ flawed
  <2>1. newFlawed \in BOOLEAN /\ w' = [w EXCEPT !.pc = s, !.flawed = newFlawed]
    BY <1>3
  <2> HIDE DEF newFlawed
  <2> QED BY <1>1, <2>1, FlushesShape, Zenon DEF Inv
<1>6. TargetInv'
  BY <1>4, <1>5, TargetOnward DEF Inv, SameTarget
<1>7. CleanInv'
  BY <1>4, <1>5, CleanOnward DEF Inv, SameWho
<1>8. ImageInv'
  BY <1>5, ImageKept DEF Inv, SameLease, Onward
<1> QED BY <1>4, <1>5, <1>6, <1>7, <1>8 DEF Inv, SrcType

\* A change fails half-way.
LEMMA TornStep ==
  ASSUME Inv, NEW undo, Onward(undo), ~Finishing(w.mode, undo),
         Phase(w.mode, w.pc) = "writing", FailTornTo(w.mode, {w.pc}, undo)
  PROVE  Inv'
<1>1. undo \in Stages BY DEF Onward
<1>2. w.fd \in Attachments /\ w.fd.disk \in Disks /\ Held \in Cells
  BY OpenWhileWriting DEF Onward
<1>3. DiskTypeOK' /\ port' = port /\ src' = src
  <2>1. \A part \in {"table", "fs"} : [Held EXCEPT ![part] = "torn"] \in Cells
    BY <1>2, Literals DEF Cells
  <2>2. PICK part \in {"table", "fs"} : cache' = [cache EXCEPT ![w.fd.disk][part] = "torn"]
    BY DEF FailTornTo
  <2> DEFINE c == [Held EXCEPT ![part] = "torn"]
  <2>3. c \in Cells /\ cache' = [cache EXCEPT ![w.fd.disk] = c]
    BY <2>1, <2>2 DEF Held
  <2> HIDE DEF c
  <2> QED BY <1>2, <2>3 DEF FailTornTo, Inv, DiskTypeOK, Cells
<1>4. /\ Shape' /\ SameWho /\ SameOpen /\ SameMounts /\ SameLease /\ SameData
      /\ w'.pc = undo /\ w'.touched = w.touched /\ w'.claim = w.claim /\ w'.err = TRUE
      /\ w'.announced = w.announced /\ w'.status = w.status
      /\ w'.changed = w.changed \cup {w.fd}
  <2> DEFINE changed == w.changed \cup {w.fd}
  <2>1. changed \in SUBSET Attachments
        /\ w' = [w EXCEPT !.pc = undo, !.err = TRUE, !.changed = changed]
    BY <1>2 DEF FailTornTo, Inv, Shape, Writers
  <2> HIDE DEF changed
  <2>2. /\ Shape' /\ SameWho /\ SameOpen /\ SameMounts /\ SameLease /\ SameData
        /\ w'.pc = undo /\ w'.touched = w.touched /\ w'.claim = w.claim /\ w'.err = TRUE
        /\ w'.announced = w.announced /\ w'.status = w.status /\ w'.changed = changed
    BY <1>1, <2>1, TearsShape, Zenon DEF Inv
  <2> QED BY <2>2 DEF changed
<1>5. TargetInv'
  BY <1>3, <1>4, TargetChanged DEF Inv
<1>6. CleanInv'
  <2>1. w'.known \subseteq w'.own
    BY <1>4 DEF Inv, CleanInv, SameMounts
  <2> QED BY <1>3, <1>4, <2>1, CleanFailed DEF Inv, SameWho
<1>7. ImageInv'
  BY <1>4, ImageKept DEF Inv, SameData, SameLease, Onward
<1> QED BY <1>3, <1>4, <1>5, <1>6, <1>7 DEF Inv, SrcType

\* The workspace is removed, unless something is mounted in it.
LEMMA CleanWorkStep ==
  ASSUME Inv, w.mode \in Builders, w.pc = "clean-work", CleanWork("close"),
         NoWork(w.mode, "close"),
         Phase(w.mode, "close") = "closing", Phase(w.mode, "clean-work") = "closing",
         Left(w.mode, "clean-work") = {}, ~Freed(w.mode, "close"), ~Finishing(w.mode, "close"),
         "close" \in Stages
  PROVE  Inv'
<1>1. /\ w.pc \notin Asking /\ "close" \notin Asking /\ "close" \notin Preparatory
      /\ Place = "clean-work"
  BY DEF Asking, Preparatory, Place
<1>2. SrcType' /\ port' = port /\ src' = src
  BY DEF CleanWork, Inv, SrcType
<1>3. DiskTypeOK'
  <2>1. CASE UNCHANGED cache
    BY <2>1 DEF CleanWork, Inv, DiskTypeOK
  <2>2. CASE cache' = [cache EXCEPT ![w.fd.disk].fs = "torn"] /\ w.fd.disk \in Disks
    <3> DEFINE c == [cache[w.fd.disk] EXCEPT !.fs = "torn"]
    <3>1. c \in Cells /\ cache' = [cache EXCEPT ![w.fd.disk] = c]
      BY <2>2, Literals DEF Inv, DiskTypeOK, Cells
    <3> HIDE DEF c
    <3> QED BY <2>2, <3>1 DEF CleanWork, Inv, DiskTypeOK, Cells
  <2>3. CASE cache' = [cache EXCEPT ![w.fd.disk].fs = "torn"] /\ w.fd.disk \notin Disks
    BY <2>3 DEF CleanWork, Inv, DiskTypeOK
  <2> QED BY <2>1, <2>2, <2>3 DEF CleanWork
<1>4. /\ Shape' /\ SameWho /\ SameOpen /\ SameDeed /\ SameLease /\ SameData
      /\ w'.pc = "close" /\ w'.own = w.own /\ w'.known = w.known
      /\ w'.announced = w.announced /\ w'.status = w.status
      /\ ~w'.err => ~w.err /\ ~w'.work
  <2>1. CASE Goto("close") /\ (~w.work \/ w.known # {})
    <3>1. /\ Shape' /\ SameWho /\ SameOpen /\ SameDeed /\ SameMounts /\ SameLease /\ SameEnd
          /\ SameData /\ w'.pc = "close"
      BY <2>1, MovesShape DEF Inv, Goto
    <3>2. ~w.err => w.known = {}
      BY <1>1 DEF Inv, CleanInv
    <3> QED BY <2>1, <3>1, <3>2 DEF SameMounts, SameEnd
  <2>2. CASE w' = [w EXCEPT !.pc = "close", !.work = FALSE]
    BY <2>2, WorksShape, Zenon DEF Inv, SameEnd
  <2>3. CASE w' = [w EXCEPT !.pc = "close", !.err = TRUE]
    BY <2>3, ErrsShape, Zenon DEF Inv, SameMounts
  <2> QED BY <2>1, <2>2, <2>3 DEF CleanWork
<1>5. Place' = "close" /\ Now = "closing" /\ Now' = "closing"
  BY <1>1, <1>4 DEF Place, Now, SameWho
<1>6. TargetInv'
  <2>1. PhaseInv'
    BY <1>1, <1>4, <1>5 DEF PhaseInv
  <2>2. OpenInv' /\ ChangedInv'
    BY <1>2, <1>4 DEF Inv, TargetInv, OpenInv, ChangedInv, ClaimHonest, ErasesReviewed,
                       SameWho, SameOpen, SameDeed
  <2> QED BY <2>1, <2>2 DEF TargetInv
<1>7. CleanInv'
  <2>1. w.status = "none" /\ (w.announced => w.mode \in Early)
    BY DEF Inv, CleanInv
  <2>2. EndsClean'
    BY <1>4, <2>1 DEF EndsClean, SameWho
  <2> QED BY <1>1, <1>2, <1>4, <1>5, <2>1, <2>2 DEF Inv, CleanInv, SameWho, SameLease
<1>8. ImageInv'
  BY <1>1, <1>4, ImageKept DEF Inv, SameData, SameLease
<1> QED BY <1>2, <1>3, <1>4, <1>6, <1>7, <1>8 DEF Inv

\* The target is closed.
LEMMA CloseStep ==
  ASSUME Inv, NEW s \in Stages, w.pc \notin Asking, s \notin Asking, s \notin Preparatory,
         w.pc \notin {"returned", "ended"}, s # "ended",
         Phase(w.mode, s) = "closed", NoWork(w.mode, w.pc), ~Finishing(w.mode, s),
         Freed(w.mode, s) => Freed(w.mode, w.pc), Carries(s), CloseTarget(s)
  PROVE  Inv'
<1>1. UNCHANGED <<disk, src>> BY DEF CloseTarget
<1>2. PICK late \in BOOLEAN : w' = [w EXCEPT !.pc = s, !.fd = None, !.err = @ \/ late]
  BY Zenon DEF CloseTarget
<1>3. /\ Shape' /\ SameWho /\ SameDeed /\ SameMounts /\ SameLease /\ SameData
      /\ w'.pc = s /\ w'.fd = None /\ w'.swapped = w.swapped /\ w'.err = (w.err \/ late)
      /\ w'.announced = w.announced /\ w'.status = w.status
  <2> DEFINE err == w.err \/ late
  <2>1. None \in Ports /\ err \in BOOLEAN /\ w' = [w EXCEPT !.pc = s, !.fd = None, !.err = err]
    BY <1>2 DEF Ports
  <2> HIDE DEF err
  <2>2. /\ Shape' /\ SameWho /\ SameDeed /\ SameMounts /\ SameLease /\ SameData
        /\ w'.pc = s /\ w'.fd = None /\ w'.swapped = w.swapped /\ w'.err = err
        /\ w'.announced = w.announced /\ w'.status = w.status
    BY <2>1, ClosesShape, Zenon DEF Inv
  <2> QED BY <2>2 DEF err
<1>4. Place = w.pc /\ Place' = s
  BY <1>3 DEF Place
<1>5. Now' = "closed"
  BY <1>3, <1>4 DEF Now, SameWho
<1>6. TargetInv'
  BY <1>3, <1>5 DEF Inv, TargetInv, PhaseInv, OpenInv, ChangedInv, ClaimHonest,
                    ErasesReviewed, SameWho, SameDeed
<1>7. CleanInv'
  <2>1. w.status = "none" /\ (w.announced => w.mode \in Early)
    BY DEF Inv, CleanInv
  <2>2. EndsClean'
    BY <1>3, <2>1 DEF EndsClean, SameWho
  <2> QED BY <1>1, <1>3, <1>4, <2>1, <2>2, Quiet
       DEF Inv, CleanInv, Carries, SameMounts, SameWho, SameLease
<1>8. ImageInv'
  BY <1>3, ImageKept DEF Inv, SameData, SameLease
<1> QED BY <1>1, <1>3, <1>6, <1>7, <1>8, Quiet DEF Inv

\* The lease is looked at for the last time and let go.
LEMMA FinishLeaseStep ==
  ASSUME Inv, NEW s \in Stages, w.pc \notin Asking, s \notin Asking, s \notin Preparatory,
         w.pc \notin {"returned", "ended"}, s # "ended", w.mode # "qualify",
         s = "returned" => w.mode # "linux-persistent" \/ ~w.announced,
         Phase(w.mode, s) = "closed", Phase(w.mode, w.pc) = "closed", ~Finishing(w.mode, s),
         Carries(s), FinishLease(s)
  PROVE  Inv'
<1> DEFINE err == w.err \/ ~LeaseIntact
           claim == IF LeaseIntact THEN w.claim
                    ELSE IF w.touched THEN "incomplete" ELSE "untouched"
<1>1. /\ err \in BOOLEAN /\ claim \in Claims /\ "no" \in Helds
      /\ w' = [w EXCEPT !.pc = s, !.held = "no", !.err = err, !.claim = claim]
  BY DEF FinishLease, Inv, Shape, Writers, Claims, Helds
<1>2. src' = Released /\ UNCHANGED disk
  BY DEF FinishLease
<1>3. SrcType' /\ src'.lease = "none"
  BY <1>2 DEF Released, Inv, SrcType, CleanInv
<1>4. DiskTypeOK' /\ port' = port
  BY <1>2 DEF Inv, DiskTypeOK, disk
<1>5. /\ Shape' /\ SameWho /\ SameOpen /\ SameMounts /\ SameData
      /\ w'.pc = s /\ w'.held = "no" /\ w'.err = err /\ w'.claim = claim
      /\ w'.private = w.private /\ w'.announced = w.announced /\ w'.status = w.status
      /\ w'.touched = w.touched /\ w'.changed = w.changed
  <2> HIDE DEF err, claim
  <2>1. Shape BY DEF Inv
  <2> QED BY <1>1, <2>1, LetsShape, Zenon
<1>6. Place = w.pc /\ Place' = s
  BY <1>5 DEF Place
<1>7. Now = "closed" /\ Now' = "closed"
  BY <1>5, <1>6 DEF Now, SameWho
<1>8. TargetInv'
  <2>1. w.fd = None
    BY <1>7 DEF Inv, TargetInv, PhaseInv
  <2>2. claim = "untouched" => w.changed = {}
    BY DEF Inv, TargetInv, ChangedInv, ClaimHonest
  <2> HIDE DEF claim, err
  <2> QED BY <1>5, <1>7, <2>1, <2>2 DEF Inv, TargetInv, PhaseInv, OpenInv, ChangedInv, ClaimHonest,
                    ErasesReviewed, SameWho, SameOpen
<1>9. CleanInv'
  <2>1. w.status = "none" /\ (w.announced => w.mode \in Early)
    BY DEF Inv, CleanInv
  <2>2. ~w'.err => ~w.err
    BY <1>5
  <2> HIDE DEF claim, err
  <2>3. EndsClean'
    BY <1>5, <2>1 DEF EndsClean, SameWho
  <2> QED BY <1>3, <1>5, <1>6, <1>7, <2>1, <2>2, <2>3
       DEF Inv, CleanInv, Carries, SameMounts, SameWho, NoWork
<1>10. ImageInv'
  BY <1>5, ImageKept DEF Inv, SameData
<1> QED BY <1>3, <1>4, <1>5, <1>8, <1>9, <1>10 DEF Inv

\* The completion is announced before the deferred functions run.
LEMMA PublishStep ==
  ASSUME Inv, NEW s, Onward(s), Carries(s), w.mode \in Early,
         w' = [w EXCEPT !.pc = s, !.announced = TRUE], UNCHANGED <<disk, src>>
  PROVE  Inv'
<1>1. s \in Stages BY DEF Onward
<1>2. /\ Shape' /\ SameWho /\ SameOpen /\ SameDeed /\ SameMounts /\ SameLease /\ SameData
      /\ w'.pc = s /\ w'.err = w.err /\ w'.status = w.status
  BY <1>1, PublishesShape, Zenon DEF Inv
<1>3. TargetInv'
  BY <1>2, TargetOnward, Quiet DEF Inv, SameTarget
<1>4. CleanInv'
  <2>1. Place = w.pc /\ Place' = w'.pc
    BY <1>2 DEF Place, Onward
  <2>2. w.status = "none"
    BY DEF Inv, CleanInv, Onward
  <2>3. EndsClean'
    BY <1>2, <2>2 DEF EndsClean, SameWho
  <2> QED BY <1>2, <2>1, <2>2, <2>3, Quiet
       DEF Inv, CleanInv, Carries, Onward, SameWho, SameLease, SameMounts
<1>5. ImageInv'
  BY <1>2, ImageKept DEF Inv, SameData, SameLease, Onward
<1> QED BY <1>2, <1>3, <1>4, <1>5, Quiet DEF Inv

-----------------------------------------------------------------------------
(* The stages of the writers, by phase *)

\* The sets of stages are disjoint.
LEMMA Disjoint ==
  /\ \A s \in ReviewStages :
       s \notin ClosedStages \cup UnopenedStages \cup ClosingStages \cup Asking
  /\ \A s \in CheckedStages :
       s \notin ClosedStages \cup UnopenedStages \cup ClosingStages \cup ReviewStages \cup Asking
  /\ \A s \in WritingStages :
       s \notin ClosedStages \cup UnopenedStages \cup ClosingStages \cup ReviewStages
                  \cup CheckedStages \cup Asking
  /\ \A s \in ClosingStages : s \notin ClosedStages \cup UnopenedStages \cup Asking
  /\ \A s \in UnopenedStages : s \notin ClosedStages \cup Asking
  /\ \A s \in ClosedStages : s \notin Asking
<1>1. \A s \in ReviewStages :
       s \notin ClosedStages \cup UnopenedStages \cup ClosingStages \cup Asking
  BY DEF ReviewStages, ClosedStages, UnopenedStages, ClosingStages, Asking, Preparatory
<1>2. \A s \in CheckedStages :
       s \notin ClosedStages \cup UnopenedStages \cup ClosingStages \cup ReviewStages \cup Asking
  BY DEF ReviewStages, ClosedStages, UnopenedStages, ClosingStages, CheckedStages, Asking,
         Preparatory
<1>3. \A s \in WritingStages :
       s \notin ClosedStages \cup UnopenedStages \cup ClosingStages \cup CheckedStages \cup Asking
  BY DEF ClosedStages, UnopenedStages, ClosingStages, CheckedStages, WritingStages, Asking,
         Preparatory
<1>4. \A s \in WritingStages : s \notin ReviewStages
  BY DEF ReviewStages, WritingStages
<1>5. \A s \in ClosingStages : s \notin ClosedStages \cup UnopenedStages \cup Asking
  BY DEF ClosingStages, ClosedStages, UnopenedStages, Asking, Preparatory
<1>6. \A s \in UnopenedStages : s \notin ClosedStages \cup Asking
  BY DEF ClosedStages, UnopenedStages, Asking, Preparatory
<1>7. \A s \in ClosedStages : s \notin Asking
  BY DEF ClosedStages, Asking
<1> QED BY <1>1, <1>2, <1>3, <1>4, <1>5, <1>6, <1>7

\* The phase of each of them.
LEMMA Phases ==
  ASSUME NEW m \in Modes, m # "raw", NEW s
  PROVE  /\ s \in UnopenedStages => Phase(m, s) = "unopened"
         /\ s \in ReviewStages => Phase(m, s) = "reviewing"
         /\ s \in CheckedStages => Phase(m, s) = "checked"
         /\ s \in WritingStages => Phase(m, s) = "writing"
         /\ s \in ClosingStages => Phase(m, s) = "closing"
         /\ s \in ClosedStages => Phase(m, s) = "closed"
<1>1. m \notin {"none", "extracted"} BY DEF Modes
<1>2. ~Finishing(m, s) BY DEF Finishing
<1> QED BY <1>1, <1>2, Disjoint DEF Phase

\* While it works on the plan or on the target a builder has the same duties everywhere.
LEMMA Duties ==
  ASSUME NEW m \in Builders, NEW s \in ReviewStages \cup CheckedStages \cup WritingStages
  PROVE  /\ m \in Modes /\ m # "raw" /\ m \notin {"none", "extracted", "freedos", "qualify"}
         /\ ~NoWork(m, s) /\ ~Freed(m, s) /\ ~Finishing(m, s)
         /\ Left(m, s) = IF s \in {"persist-root", "persist-umount"}
                         THEN Own(m) \cup {"persistence"} ELSE Own(m)
<1>1. /\ m \in Modes /\ m # "raw" /\ m \notin {"none", "extracted", "freedos", "qualify"}
      /\ ~Finishing(m, s)
  BY DEF Modes, Builders, Finishing
<1>2. Phase(m, s) \in {"reviewing", "checked", "writing"}
  BY <1>1, Phases
<1>3. s \notin ClosingStages /\ s \notin ClosedStages /\ s \notin UnopenedStages
  BY Disjoint
<1>4. s \notin {"clean-work", "close", "clean-iso", "clean-os", "clean-usb", "undo-persist"}
  BY <1>3 DEF ClosingStages
<1>5. ~NoWork(m, s)
  BY <1>2, <1>4 DEF NoWork
<1>6. ~Freed(m, s)
  BY <1>1, <1>3 DEF Freed, ClosedStages, UnopenedStages, Preparatory
<1>7. Left(m, s) = IF s \in {"persist-root", "persist-umount"}
                         THEN Own(m) \cup {"persistence"} ELSE Own(m)
  BY <1>1, <1>2, <1>4 DEF Left
<1> QED BY <1>1, <1>5, <1>6, <1>7

\* And nothing more is asked of it when it starts to clean up.
LEMMA CleanupDuties ==
  ASSUME NEW m \in Builders
  PROVE  /\ \A s \in ClosingStages \ {"close"} : ~NoWork(m, s)
         /\ \A s \in ClosingStages : ~Freed(m, s) /\ ~Finishing(m, s) /\ Phase(m, s) = "closing"
         /\ Left(m, "undo") = Own(m)
         /\ Left(m, "undo-persist") = Own(m) \cup {"persistence"}
         /\ Left(m, "clean-os") = {"iso", "target"} /\ Left(m, "clean-usb") = {"iso", "target"}
         /\ Left(m, "clean-iso") = {"iso"}
         /\ Left(m, "clean-work") = {} /\ Left(m, "close") = {}
         /\ NoWork(m, "close")
<1>1. /\ m \in Modes /\ m # "raw" /\ m \notin {"none", "extracted", "freedos", "qualify"}
  BY DEF Modes, Builders
<1>2. \A s \in ClosingStages : Phase(m, s) = "closing"
  BY <1>1, Phases
<1>3. \A s \in ClosingStages : ~Finishing(m, s)
  BY <1>1 DEF Finishing
<1>4. \A s \in ClosingStages : s \notin ClosedStages \cup UnopenedStages
  BY Disjoint
<1>5. \A s \in ClosingStages : ~Freed(m, s)
  BY <1>1, <1>3, <1>4 DEF Freed, ClosedStages, UnopenedStages, Preparatory
<1>6. \A s \in ClosingStages \ {"close"} : ~NoWork(m, s)
  BY <1>2 DEF NoWork
<1>7. {"undo", "undo-persist", "clean-os", "clean-usb", "clean-iso", "clean-work", "close"}
         \subseteq ClosingStages
  BY DEF ClosingStages
<1>8. /\ Left(m, "undo") = Own(m)
      /\ Left(m, "undo-persist") = Own(m) \cup {"persistence"}
      /\ Left(m, "clean-os") = {"iso", "target"} /\ Left(m, "clean-usb") = {"iso", "target"}
      /\ Left(m, "clean-iso") = {"iso"}
      /\ Left(m, "clean-work") = {} /\ Left(m, "close") = {}
  BY <1>1, <1>2, <1>7 DEF Left
<1> QED BY <1>2, <1>3, <1>5, <1>6, <1>8 DEF NoWork

\* Every stage is one of the stages.
LEMMA StagesOf ==
  /\ UnopenedStages \subseteq Stages /\ ReviewStages \subseteq Stages
  /\ CheckedStages \subseteq Stages /\ WritingStages \subseteq Stages
  /\ ClosingStages \subseteq Stages /\ ClosedStages \subseteq Stages
  /\ Preparatory \subseteq UnopenedStages
BY DEF Stages, UnopenedStages

\* A builder may go on with its review, or fail.
LEMMA Reviewing ==
  ASSUME w.mode \in Builders, w.pc \in ReviewStages, NEW s \in ReviewStages \cup {"undo"}
  PROVE  /\ Onward(s) /\ Carries(s) /\ Phase(w.mode, w.pc) = "reviewing"
         /\ ~Finishing(w.mode, s) /\ Phase(w.mode, "undo") = "closing" /\ ~NoWork(w.mode, s)
         /\ s # "undo" => Left(w.mode, s) = Own(w.mode)
<1>1. w.mode \in Modes /\ w.mode # "raw"
  BY DEF Builders, Modes
<1>2. "undo" \in ClosingStages /\ "undo" \in Stages
  BY StagesOf DEF ClosingStages
<1>3. /\ w.pc \notin Asking \cup {"returned", "ended"} /\ s \notin Asking \cup Preparatory
      /\ s # "ended" /\ s \in Stages
  BY <1>2, Disjoint, StagesOf DEF ClosedStages
<1>4. ReviewStages \cap {"persist-root", "persist-umount"} = {}
  BY DEF ReviewStages
<1>5. Phase(w.mode, w.pc) = "reviewing" /\ Phase(w.mode, s) \in {"reviewing", "closing"}
  BY <1>1, <1>2, Phases
<1>6. ~NoWork(w.mode, s) /\ ~Freed(w.mode, s) /\ ~Finishing(w.mode, s)
  BY <1>2, Duties, CleanupDuties
<1>7. Left(w.mode, w.pc) = Own(w.mode) /\ Left(w.mode, s) = Own(w.mode)
  BY <1>4, Duties, CleanupDuties
<1> QED
  BY <1>2, <1>3, <1>5, <1>6, <1>7, CleanupDuties DEF Onward, Carries

\* It may go on with its work on the target.
LEMMA Working ==
  ASSUME w.mode \in Builders, w.pc \in WritingStages,
         NEW s \in WritingStages \cup {"undo", "undo-persist"}
  PROVE  /\ Onward(s) /\ Phase(w.mode, w.pc) = "writing"
         /\ ~Finishing(w.mode, s) /\ Phase(w.mode, "undo") = "closing"
         /\ w.pc \notin {"persist-root", "persist-umount"} => Carries(s)
         /\ s \in {"persist-root", "persist-umount"} => Carries(s)
         /\ Left(w.mode, s) \in {Own(w.mode), Own(w.mode) \cup {"persistence"}}
         /\ s \in {"persist-root", "persist-umount"} =>
               Left(w.mode, s) = Own(w.mode) \cup {"persistence"}
         /\ Left(w.mode, w.pc) \subseteq Own(w.mode) \cup {"persistence"}
<1>1. w.mode \in Modes /\ w.mode # "raw"
  BY DEF Builders, Modes
<1>2. {"undo", "undo-persist"} \subseteq ClosingStages /\ {"undo", "undo-persist"} \subseteq Stages
  BY StagesOf DEF ClosingStages
<1>3. /\ w.pc \notin Asking \cup {"returned", "ended"} /\ s \notin Asking \cup Preparatory
      /\ s # "ended" /\ s \in Stages
  BY <1>2, Disjoint, StagesOf DEF ClosedStages
<1>4. Phase(w.mode, w.pc) = "writing" /\ Phase(w.mode, s) \in {"writing", "closing"}
  BY <1>1, <1>2, Phases
<1>5. ~NoWork(w.mode, s) /\ ~Freed(w.mode, s) /\ ~Finishing(w.mode, s)
  BY <1>2, Duties, CleanupDuties
<1>6. Onward(s)
  BY <1>3, <1>4, <1>5 DEF Onward
<1>7. Left(w.mode, s) \in {Own(w.mode), Own(w.mode) \cup {"persistence"}}
  BY Duties, CleanupDuties
<1>8. /\ w.pc \notin {"persist-root", "persist-umount"} => Left(w.mode, w.pc) = Own(w.mode)
      /\ Left(w.mode, w.pc) \subseteq Own(w.mode) \cup {"persistence"}
  BY Duties
<1>9. s \in {"persist-root", "persist-umount"} =>
        Left(w.mode, s) = Own(w.mode) \cup {"persistence"}
  <2>1. s \in {"persist-root", "persist-umount"} => s \in WritingStages
    BY DEF WritingStages
  <2> QED BY <2>1, Duties
<1>10. w.pc \notin {"persist-root", "persist-umount"} => Carries(s)
  BY <1>7, <1>8 DEF Carries
<1>11. s \in {"persist-root", "persist-umount"} => Carries(s)
  BY <1>8, <1>9 DEF Carries
<1> QED
  BY <1>2, <1>4, <1>5, <1>6, <1>7, <1>8, <1>9, <1>10, <1>11, CleanupDuties

-----------------------------------------------------------------------------
(* The steps of every builder *)

\* Before the target is opened a builder has nothing.
LEMMA Opening ==
  ASSUME NEW m \in Builders, NEW s \in UnopenedStages
  PROVE  /\ m \in Modes /\ m # "raw" /\ m \notin {"none", "extracted", "freedos", "qualify"}
         /\ Phase(m, s) = "unopened" /\ NoWork(m, s) /\ ~Finishing(m, s)
         /\ Left(m, s) = {}
         /\ s \in {"hash", "target", "loader"} => ~Freed(m, s)
         /\ s = "open" => Freed(m, s)
<1>1. /\ m \in Modes /\ m # "raw" /\ m \notin {"none", "extracted", "freedos", "qualify"}
  BY DEF Builders, Modes
<1>2. Phase(m, s) = "unopened" /\ ~Finishing(m, s)
  BY <1>1, Phases DEF Finishing
<1>3. NoWork(m, s)
  BY <1>2 DEF NoWork
<1>4. Left(m, s) = {}
  BY <1>1, <1>2 DEF Left
<1> QED BY <1>1, <1>2, <1>3, <1>4 DEF Freed

\* The image is held before it is hashed.
LEMMA BuilderHold ==
  ASSUME Inv, w.mode \in Builders, w.pc = "open", AcquireReadLease("hash")
  PROVE  Inv'
<1>1. {"open", "hash"} \subseteq UnopenedStages
  BY DEF UnopenedStages
<1>2. "hash" \in Stages /\ w.pc \notin Asking \cup {"returned", "ended"}
      /\ "hash" \notin Asking \cup Preparatory
  BY <1>1, StagesOf DEF Asking, Preparatory
<1>3. Carries("hash") BY <1>1, Opening DEF Carries
<1> QED BY <1>1, <1>2, <1>3, Opening, AcquireStep

\* Then it is hashed, and the validator's loader read.
LEMMA BuilderPrepares ==
  ASSUME Inv, w.mode \in Builders, w.pc \in {"hash", "loader"}, NEW s \in {"loader", "target"},
         HashFirst(s) \/ Pass(s)
  PROVE  Inv'
<1>1. {"hash", "loader", "target"} \subseteq UnopenedStages
  BY DEF UnopenedStages
<1>2. s \in Stages /\ w.pc \notin Asking \cup {"returned", "ended"}
      /\ s \notin Asking \cup Preparatory
  BY <1>1, StagesOf DEF Asking, Preparatory
<1>3. Onward(s) /\ Carries(s)
  BY <1>1, <1>2, Opening DEF Onward, Carries
<1> QED BY <1>3, HashStep, PassStep

\* The target is opened.
LEMMA BuilderOpen ==
  ASSUME Inv, w.mode \in Builders, w.pc = "target", OpenTarget("work")
  PROVE  Inv'
<1>1. "target" \in UnopenedStages /\ "work" \in ReviewStages
  BY DEF UnopenedStages, ReviewStages
<1>2. "work" \in Stages /\ w.pc \notin Asking \cup {"returned", "ended"}
      /\ "work" \notin Asking \cup Preparatory
  BY <1>1, StagesOf DEF Asking, Preparatory
<1>3. Left(w.mode, w.pc) = {} /\ Phase(w.mode, w.pc) = "unopened"
  BY <1>1, Opening
<1>4. Phase(w.mode, "work") = "reviewing" /\ ~NoWork(w.mode, "work") /\ ~Freed(w.mode, "work")
      /\ ~Finishing(w.mode, "work")
  BY <1>1, Duties, Phases
<1>5. Carries("work")
  BY <1>3 DEF Carries
<1> QED BY <1>2, <1>3, <1>4, <1>5, OpenStep

\* The workspace is made.
LEMMA BuilderWork ==
  ASSUME Inv, w.mode \in Builders, w.pc = "work",
         w' = [w EXCEPT !.pc = "mount-iso", !.work = TRUE], UNCHANGED <<disk, src>>
  PROVE  Inv'
<1>1. {"work", "mount-iso"} \subseteq ReviewStages
  BY DEF ReviewStages
<1> QED BY <1>1, Reviewing, WorkStep, Zenon

\* The image is looked at, mounted, staged, looked at again, or refused.
LEMMA ReviewPass ==
  ASSUME Inv, w.mode \in Builders, w.pc \in ReviewStages, NEW s \in ReviewStages,
         Pass(s) \/ Observe(s) \/ Stage(s)
  PROVE  Inv'
BY Reviewing, PassStep, ObserveStep, StageStep

\* The image, or the boot image inside it, is mounted.
LEMMA ReviewMount ==
  ASSUME Inv, w.mode \in Builders, w.pc \in ReviewStages, NEW s \in ReviewStages,
         NEW m \in {"iso", "overlay"}, m = "overlay" => w.mode \in Chosen, MountOwn(m, s)
  PROVE  Inv'
<1>1. m \in Own(w.mode)
  BY DEF Own, Builders, Chosen
<1>2. s # "undo"
  BY DEF ReviewStages
<1>3. m \in Left(w.mode, s) /\ m \in OwnMounts
  BY <1>1, <1>2, Reviewing DEF OwnMounts
<1>4. Onward(s) /\ Carries(s) /\ Onward("undo") /\ ~Finishing(w.mode, "undo")
  BY Reviewing
<1> QED BY <1>3, <1>4, MountStep DEF MountOwn

\* It is not what was hashed.
LEMMA ReviewRecheck ==
  ASSUME Inv, w.mode \in Builders, w.pc \in ReviewStages, NEW s \in ReviewStages,
         Recheck(s, "untouched")
  PROVE  Inv'
BY Reviewing, RecheckStep

\* What it says of the target is true.
LEMMA ReviewRefuses ==
  ASSUME Inv, w.mode \in Builders, w.pc \in ReviewStages,
         w' = [w EXCEPT !.pc = "undo", !.err = TRUE, !.claim = "untouched"],
         UNCHANGED <<disk, src>>
  PROVE  Inv'
<1>1. w.pc \notin Asking
  BY Reviewing DEF Onward
<1>2. w.changed = {}
  BY <1>1, Reviewing DEF Inv, TargetInv, PhaseInv, Now, Place
<1>3. "untouched" \in Claims BY DEF Claims
<1> QED BY <1>2, <1>3, Reviewing, SaysStep, Zenon

\* The command looks at the target for the last time.
LEMMA BuilderAsk ==
  ASSUME Inv, w.mode \in Builders, w.pc \in ReviewStages, NEW s \in {"staging", "erase"},
         NEW strict \in BOOLEAN, Ask(strict, s), UNCHANGED <<disk, src>>
  PROVE  Inv'
<1>1. s \in CheckedStages /\ s \in Answers /\ s \notin Preparatory
  BY DEF CheckedStages, Answers, Preparatory
<1>2. w.mode \in Modes /\ w.mode # "raw" /\ w.pc \notin Asking \cup ClosedStages
      /\ w.pc # "ended" /\ w.pc # "returned"
  BY Duties, Disjoint DEF ClosedStages
<1>3. w.announced => w.mode \in Early
  BY <1>2 DEF Inv, CleanInv
<1>4. Phase(w.mode, w.pc) = "reviewing" /\ Phase(w.mode, s) = "checked"
  BY <1>1, <1>2, Phases
<1>5. ~NoWork(w.mode, s) /\ ~Freed(w.mode, s) /\ ~Finishing(w.mode, s)
  BY <1>1, Duties
<1>6. {w.pc, s} \cap {"persist-root", "persist-umount"} = {}
  BY DEF ReviewStages
<1>7. Carries(s)
  BY <1>1, <1>6, Duties DEF Carries
<1> QED BY <1>1, <1>2, <1>3, <1>4, <1>5, <1>7, AskStep

\* The target counts as changed.
LEMMA BuilderTouch ==
  ASSUME Inv, w.mode \in Builders, w.pc \in CheckedStages,
         w' = [w EXCEPT !.pc = "wipe", !.touched = TRUE], UNCHANGED <<disk, src>>
  PROVE  Inv'
<1>1. "wipe" \in WritingStages /\ "wipe" \in Stages /\ "wipe" \notin Asking \cup Preparatory
  BY StagesOf DEF WritingStages, Asking, Preparatory
<1>2. w.mode \in Modes /\ w.mode # "raw" /\ w.pc \notin Asking \cup ClosedStages
      /\ w.pc \notin {"returned", "ended"}
  BY Duties, Disjoint DEF ClosedStages
<1>3. Phase(w.mode, w.pc) = "checked" /\ Phase(w.mode, "wipe") = "writing"
  BY <1>1, <1>2, Phases
<1>4. ~NoWork(w.mode, "wipe") /\ ~Freed(w.mode, "wipe") /\ ~Finishing(w.mode, "wipe")
  BY <1>1, Duties
<1>5. {w.pc, "wipe"} \cap {"persist-root", "persist-umount"} = {}
  BY DEF CheckedStages
<1>6. Carries("wipe")
  BY <1>1, <1>5, Duties DEF Carries
<1> QED BY <1>1, <1>2, <1>3, <1>4, <1>6, TouchStep, Zenon

\* Work on the target that changes nothing the command has to answer for.
LEMMA WorkPass ==
  ASSUME Inv, w.mode \in Builders, w.pc \in WritingStages,
         w.pc \notin {"persist-root", "persist-umount"}, NEW s \in WritingStages, Pass(s)
  PROVE  Inv'
BY Working, PassStep

\* The kernel reads the table, partitions appear, mounts go.
LEMMA WorkKernel ==
  ASSUME Inv, w.mode \in Builders, w.pc \in WritingStages,
         w.pc \notin {"persist-root", "persist-umount"}, NEW s \in WritingStages,
         Reread(s) \/ WaitPartition(s) \/ UnmountPartition(s)
  PROVE  Inv'
<1>1. CASE Reread(s)
  <2>1. (mounts = {} /\ Held.table = "plan") \in BOOLEAN
    OBVIOUS
  <2>2. DiskTypeOK' /\ port' = port /\ src' = src /\ Goto(s)
    BY <1>1, <2>1 DEF Reread, Inv, DiskTypeOK
  <2> QED BY <2>2, Working, GotoStep
<1>2. CASE WaitPartition(s)
  BY <1>2, Working, PassStep DEF WaitPartition, Pass
<1>3. CASE UnmountPartition(s)
  <2>1. DiskTypeOK' /\ port' = port /\ src' = src /\ Goto(s)
    BY <1>3 DEF UnmountPartition, Inv, DiskTypeOK
  <2> QED BY <2>1, Working, GotoStep
<1> QED BY <1>1, <1>2, <1>3

\* The target gets new contents.
LEMMA WorkChange ==
  ASSUME Inv, w.mode \in Builders, w.pc \in WritingStages,
         NEW s \in WritingStages,
         w.pc \notin {"persist-root", "persist-umount"} \/ s \in {"persist-root", "persist-umount"},
         NEW c \in Cells, Change(s, c)
  PROVE  Inv'
BY Working, ChangeStep

\* It gets a new table, boot files, or a filesystem.
LEMMA WorkTable ==
  ASSUME Inv, w.mode \in Builders, w.pc \in WritingStages,
         w.pc \notin {"persist-root", "persist-umount"}, NEW s \in WritingStages,
         Wipe(s) \/ WriteTable(s) \/ MakeFilesystem(s) \/ \E boot \in Boots : BootChange(s, boot)
  PROVE  Inv'
<1>1. Onward(s) /\ Carries(s) /\ Phase(w.mode, w.pc) = "writing"
  BY Working
<1>2. CASE Wipe(s)
  <2>1. [table |-> "none", fs |-> "none"] \in Cells
    BY Literals DEF Cells
  <2> QED BY <1>1, <1>2, <2>1, ChangeStep DEF Wipe
<1>3. CASE WriteTable(s)
  BY <1>1, <1>3, WriteTableStep
<1>4. CASE MakeFilesystem(s)
  <2>1. [Held EXCEPT !.fs = "empty"] \in Cells
    BY <1>1, OpenWhileWriting, Literals DEF Cells, Onward
  <2> QED BY <1>1, <1>4, <2>1, ChangeStep DEF MakeFilesystem
<1>5. CASE \E boot \in Boots : BootChange(s, boot)
  BY <1>1, <1>5, BootStep
<1> QED BY <1>2, <1>3, <1>4, <1>5

\* Files of the image are copied to it.
LEMMA WorkCopy ==
  ASSUME Inv, w.mode \in Builders, w.pc \in WritingStages,
         w.pc \notin {"persist-root", "persist-umount"}, NEW s \in WritingStages,
         NEW content \in Digests,
         CopyFiles(s, content) \/ Change(s, [Held EXCEPT !.fs = Mixed(@, content)])
  PROVE  Inv'
<1>1. Onward(s) /\ Carries(s) /\ Phase(w.mode, w.pc) = "writing"
  BY Working
<1>2. [Held EXCEPT !.fs = Mixed(@, content)] \in Cells
  BY <1>1, OpenWhileWriting, MixedContent, BytesRead DEF Cells, Onward
<1> QED BY <1>1, <1>2, ChangeStep DEF CopyFiles

\* The target is mounted.
LEMMA WorkMount ==
  ASSUME Inv, w.mode \in Builders, w.pc \in WritingStages,
         w.pc \notin {"persist-root", "persist-umount"}, NEW s \in WritingStages,
         NEW m \in Own(w.mode),
         MountOwn(m, s) \/ MountAlone(m, s) \/ MountShared(m)
  PROVE  Inv'
<1>1. /\ Onward(s) /\ Carries(s) /\ Onward("undo") /\ ~Finishing(w.mode, "undo")
      /\ Left(w.mode, s) \in {Own(w.mode), Own(w.mode) \cup {"persistence"}}
  BY Working
<1>2. m \in Left(w.mode, s) /\ m \in OwnMounts
  BY <1>1 DEF Own, OwnMounts, TargetMounts
<1>3. CASE MountOwn(m, s) \/ MountAlone(m, s)
  BY <1>1, <1>2, <1>3, MountStep DEF MountOwn, MountAlone
<1>4. CASE MountShared(m)
  BY <1>1, <1>2, <1>4, SharedStep
<1> QED BY <1>3, <1>4

\* A mount goes at the end of a phase.
LEMMA WorkUmount ==
  ASSUME Inv, w.mode \in Builders, w.pc \in WritingStages,
         w.pc \notin {"persist-root", "persist-umount"}, NEW s \in WritingStages \cup {"undo"},
         NEW m, UmountOwn(m, s)
  PROVE  Inv'
<1>1. Onward(s) /\ Left(w.mode, w.pc) \ {m} \subseteq Left(w.mode, s)
  BY Working DEF Carries
<1> QED BY <1>1, UmountStep

\* What is written reaches the medium.
LEMMA WorkFlush ==
  ASSUME Inv, w.mode \in Builders, w.pc \in WritingStages,
         w.pc \notin {"persist-root", "persist-umount"}, NEW s \in WritingStages, Flush(s)
  PROVE  Inv'
BY Working, FlushStep

\* The image is looked at again after the copy.
LEMMA WorkRecheck ==
  ASSUME Inv, w.mode \in Builders, w.pc \in WritingStages,
         w.pc \notin {"persist-root", "persist-umount"}, NEW s \in WritingStages,
         Recheck(s, "incomplete")
  PROVE  Inv'
BY Working, RecheckStep

\* The completion is announced early.
LEMMA WorkPublish ==
  ASSUME Inv, w.mode \in Builders, w.mode \in Early, w.pc \in WritingStages,
         w.pc \notin {"persist-root", "persist-umount"},
         w' = [w EXCEPT !.pc = "undo", !.announced = TRUE], UNCHANGED <<disk, src>>
  PROVE  Inv'
BY Working, PublishStep, Zenon

\* A step fails.
LEMMA BuilderFail ==
  ASSUME Inv, w.mode \in Builders,
         w.pc \in UnopenedStages \cup ReviewStages \cup CheckedStages \cup WritingStages,
         NEW s \in {"undo", "undo-persist"},
         w' = [w EXCEPT !.pc = s, !.err = TRUE], UNCHANGED <<disk, src>>
  PROVE  Inv'
<1>1. s \in ClosingStages /\ s \in Stages /\ s # "close" /\ s \notin Preparatory
  BY StagesOf DEF ClosingStages, Preparatory
<1>2. w.pc \notin Asking /\ s \notin Asking /\ w.pc \notin {"returned", "ended"} /\ s # "ended"
  BY <1>1, Disjoint DEF ClosedStages
<1>3. Phase(w.mode, s) = "closing" /\ ~NoWork(w.mode, s) /\ ~Freed(w.mode, s)
      /\ ~Finishing(w.mode, s)
  BY <1>1, CleanupDuties
<1>4. Onward(s)
  BY <1>1, <1>2, <1>3 DEF Onward
<1> QED BY <1>3, <1>4, ErrStep, Zenon

\* It fails half-way.
LEMMA BuilderTorn ==
  ASSUME Inv, w.mode \in Builders, w.pc \in WritingStages, FailTorn(w.mode, {w.pc})
  PROVE  Inv'
BY Working, TornStep DEF FailTorn

\* The deferred functions run.
LEMMA BuilderCleans ==
  ASSUME Inv, w.mode \in Builders, NEW s \in {"clean-os", "clean-usb", "clean-iso", "clean-work"},
         NEW m, Left(w.mode, w.pc) \ {m} \subseteq Left(w.mode, s),
         w.pc \in ClosingStages, w.pc # "close", CleanMount(m, s)
  PROVE  Inv'
<1>1. s \in ClosingStages /\ s \in Stages /\ s # "close" /\ s \notin Preparatory
  BY StagesOf DEF ClosingStages, Preparatory
<1>2. w.pc \notin Asking /\ s \notin Asking /\ w.pc \notin {"returned", "ended"} /\ s # "ended"
  BY <1>1, Disjoint DEF ClosedStages
<1>3. Onward(s) /\ ~Finishing(w.mode, s)
  BY <1>1, <1>2, CleanupDuties DEF Onward
<1> QED BY <1>3, CleanMountStep

\* The workspace goes, when nothing is left in it.
LEMMA BuilderCleansWork ==
  ASSUME Inv, w.mode \in Builders, w.pc = "clean-work", CleanWork("close")
  PROVE  Inv'
<1>1. {"clean-work", "close"} \subseteq ClosingStages /\ "close" \in Stages
  BY StagesOf DEF ClosingStages
<1> QED BY <1>1, CleanupDuties, CleanWorkStep

\* The target is closed.
LEMMA BuilderCloses ==
  ASSUME Inv, w.mode \in Builders, w.pc = "close", CloseTarget("release")
  PROVE  Inv'
<1>1. "close" \in ClosingStages /\ "release" \in ClosedStages /\ "release" \in Stages
      /\ {"release", "close"} \cap (Asking \cup Preparatory) = {}
  BY StagesOf DEF ClosingStages, ClosedStages, Asking, Preparatory
<1>2. Phase(w.mode, "release") = "closed" /\ ~Finishing(w.mode, "release")
  BY <1>1, Phases DEF Builders, Modes, Finishing
<1>3. ~Freed(w.mode, "release")
  BY <1>2 DEF Freed, Builders
<1>4. Carries("release")
  BY CleanupDuties DEF Carries
<1> QED BY <1>1, <1>2, <1>3, <1>4, CleanupDuties, CloseStep

\* The image is let go.
LEMMA BuilderReleases ==
  ASSUME Inv, w.mode \in Builders, w.pc = "release", NEW s \in {"returned", "emit"},
         s = "emit" <=> w.mode = "linux-persistent", FinishLease(s)
  PROVE  Inv'
<1>1. "release" \in ClosedStages /\ s \in ClosedStages /\ s \in Stages
      /\ {"release", s} \cap (Asking \cup Preparatory) = {}
  BY StagesOf DEF ClosingStages, ClosedStages, Asking, Preparatory
<1>2. Phase(w.mode, "release") = "closed" /\ Phase(w.mode, s) = "closed"
      /\ ~Finishing(w.mode, s) /\ w.mode # "qualify"
  BY <1>1, Phases DEF Builders, Modes, Finishing
<1>3. Carries(s)
  BY <1>2 DEF Carries, Left, Builders
<1> QED BY <1>1, <1>2, <1>3, FinishLeaseStep

\* What is on the target while it is written, and what becomes of it.
LEMMA BuilderCells ==
  ASSUME Inv, w.mode \in Builders, w.pc \in WritingStages
  PROVE  Held \in Cells /\ [Held EXCEPT !.fs = "none"] \in Cells
<1>1. Held \in Cells
  BY Working, OpenWhileWriting, Phases, Disjoint DEF Builders, Modes
<1> QED BY <1>1, Literals DEF Cells

-----------------------------------------------------------------------------
(* Windows media *)

\* Windows media: the image is held and hashed, the target opened, the plan made.
LEMMA WindowsOpens ==
  ASSUME Inv, WinHold \/ WinHash \/ WinOpenTarget \/ WinWorkspace \/ WinMountISO
  PROVE  Inv'
<1> w.mode = "windows" /\ w.mode \in Builders
  BY DEF WinHold, WinHash, WinOpenTarget, WinWorkspace, WinMountISO, Win, At, Builders
<1>1. CASE WinHold
  BY <1>1, BuilderHold DEF WinHold, Win, At
<1>2. CASE WinHash
  BY <1>2, BuilderPrepares DEF WinHash, Win, At
<1>3. CASE WinOpenTarget
  BY <1>3, BuilderOpen DEF WinOpenTarget, Win, At
<1>4. CASE WinWorkspace
  BY <1>4, BuilderWork DEF WinWorkspace, Win, At
<1>5. CASE WinMountISO
  <2>1. w.pc \in ReviewStages /\ "inspect" \in ReviewStages /\ MountOwn("iso", "inspect")
    BY <1>5 DEF WinMountISO, Win, At, ReviewStages
  <2> QED BY <2>1, ReviewMount
<1> QED BY <1>1, <1>2, <1>3, <1>4, <1>5

\* The plan is made from the image.
LEMMA WindowsReviews ==
  ASSUME Inv,
         \/ InspectMountedISO \/ FindExistingSplitFiles \/ AnalyzeCapabilities
         \/ BindBIOSMetadata \/ ResolveWindowsLayout \/ ScanDBX \/ ValidateFATCompatibility
         \/ InspectWindowsCA2023Capability \/ StageWindowsCA2023 \/ NoWindowsCA2023
         \/ InspectDriverFolder \/ PreparePlanAnswerFile \/ NoAnswerFile \/ FinalizePlan
         \/ (\E split \in BOOLEAN : TargetFits(split))
         \/ PrepareSplitImage \/ WinRecheck \/ WinBeforeDestructive
  PROVE  Inv'
<1>1. CASE \/ InspectMountedISO \/ FindExistingSplitFiles \/ AnalyzeCapabilities
           \/ BindBIOSMetadata \/ ResolveWindowsLayout \/ ValidateFATCompatibility
           \/ InspectWindowsCA2023Capability
  <2>1. /\ w.mode \in Builders /\ w.pc \in ReviewStages
        /\ \E s \in ReviewStages : Pass(s) \/ Observe(s) \/ Stage(s)
    BY <1>1 DEF InspectMountedISO, FindExistingSplitFiles, AnalyzeCapabilities, BindBIOSMetadata,
                ResolveWindowsLayout, ValidateFATCompatibility, InspectWindowsCA2023Capability,
                Win, At, Builders, ReviewStages
  <2> QED BY <2>1, ReviewPass
<1>2. CASE \/ NoWindowsCA2023 \/ InspectDriverFolder \/ PreparePlanAnswerFile \/ NoAnswerFile
           \/ FinalizePlan \/ PrepareSplitImage \/ \E split \in BOOLEAN : TargetFits(split)
  <2>1. /\ w.mode \in Builders /\ w.pc \in ReviewStages
        /\ \E s \in ReviewStages : Pass(s) \/ Observe(s) \/ Stage(s)
    BY <1>2 DEF NoWindowsCA2023, InspectDriverFolder, PreparePlanAnswerFile, NoAnswerFile,
                FinalizePlan, PrepareSplitImage, TargetFits, Win, At, Builders, ReviewStages
  <2> QED BY <2>1, ReviewPass
<1>3. CASE ScanDBX \/ StageWindowsCA2023
  <2>1. w.mode \in Builders /\ w.pc \in ReviewStages
    BY <1>3 DEF ScanDBX, StageWindowsCA2023, Win, At, Builders, ReviewStages
  <2>2. \/ \E s \in ReviewStages : Pass(s) \/ Observe(s) \/ Stage(s)
        \/ /\ w' = [w EXCEPT !.pc = "undo", !.err = TRUE, !.claim = "untouched"]
           /\ UNCHANGED <<disk, src>>
    BY <1>3 DEF ScanDBX, StageWindowsCA2023, ReviewStages
  <2> QED BY <2>1, <2>2, ReviewPass, ReviewRefuses
<1>4. CASE WinRecheck
  <2>1. /\ w.mode \in Builders /\ w.pc \in ReviewStages /\ "review" \in ReviewStages
        /\ Recheck("review", "untouched")
    BY <1>4 DEF WinRecheck, Win, At, Builders, ReviewStages
  <2> QED BY <2>1, ReviewRecheck
<1>5. CASE WinBeforeDestructive
  <2>1. /\ w.mode \in Builders /\ w.pc \in ReviewStages
        /\ Ask(FALSE, "staging") /\ UNCHANGED <<disk, src>>
    BY <1>5 DEF WinBeforeDestructive, Win, At, Builders, ReviewStages
  <2> QED BY <2>1, BuilderAsk
<1> QED BY <1>1, <1>2, <1>3, <1>4, <1>5

\* Table, boot partition and filesystem are written.
LEMMA WindowsWrites ==
  ASSUME Inv,
         \/ VerifyWindowsCA2023Staging \/ WinWipe \/ WriteGPT \/ WriteMBR \/ VerifyGPTMetadata
         \/ WriteUEFINTFSPartitionImage \/ RereadPartitionTable \/ WaitForPartition
         \/ VerifyUEFINTFSPartition \/ UnmountDeviceMounts \/ ZeroPartition \/ QuickFormat
         \/ VerifyZeroPartition \/ WinFormat \/ ReadVolumeLabel \/ InstallLegacyBIOSBoot
         \/ NoLegacyBoot \/ WinUnmountAgain
  PROVE  Inv'
<1>1. CASE VerifyWindowsCA2023Staging
  <2>1. /\ w.mode \in Builders /\ w.pc \in CheckedStages
        /\ w' = [w EXCEPT !.pc = "wipe", !.touched = TRUE] /\ UNCHANGED <<disk, src>>
    BY <1>1 DEF VerifyWindowsCA2023Staging, Win, At, Builders, CheckedStages
  <2> QED BY <2>1, BuilderTouch
<1>2. CASE WinWipe \/ WriteGPT \/ WriteMBR \/ WinFormat
  <2>1. /\ w.mode \in Builders /\ w.pc \in WritingStages
        /\ w.pc \notin {"persist-root", "persist-umount"}
        /\ \E s \in WritingStages : Wipe(s) \/ WriteTable(s) \/ MakeFilesystem(s)
    BY <1>2 DEF WinWipe, WriteGPT, WriteMBR, WinFormat, Win, At, Builders, WritingStages
  <2> QED BY <2>1, WorkTable
<1>3. CASE WriteUEFINTFSPartitionImage
  <2>1. /\ w.mode \in Builders /\ w.pc \in WritingStages
        /\ w.pc \notin {"persist-root", "persist-umount"}
        /\ "reread" \in WritingStages /\ \E boot \in Boots : BootChange("reread", boot)
    BY <1>3, Zenon DEF WriteUEFINTFSPartitionImage, Win, At, Builders, WritingStages, BootChange, Boots,
                Contents
  <2> QED BY <2>1, WorkTable
<1>4. CASE RereadPartitionTable \/ WaitForPartition \/ UnmountDeviceMounts \/ WinUnmountAgain
  <2>1. /\ w.mode \in Builders /\ w.pc \in WritingStages
        /\ w.pc \notin {"persist-root", "persist-umount"}
        /\ \E s \in WritingStages : Reread(s) \/ WaitPartition(s) \/ UnmountPartition(s)
    BY <1>4 DEF RereadPartitionTable, WaitForPartition, UnmountDeviceMounts, WinUnmountAgain,
                Win, At, Builders, WritingStages
  <2> QED BY <2>1, WorkKernel
<1>5. CASE \/ VerifyGPTMetadata \/ VerifyUEFINTFSPartition \/ QuickFormat
           \/ VerifyZeroPartition \/ ReadVolumeLabel \/ NoLegacyBoot
  <2>1. /\ w.mode \in Builders /\ w.pc \in WritingStages
        /\ w.pc \notin {"persist-root", "persist-umount"} /\ \E s \in WritingStages : Pass(s)
    BY <1>5 DEF VerifyGPTMetadata, VerifyUEFINTFSPartition, QuickFormat, VerifyZeroPartition,
                ReadVolumeLabel, NoLegacyBoot, Win, At, Builders, WritingStages
  <2> QED BY <2>1, WorkPass
<1>6. CASE ZeroPartition \/ InstallLegacyBIOSBoot
  <2>1. /\ w.mode = "windows" /\ w.mode \in Builders /\ w.pc \in WritingStages
        /\ w.pc \notin {"persist-root", "persist-umount"}
        /\ \E s \in WritingStages, c \in {Held, [Held EXCEPT !.fs = "none"]} : Change(s, c)
    BY <1>6 DEF ZeroPartition, InstallLegacyBIOSBoot, Win, At, Builders, WritingStages
  <2>2. Held \in Cells /\ [Held EXCEPT !.fs = "none"] \in Cells
    BY <2>1, BuilderCells
  <2> QED BY <2>1, <2>2, WorkChange
<1> QED BY <1>1, <1>2, <1>3, <1>4, <1>5, <1>6

\* The files are copied and read back.
LEMMA WindowsCopies ==
  ASSUME Inv,
         \/ WinMountUSB \/ CopyTree \/ CopyImage \/ ApplyWindowsCA2023 \/ WinUmount \/ WinFlush
         \/ WinRemount \/ VerifyTree \/ VerifyStagedOnly \/ VerifyDirectory
         \/ VerifyWindowsCA2023 \/ WinCheckFilesystem \/ WinRecheckCopied \/ WinUmountISO
  PROVE  Inv'
<1>1. CASE WinMountUSB \/ WinRemount
  <2>1. /\ w.mode \in Builders /\ w.pc \in WritingStages /\ "target" \in Own(w.mode)
        /\ w.pc \notin {"persist-root", "persist-umount"}
        /\ \E s \in WritingStages : MountOwn("target", s)
    BY <1>1 DEF WinMountUSB, WinRemount, Win, At, Builders, WritingStages, Own, Chosen
  <2> QED BY <2>1, WorkMount
<1>2. CASE CopyTree \/ CopyImage \/ (ApplyWindowsCA2023 /\ w.staged # None)
  <2>1. /\ Bytes \in Digests /\ Mixed(w.staged, Bytes) \in Digests
        /\ w.staged # None => w.staged \in Digests
    BY BytesRead, MixedContent DEF Inv, Shape, Writers, DigestSet
  <2>2. /\ w.mode \in Builders /\ w.pc \in WritingStages
        /\ w.pc \notin {"persist-root", "persist-umount"}
        /\ \E s \in WritingStages, content \in Digests : CopyFiles(s, content)
    BY <1>2, <2>1 DEF CopyTree, CopyImage, ApplyWindowsCA2023, WithExclusiveMount, Win, At,
                     Builders,
                WritingStages
  <2> QED BY <2>2, WorkCopy
<1>3. CASE WinUmount \/ WinUmountISO \/ VerifyWindowsCA2023
  <2>1. /\ w.mode \in Builders /\ w.pc \in WritingStages
        /\ w.pc \notin {"persist-root", "persist-umount"}
        /\ \E s \in WritingStages \cup {"undo"}, m \in {"target", "iso"} : UmountOwn(m, s)
    BY <1>3 DEF WinUmount, WinUmountISO, VerifyWindowsCA2023, Win, At, Builders, WritingStages
  <2> QED BY <2>1, WorkUmount
<1>4. CASE WinFlush
  <2>1. /\ w.mode \in Builders /\ w.pc \in WritingStages
        /\ w.pc \notin {"persist-root", "persist-umount"} /\ \E s \in WritingStages : Flush(s)
    BY <1>4 DEF WinFlush, Win, At, Builders, WritingStages
  <2> QED BY <2>1, WorkFlush
<1>5. CASE \/ VerifyTree \/ VerifyStagedOnly \/ VerifyDirectory \/ WinCheckFilesystem
           \/ (ApplyWindowsCA2023 /\ w.staged = None)
  <2>1. /\ w.mode \in Builders /\ w.pc \in WritingStages
        /\ w.pc \notin {"persist-root", "persist-umount"} /\ \E s \in WritingStages : Pass(s)
    BY <1>5 DEF VerifyTree, VerifyStagedOnly, VerifyDirectory, WinCheckFilesystem,
                ApplyWindowsCA2023, WithExclusiveMount, Win, At, Builders, WritingStages
  <2> QED BY <2>1, WorkPass
<1>6. CASE WinRecheckCopied
  <2>1. /\ w.mode \in Builders /\ w.pc \in WritingStages
        /\ w.pc \notin {"persist-root", "persist-umount"}
        /\ \E s \in WritingStages : Recheck(s, "incomplete")
    BY <1>6 DEF WinRecheckCopied, Win, At, Builders, WritingStages
  <2> QED BY <2>1, WorkRecheck
<1> QED BY <1>1, <1>2, <1>3, <1>4, <1>5, <1>6

\* It fails, is cleaned up and let go.
LEMMA WindowsEnds ==
  ASSUME Inv,
         \/ WinFail \/ WinFailTorn \/ WinCleanUSB \/ WinCleanISO \/ WinCleanWork
         \/ FinishWindowsMediaFile \/ WinRelease
  PROVE  Inv'
<1>1. CASE WinFail
  <2>1. /\ w.mode \in Builders /\ w' = [w EXCEPT !.pc = "undo", !.err = TRUE]
        /\ UNCHANGED <<disk, src>>
    BY <1>1 DEF WinFail, Fail, FailTo, Builders
  <2>2. w.pc \in UnopenedStages \cup ReviewStages \cup CheckedStages \cup WritingStages
    BY <1>1 DEF WinFail, Fail, FailTo, UnopenedStages, ReviewStages, CheckedStages, WritingStages
  <2> QED BY <2>1, <2>2, BuilderFail
<1>2. CASE WinFailTorn
  <2>1. w.mode \in Builders /\ w.pc \in WritingStages
    BY <1>2 DEF WinFailTorn, FailTorn, FailTornTo, Builders, WritingStages
  <2>2. FailTorn(w.mode, {w.pc})
    BY <1>2, ZenonT(60) DEF WinFailTorn, FailTorn, FailTornTo
  <2> QED BY <2>1, <2>2, BuilderTorn
<1>3. CASE WinCleanUSB \/ WinCleanISO
  <2>1. /\ w.mode = "windows" /\ w.mode \in Builders /\ w.pc \in ClosingStages /\ w.pc # "close"
        /\ \/ w.pc = "undo" /\ CleanMount("target", "clean-iso")
           \/ w.pc = "clean-iso" /\ CleanMount("iso", "clean-work")
    BY <1>3 DEF WinCleanUSB, WinCleanISO, Win, At, Builders, ClosingStages
  <2>2. /\ Left(w.mode, "undo") \ {"target"} \subseteq Left(w.mode, "clean-iso")
        /\ Left(w.mode, "clean-iso") \ {"iso"} \subseteq Left(w.mode, "clean-work")
    BY <2>1, CleanupDuties DEF Own, Chosen, Builders
  <2> QED BY <2>1, <2>2, BuilderCleans
<1>4. CASE WinCleanWork
  BY <1>4, BuilderCleansWork DEF WinCleanWork, Win, At, Builders
<1>5. CASE FinishWindowsMediaFile
  BY <1>5, BuilderCloses DEF FinishWindowsMediaFile, Win, At, Builders
<1>6. CASE WinRelease
  BY <1>6, BuilderReleases DEF WinRelease, Win, At, Builders
<1> QED BY <1>1, <1>2, <1>3, <1>4, <1>5, <1>6

\* Every step of the Windows media writer keeps the invariant.
LEMMA WindowsStep ==
  ASSUME Inv, WindowsNext
  PROVE  Inv'
BY WindowsOpens, WindowsReviews, WindowsWrites, WindowsCopies, WindowsEnds DEF WindowsNext

-----------------------------------------------------------------------------
(* Windows To Go *)

\* Windows To Go: the image is held and hashed, the target opened.
LEMMA ToGoOpens ==
  ASSUME Inv, ToGoHold \/ ToGoHash \/ ToGoOpenTarget \/ CreateSecureWorkDir \/ ToGoMountISO
  PROVE  Inv'
<1>1. CASE ToGoHold
  BY <1>1, BuilderHold DEF ToGoHold, ToGo, At, Builders
<1>2. CASE ToGoHash
  BY <1>2, BuilderPrepares DEF ToGoHash, ToGo, At, Builders
<1>3. CASE ToGoOpenTarget
  BY <1>3, BuilderOpen DEF ToGoOpenTarget, ToGo, At, Builders
<1>4. CASE CreateSecureWorkDir
  BY <1>4, BuilderWork DEF CreateSecureWorkDir, ToGo, At, Builders
<1>5. CASE ToGoMountISO
  <2>1. /\ w.mode \in Builders /\ w.pc \in ReviewStages /\ "loop" \in ReviewStages
        /\ MountOwn("iso", "loop")
    BY <1>5 DEF ToGoMountISO, ToGo, At, ReviewStages, Builders
  <2> QED BY <2>1, ReviewMount
<1> QED BY <1>1, <1>2, <1>3, <1>4, <1>5

\* The image is looked at, and its metadata once more.
LEMMA ToGoReviews ==
  ASSUME Inv,
         \/ VerifyReadOnlyLoopMount \/ InspectMountedInstallPayload \/ InspectWIMMetadata
         \/ BuildPlan \/ ResolveRequiredTools \/ LiveLogicalSectorSize \/ PreflightImage
         \/ ToGoRecheck \/ ReinspectImage \/ ToGoReview
  PROVE  Inv'
<1>1. CASE \/ VerifyReadOnlyLoopMount \/ InspectMountedInstallPayload \/ InspectWIMMetadata
           \/ BuildPlan \/ ResolveRequiredTools \/ LiveLogicalSectorSize \/ PreflightImage
  <2>1. /\ w.mode \in Builders /\ w.pc \in ReviewStages
        /\ \E s \in ReviewStages : Pass(s) \/ Observe(s) \/ Stage(s)
    BY <1>1 DEF VerifyReadOnlyLoopMount, InspectMountedInstallPayload, InspectWIMMetadata,
                BuildPlan, ResolveRequiredTools, LiveLogicalSectorSize, PreflightImage,
                ToGo, At, Builders, ReviewStages
  <2> QED BY <2>1, ReviewPass
<1>2. CASE ToGoRecheck
  <2>1. /\ w.mode \in Builders /\ w.pc \in ReviewStages /\ "metadata" \in ReviewStages
        /\ Recheck("metadata", "untouched")
    BY <1>2 DEF ToGoRecheck, ToGo, At, Builders, ReviewStages
  <2> QED BY <2>1, ReviewRecheck
<1>3. CASE ReinspectImage
  <2>1. w.mode \in Builders /\ w.pc \in ReviewStages /\ "review" \in ReviewStages
    BY <1>3 DEF ReinspectImage, ToGo, At, Builders, ReviewStages
  <2>2. \/ Pass("review")
        \/ /\ w' = [w EXCEPT !.pc = "undo", !.err = TRUE, !.claim = "untouched"]
           /\ UNCHANGED <<disk, src>>
    BY <1>3 DEF ReinspectImage, Pass
  <2> QED BY <2>1, <2>2, ReviewPass, ReviewRefuses
<1>4. CASE ToGoReview
  <2>1. /\ w.mode \in Builders /\ w.pc \in ReviewStages
        /\ Ask(FALSE, "erase") /\ UNCHANGED <<disk, src>>
    BY <1>4 DEF ToGoReview, ToGo, At, Builders, ReviewStages
  <2> QED BY <2>1, BuilderAsk
<1> QED BY <1>1, <1>2, <1>3, <1>4

\* The target is partitioned, formatted, and the image applied.
LEMMA ToGoWrites ==
  ASSUME Inv,
         \/ ToGoErase \/ ToGoWipe \/ BuildGPT \/ ToGoWriteGPT \/ ToGoReread
         \/ ToGoWaitForPartition \/ UnmountAll \/ RequireUnmounted \/ FormatPartitions
         \/ NewTargetHealthMonitor \/ ToGoApply \/ RunWIMApply \/ ToGoFlushOS
  PROVE  Inv'
<1>1. CASE ToGoErase
  <2>1. /\ w.mode \in Builders /\ w.pc \in CheckedStages
        /\ w' = [w EXCEPT !.pc = "wipe", !.touched = TRUE] /\ UNCHANGED <<disk, src>>
    BY <1>1 DEF ToGoErase, ToGo, At, Builders, CheckedStages
  <2> QED BY <2>1, BuilderTouch
<1>2. CASE ToGoWipe \/ ToGoWriteGPT \/ FormatPartitions
  <2>1. /\ w.mode \in Builders /\ w.pc \in WritingStages
        /\ w.pc \notin {"persist-root", "persist-umount"}
        /\ \E s \in WritingStages : Wipe(s) \/ WriteTable(s) \/ MakeFilesystem(s)
    BY <1>2 DEF ToGoWipe, ToGoWriteGPT, FormatPartitions, ToGo, At, Builders, WritingStages
  <2> QED BY <2>1, WorkTable
<1>3. CASE ToGoReread
  <2>1. /\ w.mode \in Builders /\ w.pc \in WritingStages /\ "partition" \in WritingStages
        /\ w.pc \notin {"persist-root", "persist-umount"}
    BY <1>3 DEF ToGoReread, ToGo, At, Builders, WritingStages
  <2>2. (Held.table = "plan") \in BOOLEAN
    OBVIOUS
  <2>3. DiskTypeOK' /\ port' = port /\ src' = src /\ Goto("partition")
    BY <1>3, <2>2 DEF ToGoReread, Inv, DiskTypeOK
  <2> QED BY <2>1, <2>3, Working, GotoStep
<1>4. CASE ToGoWaitForPartition \/ UnmountAll
  <2>1. /\ w.mode \in Builders /\ w.pc \in WritingStages
        /\ w.pc \notin {"persist-root", "persist-umount"}
        /\ \E s \in WritingStages : Reread(s) \/ WaitPartition(s) \/ UnmountPartition(s)
    BY <1>4 DEF ToGoWaitForPartition, UnmountAll, ToGo, At, Builders, WritingStages
  <2> QED BY <2>1, WorkKernel
<1>5. CASE BuildGPT \/ RequireUnmounted \/ NewTargetHealthMonitor
  <2>1. /\ w.mode \in Builders /\ w.pc \in WritingStages
        /\ w.pc \notin {"persist-root", "persist-umount"} /\ \E s \in WritingStages : Pass(s)
    BY <1>5 DEF BuildGPT, RequireUnmounted, NewTargetHealthMonitor, ToGo, At, Builders,
                WritingStages
  <2> QED BY <2>1, WorkPass
<1>6. CASE ToGoApply \/ RunWIMApply
  <2>1. /\ w.mode \in Builders /\ w.pc \in WritingStages
        /\ w.pc \notin {"persist-root", "persist-umount"}
        /\ \E s \in WritingStages : Change(s, [Held EXCEPT !.fs = Mixed(@, Bytes)])
    BY <1>6 DEF ToGoApply, RunWIMApply, ToGo, At, Builders, WritingStages
  <2> QED BY <2>1, BytesRead, WorkCopy
<1>7. CASE ToGoFlushOS
  <2>1. /\ w.mode \in Builders /\ w.pc \in WritingStages
        /\ w.pc \notin {"persist-root", "persist-umount"} /\ \E s \in WritingStages : Flush(s)
    BY <1>7 DEF ToGoFlushOS, ToGo, At, Builders, WritingStages
  <2> QED BY <2>1, WorkFlush
<1> QED BY <1>1, <1>2, <1>3, <1>4, <1>5, <1>6, <1>7

\* The boot partition is filled from the applied volume, and compared with it.
LEMMA ToGoMaterializes ==
  ASSUME Inv,
         \/ MountPrivate \/ MaterializeRoots \/ CopyTreeBounded \/ CopyFallback
         \/ CompareFallback \/ CreateBCD \/ VerifyBCD \/ WriteAnswerFile \/ CompareBootManager
         \/ SyncFilesystem \/ ToGoUmountESP \/ ToGoUmountOS \/ ToGoFlush \/ ToGoRecheckApplied
  PROVE  Inv'
<1>1. CASE MountPrivate
  <2>1. /\ w.mode = "windows-to-go" /\ w.mode \in Builders /\ w.pc \in WritingStages
        /\ w.pc \notin {"persist-root", "persist-umount"}
        /\ \E s \in WritingStages, m \in {"target", "esp"} : MountAlone(m, s) \/ MountShared(m)
    BY <1>1 DEF MountPrivate, ToGo, At, Builders, WritingStages
  <2>2. {"target", "esp"} \subseteq Own(w.mode)
    BY <2>1 DEF Own
  <2> QED BY <2>1, <2>2, WorkMount
<1>2. CASE \/ MaterializeRoots \/ CopyFallback \/ CompareFallback \/ CreateBCD \/ VerifyBCD
           \/ CompareBootManager \/ SyncFilesystem
  <2>1. /\ w.mode \in Builders /\ w.pc \in WritingStages
        /\ w.pc \notin {"persist-root", "persist-umount"} /\ \E s \in WritingStages : Pass(s)
    BY <1>2 DEF MaterializeRoots, CopyFallback, CompareFallback, CreateBCD, VerifyBCD,
                CompareBootManager, SyncFilesystem, ToGo, At, Builders, WritingStages
  <2> QED BY <2>1, WorkPass
<1>3. CASE CopyTreeBounded
  <2>1. /\ w.mode \in Builders /\ w.pc \in WritingStages
        /\ w.pc \notin {"persist-root", "persist-umount"} /\ "fallback" \in WritingStages
        /\ BootChange("fallback", Held.fs)
    BY <1>3 DEF CopyTreeBounded, ToGo, At, Builders, WritingStages, BootChange
  <2>2. Held.fs \in Boots
    BY <2>1, BuilderCells DEF Cells, Boots
  <2> QED BY <2>1, <2>2, WorkTable
<1>4. CASE WriteAnswerFile
  <2>1. /\ w.mode \in Builders /\ w.pc \in WritingStages
        /\ w.pc \notin {"persist-root", "persist-umount"} /\ "same-boot" \in WritingStages
        /\ Change("same-boot", Held)
    BY <1>4 DEF WriteAnswerFile, ToGo, At, Builders, WritingStages
  <2> QED BY <2>1, BuilderCells, WorkChange
<1>5. CASE ToGoUmountESP \/ ToGoUmountOS
  <2>1. /\ w.mode \in Builders /\ w.pc \in WritingStages
        /\ w.pc \notin {"persist-root", "persist-umount"}
        /\ \E s \in WritingStages, m \in {"target", "esp"} : UmountOwn(m, s)
    BY <1>5 DEF ToGoUmountESP, ToGoUmountOS, ToGo, At, Builders, WritingStages
  <2> QED BY <2>1, WorkUmount
<1>6. CASE ToGoFlush
  <2>1. /\ w.mode \in Builders /\ w.pc \in WritingStages
        /\ w.pc \notin {"persist-root", "persist-umount"} /\ \E s \in WritingStages : Flush(s)
    BY <1>6 DEF ToGoFlush, ToGo, At, Builders, WritingStages
  <2> QED BY <2>1, WorkFlush
<1>7. CASE ToGoRecheckApplied
  <2>1. /\ w.mode \in Builders /\ w.pc \in WritingStages
        /\ w.pc \notin {"persist-root", "persist-umount"}
        /\ \E s \in WritingStages : Recheck(s, "incomplete")
    BY <1>7 DEF ToGoRecheckApplied, ToGo, At, Builders, WritingStages
  <2> QED BY <2>1, WorkRecheck
<1> QED BY <1>1, <1>2, <1>3, <1>4, <1>5, <1>6, <1>7

\* Both are looked at again, and the completion announced.
LEMMA ToGoVerifies ==
  ASSUME Inv,
         \/ ToGoRemount \/ CompareTreeBounded \/ VerifyMaterialization \/ VerifyBCDAgain
         \/ ToGoUmountVerified \/ VerifyFilesystemProbe \/ VerifyGPTOnDevice
  PROVE  Inv'
<1>1. CASE ToGoRemount
  <2>1. /\ w.mode = "windows-to-go" /\ w.mode \in Builders /\ w.pc \in WritingStages
        /\ w.pc \notin {"persist-root", "persist-umount"}
        /\ \E s \in WritingStages, m \in {"target", "esp"} : MountAlone(m, s) \/ MountShared(m)
    BY <1>1 DEF ToGoRemount, ToGo, At, Builders, WritingStages
  <2>2. {"target", "esp"} \subseteq Own(w.mode)
    BY <2>1 DEF Own
  <2> QED BY <2>1, <2>2, WorkMount
<1>2. CASE CompareTreeBounded \/ VerifyMaterialization \/ VerifyFilesystemProbe
  <2>1. /\ w.mode \in Builders /\ w.pc \in WritingStages
        /\ w.pc \notin {"persist-root", "persist-umount"} /\ \E s \in WritingStages : Pass(s)
    BY <1>2 DEF CompareTreeBounded, VerifyMaterialization, VerifyFilesystemProbe, ToGo, At,
                Builders, WritingStages
  <2> QED BY <2>1, WorkPass
<1>3. CASE VerifyBCDAgain \/ ToGoUmountVerified
  <2>1. /\ w.mode \in Builders /\ w.pc \in WritingStages
        /\ w.pc \notin {"persist-root", "persist-umount"}
        /\ \E s \in WritingStages, m \in {"target", "esp"} : UmountOwn(m, s)
    BY <1>3 DEF VerifyBCDAgain, ToGoUmountVerified, ToGo, At, Builders, WritingStages
  <2> QED BY <2>1, WorkUmount
<1>4. CASE VerifyGPTOnDevice
  <2>1. /\ w.mode \in Builders /\ w.mode \in Early /\ w.pc \in WritingStages
        /\ w.pc \notin {"persist-root", "persist-umount"}
        /\ w' = [w EXCEPT !.pc = "undo", !.announced = TRUE] /\ UNCHANGED <<disk, src>>
    BY <1>4 DEF VerifyGPTOnDevice, ToGo, At, Builders, Early, WritingStages
  <2> QED BY <2>1, WorkPublish
<1> QED BY <1>1, <1>2, <1>3, <1>4

\* A step fails; the deferred functions run.
LEMMA ToGoEnds ==
  ASSUME Inv,
         \/ ToGoFail \/ ToGoFailTorn \/ ToGoCleanESP \/ ToGoCleanOS \/ ToGoCleanISO
         \/ ToGoCleanWork \/ ToGoCloseTarget \/ ToGoRelease
  PROVE  Inv'
<1>1. CASE ToGoFail
  <2>1. /\ w.mode \in Builders /\ w' = [w EXCEPT !.pc = "undo", !.err = TRUE]
        /\ UNCHANGED <<disk, src>>
    BY <1>1 DEF ToGoFail, Fail, FailTo, Builders
  <2>2. w.pc \in UnopenedStages \cup ReviewStages \cup CheckedStages \cup WritingStages
    BY <1>1 DEF ToGoFail, Fail, FailTo, UnopenedStages, ReviewStages, CheckedStages,
                WritingStages
  <2> QED BY <2>1, <2>2, BuilderFail
<1>2. CASE ToGoFailTorn
  <2>1. w.mode \in Builders /\ w.pc \in WritingStages
    BY <1>2 DEF ToGoFailTorn, FailTorn, FailTornTo, Builders, WritingStages
  <2>2. FailTorn(w.mode, {w.pc})
    BY <1>2, ZenonT(60) DEF ToGoFailTorn, FailTorn, FailTornTo
  <2> QED BY <2>1, <2>2, BuilderTorn
<1>3. CASE ToGoCleanESP \/ ToGoCleanOS \/ ToGoCleanISO
  <2>1. /\ w.mode = "windows-to-go" /\ w.mode \in Builders
        /\ w.pc \in ClosingStages /\ w.pc # "close"
        /\ \/ w.pc = "undo" /\ CleanMount("esp", "clean-os")
           \/ w.pc = "clean-os" /\ CleanMount("target", "clean-iso")
           \/ w.pc = "clean-iso" /\ CleanMount("iso", "clean-work")
    BY <1>3 DEF ToGoCleanESP, ToGoCleanOS, ToGoCleanISO, ToGo, At, Builders, ClosingStages
  <2>2. /\ Left(w.mode, "undo") \ {"esp"} \subseteq Left(w.mode, "clean-os")
        /\ Left(w.mode, "clean-os") \ {"target"} \subseteq Left(w.mode, "clean-iso")
        /\ Left(w.mode, "clean-iso") \ {"iso"} \subseteq Left(w.mode, "clean-work")
    BY <2>1, CleanupDuties DEF Own
  <2> QED BY <2>1, <2>2, BuilderCleans
<1>4. CASE ToGoCleanWork
  BY <1>4, BuilderCleansWork DEF ToGoCleanWork, ToGo, At, Builders
<1>5. CASE ToGoCloseTarget
  BY <1>5, BuilderCloses DEF ToGoCloseTarget, ToGo, At, Builders
<1>6. CASE ToGoRelease
  BY <1>6, BuilderReleases DEF ToGoRelease, ToGo, At, Builders
<1> QED BY <1>1, <1>2, <1>3, <1>4, <1>5, <1>6

\* Every step of Windows To Go keeps the invariant.
LEMMA ToGoStep ==
  ASSUME Inv, ToGoNext
  PROVE  Inv'
BY ToGoOpens, ToGoReviews, ToGoWrites, ToGoMaterializes, ToGoVerifies, ToGoEnds DEF ToGoNext

-----------------------------------------------------------------------------
(* Linux media *)

\* Linux media with persistence: the image is held and hashed, the target opened.
LEMMA LiveOpens ==
  ASSUME Inv,
         \/ LiveHold \/ HashPersistentSource \/ PreparePersistentRuntimeIntegrity
         \/ LiveOpenTarget \/ LiveWorkspace \/ LiveMountISO
  PROVE  Inv'
<1>1. CASE LiveHold
  BY <1>1, BuilderHold DEF LiveHold, Live, At, Builders
<1>2. CASE HashPersistentSource \/ PreparePersistentRuntimeIntegrity
  <2>1. /\ w.mode \in Builders /\ w.pc \in {"hash", "loader"}
        /\ \E s \in {"loader", "target"} : HashFirst(s) \/ Pass(s)
    BY <1>2 DEF HashPersistentSource, PreparePersistentRuntimeIntegrity, Live, At, Builders
  <2> QED BY <2>1, BuilderPrepares
<1>3. CASE LiveOpenTarget
  BY <1>3, BuilderOpen DEF LiveOpenTarget, Live, At, Builders
<1>4. CASE LiveWorkspace
  BY <1>4, BuilderWork DEF LiveWorkspace, Live, At, Builders
<1>5. CASE LiveMountISO
  <2>1. /\ w.mode \in Builders /\ w.pc \in ReviewStages /\ "detect" \in ReviewStages
        /\ MountOwn("iso", "detect")
    BY <1>5 DEF LiveMountISO, Live, At, ReviewStages, Builders
  <2> QED BY <2>1, ReviewMount
<1> QED BY <1>1, <1>2, <1>3, <1>4, <1>5

\* The image is inspected, and the target confirmed.
LEMMA LiveReviews ==
  ASSUME Inv,
         \/ DetectPersistence \/ InspectTree \/ HashStableFile \/ PlanPersistentLayout
         \/ LiveRecheck \/ LiveReview \/ LiveErase
  PROVE  Inv'
<1>1. CASE DetectPersistence \/ InspectTree \/ HashStableFile \/ PlanPersistentLayout
  <2>1. /\ w.mode \in Builders /\ w.pc \in ReviewStages
        /\ \E s \in ReviewStages : Pass(s) \/ Observe(s) \/ Stage(s)
    BY <1>1 DEF DetectPersistence, InspectTree, HashStableFile, PlanPersistentLayout,
                Live, At, Builders, ReviewStages
  <2> QED BY <2>1, ReviewPass
<1>2. CASE LiveRecheck
  <2>1. /\ w.mode \in Builders /\ w.pc \in ReviewStages /\ "review" \in ReviewStages
        /\ Recheck("review", "untouched")
    BY <1>2 DEF LiveRecheck, Live, At, Builders, ReviewStages
  <2> QED BY <2>1, ReviewRecheck
<1>3. CASE LiveReview
  <2>1. /\ w.mode \in Builders /\ w.pc \in ReviewStages
        /\ Ask(FALSE, "erase") /\ UNCHANGED <<disk, src>>
    BY <1>3 DEF LiveReview, Live, At, Builders, ReviewStages
  <2> QED BY <2>1, BuilderAsk
<1>4. CASE LiveErase
  <2>1. /\ w.mode \in Builders /\ w.pc \in CheckedStages
        /\ w' = [w EXCEPT !.pc = "wipe", !.touched = TRUE] /\ UNCHANGED <<disk, src>>
    BY <1>4 DEF LiveErase, Live, At, Builders, CheckedStages
  <2> QED BY <2>1, BuilderTouch
<1> QED BY <1>1, <1>2, <1>3, <1>4

\* The boot partition is made, filled, and compared with what was inspected.
LEMMA LiveWrites ==
  ASSUME Inv,
         \/ LiveWipe \/ WritePersistentGPT \/ PersistentRereadPartitionTable
         \/ WaitPersistentPartition \/ UnmountPersistentDeviceMounts \/ OpenPersistentPartition
         \/ LiveFormat \/ LiveUnmountAgain \/ LiveMountBoot \/ ValidateManifestForCopy
         \/ CopyEntry \/ CopyAndVerify
  PROVE  Inv'
<1>1. CASE LiveWipe \/ WritePersistentGPT \/ LiveFormat
  <2>1. /\ w.mode \in Builders /\ w.pc \in WritingStages
        /\ w.pc \notin {"persist-root", "persist-umount"}
        /\ \E s \in WritingStages : Wipe(s) \/ WriteTable(s) \/ MakeFilesystem(s)
    BY <1>1 DEF LiveWipe, WritePersistentGPT, LiveFormat, Live, At, Builders, WritingStages
  <2> QED BY <2>1, WorkTable
<1>2. CASE \/ PersistentRereadPartitionTable \/ WaitPersistentPartition
           \/ UnmountPersistentDeviceMounts \/ LiveUnmountAgain
  <2>1. /\ w.mode \in Builders /\ w.pc \in WritingStages
        /\ w.pc \notin {"persist-root", "persist-umount"}
        /\ \E s \in WritingStages : Reread(s) \/ WaitPartition(s) \/ UnmountPartition(s)
    BY <1>2 DEF PersistentRereadPartitionTable, WaitPersistentPartition,
                UnmountPersistentDeviceMounts, LiveUnmountAgain, Live, At, Builders,
                WritingStages
  <2> QED BY <2>1, WorkKernel
<1>3. CASE OpenPersistentPartition \/ ValidateManifestForCopy \/ CopyAndVerify
  <2>1. /\ w.mode \in Builders /\ w.pc \in WritingStages
        /\ w.pc \notin {"persist-root", "persist-umount"} /\ \E s \in WritingStages : Pass(s)
    BY <1>3 DEF OpenPersistentPartition, ValidateManifestForCopy, CopyAndVerify, Live, At,
                Builders, WritingStages
  <2> QED BY <2>1, WorkPass
<1>4. CASE LiveMountBoot
  <2>1. /\ w.mode \in Builders /\ w.pc \in WritingStages /\ "target" \in Own(w.mode)
        /\ w.pc \notin {"persist-root", "persist-umount"}
        /\ \E s \in WritingStages : MountOwn("target", s)
    BY <1>4 DEF LiveMountBoot, Live, At, Builders, WritingStages, Own, Chosen
  <2> QED BY <2>1, WorkMount
<1>5. CASE CopyEntry
  <2>1. /\ w.mode \in Builders /\ w.pc \in WritingStages
        /\ w.pc \notin {"persist-root", "persist-umount"}
        /\ \E s \in WritingStages : CopyFiles(s, Bytes)
    BY <1>5 DEF CopyEntry, Live, At, Builders, WritingStages
  <2> QED BY <2>1, BytesRead, WorkCopy
<1> QED BY <1>1, <1>2, <1>3, <1>4, <1>5

\* Its boot configuration is patched, and the partition let go.
LEMMA LivePatches ==
  ASSUME Inv,
         \/ PatchBootTree \/ PatchBootConfig \/ PatchOneBootFile \/ DetectActivated
         \/ HashPersistentRuntimeFallback \/ WriteRecord \/ InstallPersistentRuntimeIntegrity
         \/ NoRuntimeIntegrity \/ LiveUmountBoot \/ LiveFlushBoot
         \/ VerifyPersistentPartitionFile \/ VerifyPersistentPartitionGeometry
  PROVE  Inv'
<1>1. CASE \/ PatchBootTree \/ PatchBootConfig \/ DetectActivated
           \/ HashPersistentRuntimeFallback \/ NoRuntimeIntegrity
           \/ VerifyPersistentPartitionFile \/ VerifyPersistentPartitionGeometry
  <2>1. /\ w.mode \in Builders /\ w.pc \in WritingStages
        /\ w.pc \notin {"persist-root", "persist-umount"} /\ \E s \in WritingStages : Pass(s)
    BY <1>1 DEF PatchBootTree, PatchBootConfig, DetectActivated, HashPersistentRuntimeFallback,
                NoRuntimeIntegrity, VerifyPersistentPartitionFile,
                VerifyPersistentPartitionGeometry, Live, At, Builders, WritingStages
  <2> QED BY <2>1, WorkPass
<1>2. CASE PatchOneBootFile
  <2>1. /\ w.mode \in Builders /\ w.pc \in WritingStages
        /\ w.pc \notin {"persist-root", "persist-umount"} /\ "activated" \in WritingStages
        /\ "image" \in Boots /\ BootChange("activated", "image")
    BY <1>2 DEF PatchOneBootFile, Live, At, Builders, WritingStages, BootChange, Boots
  <2> QED BY <2>1, WorkTable
<1>3. CASE WriteRecord \/ InstallPersistentRuntimeIntegrity
  <2>1. /\ w.mode \in Builders /\ w.pc \in WritingStages
        /\ w.pc \notin {"persist-root", "persist-umount"}
        /\ \E s \in WritingStages : Change(s, Held)
    BY <1>3 DEF WriteRecord, InstallPersistentRuntimeIntegrity, Live, At, Builders,
                WritingStages
  <2> QED BY <2>1, BuilderCells, WorkChange
<1>4. CASE LiveUmountBoot
  <2>1. /\ w.mode \in Builders /\ w.pc \in WritingStages
        /\ w.pc \notin {"persist-root", "persist-umount"}
        /\ \E s \in WritingStages : UmountOwn("target", s)
    BY <1>4 DEF LiveUmountBoot, Live, At, Builders, WritingStages
  <2> QED BY <2>1, WorkUmount
<1>5. CASE LiveFlushBoot
  <2>1. /\ w.mode \in Builders /\ w.pc \in WritingStages
        /\ w.pc \notin {"persist-root", "persist-umount"} /\ \E s \in WritingStages : Flush(s)
    BY <1>5 DEF LiveFlushBoot, Live, At, Builders, WritingStages
  <2> QED BY <2>1, WorkFlush
<1> QED BY <1>1, <1>2, <1>3, <1>4, <1>5

\* The second partition is made at a mount point of its own.
LEMMA LivePersists ==
  ASSUME Inv,
         \/ ValidateFilesystemPlan \/ VerifyPersistencePartition \/ FormatPersistence
         \/ MountPersistence \/ InitializePersistenceRoot \/ UmountPersistence
         \/ LiveFailPersistence \/ CleanPersistence
  PROVE  Inv'
<1>1. CASE ValidateFilesystemPlan \/ VerifyPersistencePartition
  <2>1. /\ w.mode \in Builders /\ w.pc \in WritingStages
        /\ w.pc \notin {"persist-root", "persist-umount"} /\ \E s \in WritingStages : Pass(s)
    BY <1>1 DEF ValidateFilesystemPlan, VerifyPersistencePartition, Live, At, Builders,
                WritingStages
  <2> QED BY <2>1, WorkPass
<1>2. CASE FormatPersistence
  <2>1. /\ w.mode \in Builders /\ w.pc \in WritingStages
        /\ w.pc \notin {"persist-root", "persist-umount"} /\ "persist-mount" \in WritingStages
        /\ Change("persist-mount", Held)
    BY <1>2 DEF FormatPersistence, Live, At, Builders, WritingStages
  <2> QED BY <2>1, BuilderCells, WorkChange
<1>3. CASE InitializePersistenceRoot
  <2>1. /\ w.mode \in Builders /\ w.pc \in WritingStages /\ "persist-umount" \in WritingStages
        /\ Change("persist-umount", Held)
    BY <1>3 DEF InitializePersistenceRoot, Live, At, Builders, WritingStages
  <2> QED BY <2>1, BuilderCells, WorkChange
<1>4. CASE MountPersistence
  <2>1. /\ w.mode \in Builders /\ w.pc \in WritingStages /\ "persist-root" \in WritingStages
        /\ w.pc \notin {"persist-root", "persist-umount"}
        /\ MountUndo("persistence", "persist-root", "undo-persist")
    BY <1>4 DEF MountPersistence, Live, At, Builders, WritingStages
  <2>2. /\ Onward("persist-root") /\ Carries("persist-root") /\ Onward("undo-persist")
        /\ ~Finishing(w.mode, "undo-persist")
        /\ "persistence" \in Left(w.mode, "persist-root")
    BY <2>1, Working
  <2>3. "persistence" \in OwnMounts
    BY DEF OwnMounts, TargetMounts
  <2> QED BY <2>1, <2>2, <2>3, MountStep
<1>5. CASE UmountPersistence
  <2>1. /\ w.mode \in Builders /\ w.pc \in WritingStages /\ "recheck-copied" \in WritingStages
        /\ UmountOwn("persistence", "recheck-copied")
    BY <1>5 DEF UmountPersistence, Live, At, Builders, WritingStages
  <2>2. /\ Onward("recheck-copied")
        /\ Left(w.mode, w.pc) \ {"persistence"} \subseteq Left(w.mode, "recheck-copied")
    BY <2>1, Working
  <2> QED BY <2>1, <2>2, UmountStep
<1>6. CASE LiveFailPersistence
  <2>1. /\ w.mode \in Builders /\ w.pc \in WritingStages
        /\ w' = [w EXCEPT !.pc = "undo-persist", !.err = TRUE] /\ UNCHANGED <<disk, src>>
    BY <1>6 DEF LiveFailPersistence, FailTo, Builders, WritingStages
  <2> QED BY <2>1, BuilderFail
<1>7. CASE CleanPersistence
  <2>1. /\ w.mode \in Builders /\ w.pc = "undo-persist" /\ CleanMount("persistence", "undo")
    BY <1>7 DEF CleanPersistence, Live, At, Builders, CleanMount, Pass
  <2>2. {"undo", "undo-persist"} \subseteq ClosingStages /\ "undo" \in Stages
        /\ {"undo", "undo-persist"} \cap (Asking \cup Preparatory) = {}
    BY StagesOf DEF ClosingStages, Asking, Preparatory
  <2>3. Onward("undo") /\ ~Finishing(w.mode, "undo")
    BY <2>1, <2>2, CleanupDuties DEF Onward
  <2>4. Left(w.mode, w.pc) \ {"persistence"} \subseteq Left(w.mode, "undo")
    BY <2>1, CleanupDuties
  <2> QED BY <2>1, <2>3, <2>4, CleanMountStep
<1> QED BY <1>1, <1>2, <1>3, <1>4, <1>5, <1>6, <1>7

\* The completion is announced after every deferred function, if none failed.
LEMMA LiveEmits ==
  ASSUME Inv, EmitPersistentCompletion
  PROVE  Inv'
<1>1. /\ w.pc = "emit" /\ w.mode = "linux-persistent" /\ UNCHANGED <<disk, src>>
      /\ w' = [w EXCEPT !.pc = "returned", !.announced = ~w.err]
  BY DEF EmitPersistentCompletion, Live, At
<1>2. /\ {"emit", "returned"} \subseteq ClosedStages /\ "returned" \in Stages
      /\ {"emit", "returned"} \cap (Asking \cup Preparatory) = {}
  BY StagesOf DEF ClosedStages, Asking, Preparatory
<1>3. (~w.err) \in BOOLEAN
  BY DEF Inv, Shape, Writers
<1>4. /\ Shape' /\ SameWho /\ SameOpen /\ SameDeed /\ SameMounts /\ SameLease /\ SameData
      /\ w'.pc = "returned" /\ w'.announced = ~w.err /\ w'.err = w.err
      /\ w'.status = w.status
  BY <1>1, <1>2, <1>3, PublishesShape, Zenon DEF Inv
<1>5. Place = w.pc /\ Place' = w'.pc
  BY <1>1, <1>2, <1>4 DEF Place
<1>6. /\ Phase(w.mode, "emit") = "closed" /\ Phase(w.mode, "returned") = "closed"
      /\ ~Finishing(w.mode, "returned") /\ w.mode \in Modes /\ w.mode \notin Early
  BY <1>1, <1>2, Phases DEF Modes, Finishing, Early
<1>7. Now = "closed" /\ Now' = "closed"
  BY <1>1, <1>4, <1>5, <1>6 DEF Now, SameWho
<1>8. TargetInv'
  BY <1>1, <1>2, <1>4, <1>7, Quiet
     DEF Inv, TargetInv, PhaseInv, OpenInv, ChangedInv, ClaimHonest, ErasesReviewed, SameWho,
         SameOpen, SameDeed
<1>9. CleanInv'
  <2>1. Freed(w.mode, "emit") /\ NoWork(w.mode, "emit")
    BY <1>6 DEF Freed, NoWork
  <2>2. Left(w.mode, "emit") = {} /\ Left(w.mode, "returned") = {}
    BY <1>6 DEF Left, Builders, Chosen
  <2>3. w.status = "none" /\ EndsClean'
    BY <1>1, <1>4 DEF Inv, CleanInv, EndsClean
  <2> QED BY <1>1, <1>4, <1>5, <1>6, <2>1, <2>2, <2>3
       DEF Inv, CleanInv, SameWho, SameMounts, SameLease
<1>10. ImageInv'
  BY <1>2, <1>4, ImageKept DEF Inv, SameData, SameLease
<1> QED BY <1>1, <1>4, <1>8, <1>9, <1>10, Quiet DEF Inv

\* The image is looked at again; a step fails; the deferred functions run.
LEMMA LiveEnds ==
  ASSUME Inv,
         \/ LiveRecheckCopied \/ LiveFlush \/ LiveUmountISO \/ LiveFail \/ LiveFailTorn
         \/ LiveCleanBoot \/ LiveCleanISO \/ LiveCleanWork \/ FinishPersistentFile
         \/ LiveRelease
  PROVE  Inv'
<1>1. CASE LiveRecheckCopied
  <2>1. /\ w.mode \in Builders /\ w.pc \in WritingStages
        /\ w.pc \notin {"persist-root", "persist-umount"}
        /\ \E s \in WritingStages : Recheck(s, "incomplete")
    BY <1>1 DEF LiveRecheckCopied, Live, At, Builders, WritingStages
  <2> QED BY <2>1, WorkRecheck
<1>2. CASE LiveFlush
  <2>1. /\ w.mode \in Builders /\ w.pc \in WritingStages
        /\ w.pc \notin {"persist-root", "persist-umount"} /\ \E s \in WritingStages : Flush(s)
    BY <1>2 DEF LiveFlush, Live, At, Builders, WritingStages
  <2> QED BY <2>1, WorkFlush
<1>3. CASE LiveUmountISO
  <2>1. /\ w.mode \in Builders /\ w.pc \in WritingStages
        /\ w.pc \notin {"persist-root", "persist-umount"} /\ UmountOwn("iso", "undo")
    BY <1>3 DEF LiveUmountISO, Live, At, Builders, WritingStages
  <2> QED BY <2>1, WorkUmount
<1>4. CASE LiveFail
  <2>1. /\ w.mode \in Builders /\ w' = [w EXCEPT !.pc = "undo", !.err = TRUE]
        /\ UNCHANGED <<disk, src>>
    BY <1>4 DEF LiveFail, Fail, FailTo, Builders
  <2>2. w.pc \in UnopenedStages \cup ReviewStages \cup CheckedStages \cup WritingStages
    BY <1>4 DEF LiveFail, Fail, FailTo, UnopenedStages, ReviewStages, CheckedStages,
                WritingStages
  <2> QED BY <2>1, <2>2, BuilderFail
<1>5. CASE LiveFailTorn
  <2>1. w.mode \in Builders /\ w.pc \in WritingStages
    BY <1>5 DEF LiveFailTorn, FailTorn, FailTornTo, Builders, WritingStages
  <2>2. FailTorn(w.mode, {w.pc})
    BY <1>5, ZenonT(60) DEF LiveFailTorn, FailTorn, FailTornTo
  <2> QED BY <2>1, <2>2, BuilderTorn
<1>6. CASE LiveCleanBoot \/ LiveCleanISO
  <2>1. /\ w.mode = "linux-persistent" /\ w.mode \in Builders
        /\ w.pc \in ClosingStages /\ w.pc # "close"
        /\ \/ w.pc = "undo" /\ CleanMount("target", "clean-iso")
           \/ w.pc = "clean-iso" /\ CleanMount("iso", "clean-work")
    BY <1>6 DEF LiveCleanBoot, LiveCleanISO, Live, At, Builders, ClosingStages
  <2>2. /\ Left(w.mode, "undo") \ {"target"} \subseteq Left(w.mode, "clean-iso")
        /\ Left(w.mode, "clean-iso") \ {"iso"} \subseteq Left(w.mode, "clean-work")
    BY <2>1, CleanupDuties DEF Own, Chosen, Builders
  <2> QED BY <2>1, <2>2, BuilderCleans
<1>7. CASE LiveCleanWork
  BY <1>7, BuilderCleansWork DEF LiveCleanWork, Live, At, Builders
<1>8. CASE FinishPersistentFile
  BY <1>8, BuilderCloses DEF FinishPersistentFile, Live, At, Builders
<1>9. CASE LiveRelease
  BY <1>9, BuilderReleases DEF LiveRelease, Live, At, Builders
<1> QED BY <1>1, <1>2, <1>3, <1>4, <1>5, <1>6, <1>7, <1>8, <1>9

\* Every step of Linux media with persistence keeps the invariant.
LEMMA PersistentStep ==
  ASSUME Inv, PersistentNext
  PROVE  Inv'
BY LiveOpens, LiveReviews, LiveWrites, LivePatches, LivePersists, LiveEmits, LiveEnds
   DEF PersistentNext

-----------------------------------------------------------------------------
(* Extracted media: the choice of a filesystem *)

\* The stages of the choice.
Choosing == {"open", "undo"} \cup ChoosingStages

\* While a filesystem is chosen the target is not open, and nothing is expected of it.
LEMMA Selecting ==
  ASSUME w.mode = "extracted", w.pc \in Choosing,
         NEW s \in Choosing, s = "open" => w.pc = "open"
  PROVE  /\ Onward(s) /\ w.pc \in Stages
         /\ Phase(w.mode, w.pc) = "unopened" /\ Phase(w.mode, s) = "unopened"
         /\ NoWork(w.mode, s) /\ ~Finishing(w.mode, s)
         /\ s # "open" => ~Freed(w.mode, s)
         /\ Left(w.mode, s) = IF s \in {"select-inspect", "undo"} THEN {"iso"} ELSE {}
         /\ Left(w.mode, w.pc) = IF w.pc \in {"select-inspect", "undo"} THEN {"iso"} ELSE {}
<1>1. "open" \in UnopenedStages /\ "undo" \in ClosingStages
  BY DEF UnopenedStages, ClosingStages
<1>2. Choosing \subseteq Stages
  BY <1>1 DEF Choosing, Stages
<1>3. \A p \in Choosing : p \notin Asking \cup ClosedStages \cup Preparatory
  BY DEF Choosing, ChoosingStages, Asking, ClosedStages, Preparatory
<1>4. \A p \in Choosing : p # "returned" /\ p # "ended"
  BY DEF Choosing, ChoosingStages
<1>5. \A p \in Choosing : ~Finishing(w.mode, p)
  BY DEF Finishing
<1>6. \A p \in Choosing : Phase(w.mode, p) = "unopened"
  BY <1>3, <1>5 DEF Phase
<1>7. \A p \in Choosing : NoWork(w.mode, p)
  BY <1>6 DEF NoWork
<1>8. \A p \in Choosing : Freed(w.mode, p) <=> p = "open"
  BY <1>5 DEF Freed, Choosing, ChoosingStages
<1>9. \A p \in Choosing : Left(w.mode, p) = IF p \in {"select-inspect", "undo"} THEN {"iso"} ELSE {}
  BY DEF Left
<1>10. Onward(s)
  BY <1>2, <1>3, <1>4, <1>5, <1>6, <1>7, <1>8 DEF Onward
<1> QED BY <1>2, <1>5, <1>6, <1>7, <1>8, <1>9, <1>10

\* The image is held and mounted to choose a filesystem, and let go again.
LEMMA SelectionSteps ==
  ASSUME Inv, SelectHold \/ SelectMount \/ ResolveExtractedFilesystem \/ SelectFail \/ SelectUmount
  PROVE  Inv'
<1>0. /\ w.mode = "extracted" /\ w.pc \in Choosing
      /\ {"open", "undo", "select-mount", "select-inspect", "select-remove"} \subseteq Choosing
  BY DEF SelectHold, SelectMount, ResolveExtractedFilesystem, SelectFail, Fail, FailTo,
         SelectUmount, Dispatch, At, Choosing, ChoosingStages
<1>1. CASE SelectHold
  <2>1. w.pc = "open" /\ AcquireReadLease("select-mount")
    BY <1>1 DEF SelectHold, Dispatch, At
  <2>2. Onward("select-mount") /\ Carries("select-mount") /\ ~Freed(w.mode, "select-mount")
        /\ ~Finishing(w.mode, "select-mount")
        /\ Phase(w.mode, "select-mount") = Phase(w.mode, w.pc)
    BY <1>0, <2>1, Selecting DEF Carries
  <2>3. Freed(w.mode, w.pc)
    BY <2>1 DEF Freed
  <2> QED BY <1>0, <2>1, <2>2, <2>3, AcquireStep DEF Onward
<1>2. CASE SelectMount
  <2>1. w.pc = "select-mount" /\ MountOwn("iso", "select-inspect")
    BY <1>2 DEF SelectMount, Dispatch, At
  <2>2. "iso" \in OwnMounts
    BY DEF OwnMounts
  <2> QED BY <1>0, <2>1, <2>2, Selecting, MountStep DEF MountOwn, Carries
<1>3. CASE ResolveExtractedFilesystem
  <2>1. w.pc = "select-inspect" /\ Observe("undo")
    BY <1>3 DEF ResolveExtractedFilesystem, Dispatch, At
  <2> QED BY <1>0, <2>1, Selecting, ObserveStep DEF Carries
<1>4. CASE SelectFail
  <2>1. w' = [w EXCEPT !.pc = "undo", !.err = TRUE] /\ UNCHANGED <<disk, src>>
    BY <1>4 DEF SelectFail, Fail, FailTo
  <2> QED BY <1>0, <2>1, Selecting, ErrStep, Zenon
<1>5. CASE SelectUmount
  <2>1. w.pc = "undo" /\ CleanMount("iso", "select-remove")
    BY <1>5 DEF SelectUmount, Dispatch, At
  <2>2. Left(w.mode, w.pc) \ {"iso"} \subseteq Left(w.mode, "select-remove")
    BY <1>0, <2>1, Selecting
  <2> QED BY <1>0, <2>1, <2>2, Selecting, CleanMountStep
<1> QED BY <1>1, <1>2, <1>3, <1>4, <1>5

\* Its directory is removed, or cannot be.
LEMMA SelectRemoves ==
  ASSUME Inv, SelectRemove
  PROVE  Inv'
<1>1. /\ w.mode = "extracted" /\ w.pc = "select-remove" /\ UNCHANGED <<disk, src>>
      /\ w' = [w EXCEPT !.pc = "select-release", !.err = w.err \/ w.own # {}]
  BY DEF SelectRemove, Dispatch, At
<1>2. {"select-remove", "select-release"} \subseteq Choosing
  BY DEF Choosing, ChoosingStages
<1>3. /\ Onward("select-release") /\ Left(w.mode, "select-release") = {}
      /\ Left(w.mode, w.pc) = {} /\ ~Finishing(w.mode, "select-release")
      /\ NoWork(w.mode, w.pc)
  BY <1>1, <1>2, Selecting
<1> DEFINE err == w.err \/ w.own # {}
<1>4. err \in BOOLEAN /\ w' = [w EXCEPT !.pc = "select-release", !.err = err]
  BY <1>1 DEF Inv, Shape, Writers
<1>5. ~err => ~w.err
  OBVIOUS
<1> HIDE DEF err
<1>6. /\ Shape' /\ SameWho /\ SameOpen /\ SameDeed /\ SameMounts /\ SameLease /\ SameData
      /\ w'.pc = "select-release" /\ w'.announced = w.announced /\ w'.status = w.status
      /\ w'.err = err
  BY <1>3, <1>4, RemovesShape, Zenon DEF Inv, Onward
<1>7. TargetInv'
  BY <1>1, <1>3, <1>6, TargetOnward, Quiet DEF Inv, SameTarget
<1>8. CleanInv'
  <2>1. Place = w.pc /\ Place' = w'.pc
    BY <1>3, <1>6 DEF Place, Onward
  <2>2. w.status = "none" /\ (w.announced => w.mode \in Early)
    BY <1>3 DEF Inv, CleanInv, Onward
  <2>3. EndsClean'
    BY <1>6, <2>2 DEF EndsClean, SameWho
  <2> QED BY <1>1, <1>3, <1>5, <1>6, <2>1, <2>2, <2>3, Quiet
       DEF Inv, CleanInv, Onward, SameWho, SameMounts, SameLease
<1>9. ImageInv'
  BY <1>3, <1>6, ImageKept DEF Inv, SameData, SameLease, Onward
<1> QED BY <1>1, <1>6, <1>7, <1>8, <1>9, Quiet DEF Inv

\* The writer is named by the user, or by what was found.
LEMMA Requests ==
  ASSUME Inv, NEW m \in Chosen, RequestFilesystem(m)
  PROVE  Inv'
<1>1. /\ w.mode = "extracted" /\ w.pc = "open" /\ UNCHANGED <<disk, src>>
      /\ w' = [w EXCEPT !.mode = m]
  BY DEF RequestFilesystem, Dispatch, At
<1>2. m \in Kinds /\ m \in Builders /\ m # "raw" /\ m # "qualify"
  BY DEF Chosen, Kinds, Modes, Builders
<1>3. Shape
  BY DEF Inv
<1>4. /\ Shape' /\ SameOpen /\ SameDeed /\ SameMounts /\ SameLease /\ SameEnd /\ SameData
      /\ w'.mode = m /\ w'.front = w.front /\ w'.identity = w.identity /\ w'.pc = w.pc
  BY <1>1, <1>2, <1>3, NamesShape
<1>5. /\ "open" \in UnopenedStages /\ "open" \in Choosing
      /\ "open" \notin Asking \cup Preparatory
  BY DEF UnopenedStages, Choosing, Asking, Preparatory
<1>6. Place = "open" /\ Place' = "open"
  BY <1>1, <1>4, <1>5 DEF Place
<1>7. /\ Phase(m, "open") = "unopened" /\ NoWork(m, "open") /\ Left(m, "open") = {}
      /\ Freed(m, "open") /\ ~Finishing(m, "open")
  BY <1>2, <1>5, Opening
<1>8. /\ Phase(w.mode, "open") = "unopened" /\ NoWork(w.mode, "open")
      /\ Left(w.mode, "open") = {} /\ ~Finishing(w.mode, "open")
  BY <1>1, <1>5, Selecting
<1>9. Freed(w.mode, "open")
  BY DEF Freed
<1>10. w.changed = {} /\ w.fd = None /\ w.claim = "none"
  BY <1>6, <1>8 DEF Inv, TargetInv, PhaseInv, Now
<1>11. TargetInv'
  BY <1>1, <1>4, <1>5, <1>6, <1>7, <1>10
     DEF TargetInv, PhaseInv, OpenInv, ChangedInv, ClaimHonest, ErasesReviewed, Now, SameOpen,
          SameDeed
<1>12. CleanInv'
  <2>1. w.status = "none" /\ (w.announced => w.mode \in Early)
    BY <1>1 DEF Inv, CleanInv
  <2>2. ~w.announced
    BY <1>1, <2>1 DEF Early
  <2>3. EndsClean'
    BY <1>4, <2>1, <2>2 DEF EndsClean, SameEnd
  <2> QED BY <1>1, <1>4, <1>6, <1>7, <1>8, <1>9, <2>1, <2>2, <2>3
       DEF Inv, CleanInv, SameMounts, SameLease, SameEnd
<1>13. ImageInv'
  BY <1>1, <1>4, <1>5, ImageKept DEF Inv, SameData, SameLease
<1> QED BY <1>1, <1>4, <1>11, <1>12, <1>13, Quiet DEF Inv

\* The lease is let go before the writer takes its own.
LEMMA SelectDones ==
  ASSUME Inv, NEW m \in Chosen, SelectDone(m)
  PROVE  Inv'
<1>1. /\ w.mode = "extracted" /\ w.pc = "select-release" /\ UNCHANGED disk /\ src' = Released
  BY DEF SelectDone, Dispatch, At
<1>2. m \in Kinds /\ m \in Builders /\ m # "raw" /\ m # "qualify" /\ "no" \in Helds
  BY DEF Chosen, Kinds, Modes, Builders, Helds
<1>3. {"open", "select-release"} \subseteq Choosing /\ "open" \in UnopenedStages
      /\ "returned" \in ClosedStages /\ {"open", "returned"} \subseteq Stages
      /\ {"select-release", "returned", "open"} \cap (Asking \cup Preparatory) = {}
  BY StagesOf DEF Choosing, ChoosingStages, UnopenedStages, ClosedStages, Asking, Preparatory
<1>4. /\ Phase(w.mode, w.pc) = "unopened" /\ Left(w.mode, w.pc) = {} /\ NoWork(w.mode, w.pc)
  BY <1>1, <1>3, Selecting
<1>5. Place = w.pc /\ Now = "unopened"
  BY <1>1, <1>3, <1>4 DEF Place, Now
<1>6. w.changed = {} /\ w.fd = None /\ w.claim = "none"
  BY <1>5 DEF Inv, TargetInv, PhaseInv
<1>7. w.status = "none" /\ ~w.announced
  BY <1>1 DEF Inv, CleanInv, Early
<1>8. SrcType' /\ src'.lease = "none"
  BY <1>1 DEF Released, Inv, SrcType, CleanInv
<1>9. DiskTypeOK' /\ port' = port
  BY <1>1 DEF Inv, DiskTypeOK, disk
<1>10. Shape
  BY DEF Inv
<1>11. CASE w.err \/ ~LeaseIntact
  <2>1. w' = [w EXCEPT !.pc = "returned", !.held = "no", !.err = TRUE]
    BY <1>11 DEF SelectDone
  <2>2. /\ Shape' /\ SameWho /\ SameOpen /\ SameDeed /\ SameMounts /\ SameData
        /\ w'.pc = "returned" /\ w'.held = "no" /\ w'.err = TRUE /\ w'.private = w.private
        /\ w'.announced = w.announced /\ w'.status = w.status
    BY <1>2, <1>3, <1>10, <2>1, SpoilsShape, Zenon
  <2>3. Place' = "returned" /\ Now' = "closed"
    BY <1>1, <1>3, <2>2 DEF Place, Now, Phase, SameWho
  <2>4. TargetInv'
    BY <1>3, <1>6, <2>2, <2>3
       DEF TargetInv, PhaseInv, OpenInv, ChangedInv, ClaimHonest, ErasesReviewed, SameOpen, SameDeed
  <2>5. CleanInv'
    <3>1. EndsClean' BY <1>7, <2>2 DEF EndsClean
    <3>2. ~Finishing(w.mode, "returned") BY DEF Finishing
    <3> QED BY <1>1, <1>7, <1>8, <2>2, <2>3, <3>1, <3>2 DEF Inv, CleanInv, SameMounts, SameWho
  <2>6. ImageInv'
    BY <1>1, <1>3, <2>2, ImageKept DEF Inv, SameData
  <2> QED BY <1>8, <1>9, <2>2, <2>4, <2>5, <2>6 DEF Inv
<1>12. CASE ~w.err /\ LeaseIntact
  <2>1. w' = [w EXCEPT !.pc = "open", !.mode = m, !.held = "no", !.plan = None]
    BY <1>12 DEF SelectDone
  <2>2. None \in DigestSet /\ "open" \in Stages /\ m \in Kinds /\ "no" \in Helds
    BY <1>2, <1>3 DEF DigestSet
  <2>3. /\ Shape' /\ SameOpen /\ SameDeed /\ SameMounts /\ SameEnd
        /\ w'.pc = "open" /\ w'.mode = m /\ w'.held = "no" /\ w'.front = w.front
        /\ w'.identity = w.identity /\ w'.private = w.private /\ w'.image = w.image
    <3>1. Shape'
      BY <1>10, <2>1, <2>2, ZenonT(60) DEF Shape, Writers
    <3> QED BY <1>10, <2>1, <2>2, <3>1 DEF Shape, Writers, SameOpen, SameDeed, SameMounts, SameEnd
  <2>4. Place' = "open" /\ Now' = "unopened"
    BY <1>2, <1>3, <2>3, Opening DEF Place, Now
  <2>5. TargetInv'
    BY <1>3, <1>6, <2>3, <2>4
       DEF TargetInv, PhaseInv, OpenInv, ChangedInv, ClaimHonest, ErasesReviewed, SameOpen, SameDeed
  <2>6. CleanInv'
    <3>1. EndsClean' BY <1>7, <2>3 DEF EndsClean, SameEnd
    <3>2. ~Finishing(m, "open") /\ Left(m, "open") = {}
      BY <1>2, <1>3, Opening
    <3>3. w.own = {} /\ w.known = {} /\ ~w.work
      BY <1>4, <1>5, <1>12 DEF Inv, CleanInv
    <3> QED BY <1>1, <1>7, <1>8, <2>3, <2>4, <3>1, <3>2, <3>3 DEF CleanInv, SameMounts, SameEnd
  <2>7. ImageInv'
    BY <1>1, <1>3, <2>3, ImageKept DEF Inv
  <2> QED BY <1>8, <1>9, <2>3, <2>5, <2>6, <2>7 DEF Inv
<1> QED BY <1>11, <1>12

\* Every step of the choice keeps the invariant.
LEMMA SelectionStep ==
  ASSUME Inv, SelectionNext
  PROVE  Inv'
BY SelectionSteps, SelectRemoves, Requests, SelectDones DEF SelectionNext

-----------------------------------------------------------------------------
(* Extracted media: the two writers *)

\* The manifest of both writers, with the loader of the boot image where it is needed.
LEMMA ManifestStep ==
  ASSUME Inv, ManifestNext
  PROVE  Inv'
<1>0. w.mode \in Chosen /\ w.mode \in Builders
  BY DEF ManifestNext, PrepareExtractedManifest, NoOverlay, PlanElToritoUEFIImage,
         ExtractElToritoUEFIImage, MountOverlay, VerifyReadOnlyLoopFilesystemMount,
         MergeManifestOverlay, ManifestSourcePathAllowed, CloseOverlay, Iso, Chosen, Builders
<1>1. CASE \/ PrepareExtractedManifest \/ NoOverlay \/ PlanElToritoUEFIImage
           \/ ExtractElToritoUEFIImage \/ VerifyReadOnlyLoopFilesystemMount
           \/ MergeManifestOverlay
  <2>1. /\ w.pc \in ReviewStages
        /\ \E s \in ReviewStages : Pass(s) \/ Observe(s) \/ Stage(s)
    BY <1>1 DEF PrepareExtractedManifest, NoOverlay, PlanElToritoUEFIImage,
                ExtractElToritoUEFIImage, VerifyReadOnlyLoopFilesystemMount,
                MergeManifestOverlay, Iso, ReviewStages
  <2> QED BY <1>0, <2>1, ReviewPass
<1>2. CASE MountOverlay
  <2>1. /\ w.pc \in ReviewStages /\ "overlay-mounted" \in ReviewStages
        /\ MountOwn("overlay", "overlay-mounted")
    BY <1>2 DEF MountOverlay, Iso, ReviewStages
  <2> QED BY <1>0, <2>1, ReviewMount
<1>3. CASE ManifestSourcePathAllowed
  <2>1. /\ w.pc \in WritingStages /\ w.pc \notin {"persist-root", "persist-umount"}
        /\ "copy" \in WritingStages /\ Pass("copy")
    BY <1>3 DEF ManifestSourcePathAllowed, Iso, WritingStages
  <2> QED BY <1>0, <2>1, WorkPass
<1>4. CASE CloseOverlay
  <2>1. w.pc = "undo" /\ w.pc \in ClosingStages /\ CleanMount("overlay", "clean-usb")
    BY <1>4 DEF CloseOverlay, Iso, ClosingStages
  <2>2. Left(w.mode, w.pc) \ {"overlay"} \subseteq Left(w.mode, "clean-usb")
    BY <1>0, <2>1, CleanupDuties DEF Own, Chosen
  <2> QED BY <1>0, <2>1, <2>2, BuilderCleans
<1> QED BY <1>1, <1>2, <1>3, <1>4 DEF ManifestNext

\* FAT32 media: up to the first change of the target.
LEMMA FatReviews ==
  ASSUME Inv,
         \/ FatHold \/ FatHash \/ AcquireExtractedTargetLock \/ FatWorkspace \/ FatMountISO
         \/ EstimateFAT32BytesForCluster \/ PlanExtractedLayoutForScheme
         \/ ValidateExtractedFAT32Capacity \/ FatRecheck \/ FatReview \/ FatErase
  PROVE  Inv'
<1>1. CASE FatHold
  BY <1>1, BuilderHold DEF FatHold, Fat, At, Builders
<1>2. CASE FatHash
  BY <1>2, BuilderPrepares DEF FatHash, Fat, At, Builders
<1>3. CASE AcquireExtractedTargetLock
  BY <1>3, BuilderOpen DEF AcquireExtractedTargetLock, Fat, At, Builders
<1>4. CASE FatWorkspace
  BY <1>4, BuilderWork DEF FatWorkspace, Fat, At, Builders
<1>5. CASE FatMountISO
  <2>1. /\ w.mode \in Builders /\ w.pc \in ReviewStages /\ "inspect" \in ReviewStages
        /\ MountOwn("iso", "inspect")
    BY <1>5 DEF FatMountISO, Fat, At, ReviewStages, Builders
  <2> QED BY <2>1, ReviewMount
<1>6. CASE \/ EstimateFAT32BytesForCluster \/ PlanExtractedLayoutForScheme
           \/ ValidateExtractedFAT32Capacity
  <2>1. w.mode \in Builders /\ w.pc \in ReviewStages /\ \E s \in ReviewStages : Pass(s)
    BY <1>6 DEF EstimateFAT32BytesForCluster, PlanExtractedLayoutForScheme,
                ValidateExtractedFAT32Capacity, Fat, At, Builders, ReviewStages
  <2> QED BY <2>1, ReviewPass
<1>7. CASE FatRecheck
  <2>1. /\ w.mode \in Builders /\ w.pc \in ReviewStages /\ "review" \in ReviewStages
        /\ Recheck("review", "untouched")
    BY <1>7 DEF FatRecheck, Fat, At, Builders, ReviewStages
  <2> QED BY <2>1, ReviewRecheck
<1>8. CASE FatReview
  <2>1. /\ w.mode \in Builders /\ w.pc \in ReviewStages
        /\ Ask(TRUE, "erase") /\ UNCHANGED <<disk, src>>
    BY <1>8 DEF FatReview, Fat, At, Builders, ReviewStages
  <2> QED BY <2>1, BuilderAsk
<1>9. CASE FatErase
  <2>1. /\ w.mode \in Builders /\ w.pc \in CheckedStages
        /\ w' = [w EXCEPT !.pc = "wipe", !.touched = TRUE] /\ UNCHANGED <<disk, src>>
    BY <1>9 DEF FatErase, Fat, At, Builders, CheckedStages
  <2> QED BY <2>1, BuilderTouch
<1> QED BY <1>1, <1>2, <1>3, <1>4, <1>5, <1>6, <1>7, <1>8, <1>9

\* The partition is made and filled.
LEMMA FatWrites ==
  ASSUME Inv,
         \/ FatWipe \/ WriteExtractedMBR \/ WriteExtractedGPT \/ VerifyExtractedGPT
         \/ FatReread \/ FatPartition \/ FatUnmount \/ FatBind \/ FatFormat
         \/ FatUnmountAgain \/ FatMountUSB \/ FatCopy \/ FatCopyRest
  PROVE  Inv'
<1>1. CASE FatWipe \/ WriteExtractedMBR \/ WriteExtractedGPT \/ FatFormat
  <2>1. /\ w.mode \in Builders /\ w.pc \in WritingStages
        /\ w.pc \notin {"persist-root", "persist-umount"}
        /\ \E s \in WritingStages : Wipe(s) \/ WriteTable(s) \/ MakeFilesystem(s)
    BY <1>1 DEF FatWipe, WriteExtractedMBR, WriteExtractedGPT, FatFormat, Fat, At, Builders,
                WritingStages
  <2> QED BY <2>1, WorkTable
<1>2. CASE FatReread \/ FatPartition \/ FatUnmount \/ FatUnmountAgain
  <2>1. /\ w.mode \in Builders /\ w.pc \in WritingStages
        /\ w.pc \notin {"persist-root", "persist-umount"}
        /\ \E s \in WritingStages : Reread(s) \/ WaitPartition(s) \/ UnmountPartition(s)
    BY <1>2 DEF FatReread, FatPartition, FatUnmount, FatUnmountAgain, Fat, At, Builders,
                WritingStages
  <2> QED BY <2>1, WorkKernel
<1>3. CASE VerifyExtractedGPT \/ FatBind
  <2>1. /\ w.mode \in Builders /\ w.pc \in WritingStages
        /\ w.pc \notin {"persist-root", "persist-umount"} /\ \E s \in WritingStages : Pass(s)
    BY <1>3 DEF VerifyExtractedGPT, FatBind, Fat, At, Builders, WritingStages
  <2> QED BY <2>1, WorkPass
<1>4. CASE FatMountUSB
  <2>1. /\ w.mode \in Builders /\ w.pc \in WritingStages /\ "target" \in Own(w.mode)
        /\ w.pc \notin {"persist-root", "persist-umount"}
        /\ \E s \in WritingStages : MountOwn("target", s)
    BY <1>4 DEF FatMountUSB, Fat, At, Builders, WritingStages, Own, Chosen
  <2> QED BY <2>1, WorkMount
<1>5. CASE FatCopy \/ FatCopyRest
  <2>1. /\ w.mode \in Builders /\ w.pc \in WritingStages
        /\ w.pc \notin {"persist-root", "persist-umount"}
        /\ \E s \in WritingStages, content \in {Bytes, Mixed(w.staged, Bytes)} :
             CopyFiles(s, content)
    BY <1>5 DEF FatCopy, FatCopyRest, CopyManifestFirst, CopyManifestRest, Fat, At, Builders,
                WritingStages
  <2> QED BY <2>1, BytesRead, MixedContent, WorkCopy
<1> QED BY <1>1, <1>2, <1>3, <1>4, <1>5

\* It is checked, the image looked at again, and the completion announced.
LEMMA FatEnds ==
  ASSUME Inv,
         \/ FatUmountUSB \/ FatFlush \/ FatCheckFilesystem \/ FatBound \/ FatRecheckCopied
         \/ FatFlushDisk \/ FatUmountISO \/ FatComplete \/ FatCleanUSB \/ FatCleanISO
         \/ FatCleanWork \/ FatClose \/ FatRelease
  PROVE  Inv'
<1>1. CASE FatUmountUSB \/ FatUmountISO
  <2>1. /\ w.mode \in Builders /\ w.pc \in WritingStages
        /\ w.pc \notin {"persist-root", "persist-umount"}
        /\ \E s \in WritingStages, m \in {"target", "iso"} : UmountOwn(m, s)
    BY <1>1 DEF FatUmountUSB, FatUmountISO, Fat, At, Builders, WritingStages
  <2> QED BY <2>1, WorkUmount
<1>2. CASE FatFlush \/ FatFlushDisk
  <2>1. /\ w.mode \in Builders /\ w.pc \in WritingStages
        /\ w.pc \notin {"persist-root", "persist-umount"} /\ \E s \in WritingStages : Flush(s)
    BY <1>2 DEF FatFlush, FatFlushDisk, Fat, At, Builders, WritingStages
  <2> QED BY <2>1, WorkFlush
<1>3. CASE FatCheckFilesystem \/ FatBound
  <2>1. /\ w.mode \in Builders /\ w.pc \in WritingStages
        /\ w.pc \notin {"persist-root", "persist-umount"} /\ \E s \in WritingStages : Pass(s)
    BY <1>3 DEF FatCheckFilesystem, FatBound, Fat, At, Builders, WritingStages
  <2> QED BY <2>1, WorkPass
<1>4. CASE FatRecheckCopied
  <2>1. /\ w.mode \in Builders /\ w.pc \in WritingStages
        /\ w.pc \notin {"persist-root", "persist-umount"}
        /\ \E s \in WritingStages : Recheck(s, "incomplete")
    BY <1>4 DEF FatRecheckCopied, Fat, At, Builders, WritingStages
  <2> QED BY <2>1, WorkRecheck
<1>5. CASE FatComplete
  <2>1. /\ w.mode \in Builders /\ w.mode \in Early /\ w.pc \in WritingStages
        /\ w.pc \notin {"persist-root", "persist-umount"}
        /\ w' = [w EXCEPT !.pc = "undo", !.announced = TRUE] /\ UNCHANGED <<disk, src>>
    BY <1>5 DEF FatComplete, Fat, At, Builders, Early, WritingStages
  <2> QED BY <2>1, WorkPublish
<1>6. CASE FatCleanUSB \/ FatCleanISO
  <2>1. /\ w.mode \in Builders /\ w.pc \in ClosingStages /\ w.pc # "close"
        /\ \/ w.pc = "clean-usb" /\ CleanMount("target", "clean-iso")
           \/ w.pc = "clean-iso" /\ CleanMount("iso", "clean-work")
    BY <1>6 DEF FatCleanUSB, FatCleanISO, Fat, At, Builders, ClosingStages
  <2>2. /\ Left(w.mode, "clean-usb") \ {"target"} \subseteq Left(w.mode, "clean-iso")
        /\ Left(w.mode, "clean-iso") \ {"iso"} \subseteq Left(w.mode, "clean-work")
    BY <2>1, CleanupDuties
  <2> QED BY <2>1, <2>2, BuilderCleans
<1>7. CASE FatCleanWork
  BY <1>7, BuilderCleansWork DEF FatCleanWork, Fat, At, Builders
<1>8. CASE FatClose
  BY <1>8, BuilderCloses DEF FatClose, Fat, At, Builders
<1>9. CASE FatRelease
  BY <1>9, BuilderReleases DEF FatRelease, Fat, At, Builders
<1> QED BY <1>1, <1>2, <1>3, <1>4, <1>5, <1>6, <1>7, <1>8, <1>9

\* NTFS media: up to the first change of the target.
LEMMA NtfsReviews ==
  ASSUME Inv,
         \/ NtfsHold \/ NtfsHash \/ NtfsOpenTarget \/ NtfsWorkspace \/ NtfsMountISO
         \/ PlanExtractedMedia \/ Locate \/ OpenVerifiedAsset
         \/ PlanLayoutForProfile \/ NtfsRecheck \/ NtfsReview \/ NtfsErase
  PROVE  Inv'
<1>1. CASE NtfsHold
  BY <1>1, BuilderHold DEF NtfsHold, Ntfs, At, Builders
<1>2. CASE NtfsHash
  BY <1>2, BuilderPrepares DEF NtfsHash, Ntfs, At, Builders
<1>3. CASE NtfsOpenTarget
  BY <1>3, BuilderOpen DEF NtfsOpenTarget, Ntfs, At, Builders
<1>4. CASE NtfsWorkspace
  BY <1>4, BuilderWork DEF NtfsWorkspace, Ntfs, At, Builders
<1>5. CASE NtfsMountISO
  <2>1. /\ w.mode \in Builders /\ w.pc \in ReviewStages /\ "inspect" \in ReviewStages
        /\ MountOwn("iso", "inspect")
    BY <1>5 DEF NtfsMountISO, Ntfs, At, ReviewStages, Builders
  <2> QED BY <2>1, ReviewMount
<1>6. CASE \/ PlanExtractedMedia \/ Locate \/ OpenVerifiedAsset
           \/ PlanLayoutForProfile
  <2>1. w.mode \in Builders /\ w.pc \in ReviewStages /\ \E s \in ReviewStages : Pass(s)
    BY <1>6 DEF PlanExtractedMedia, Locate, OpenVerifiedAsset,
                PlanLayoutForProfile, Ntfs, At, Builders, ReviewStages
  <2> QED BY <2>1, ReviewPass
<1>7. CASE NtfsRecheck
  <2>1. /\ w.mode \in Builders /\ w.pc \in ReviewStages /\ "review" \in ReviewStages
        /\ Recheck("review", "untouched")
    BY <1>7 DEF NtfsRecheck, Ntfs, At, Builders, ReviewStages
  <2> QED BY <2>1, ReviewRecheck
<1>8. CASE NtfsReview
  <2>1. /\ w.mode \in Builders /\ w.pc \in ReviewStages
        /\ Ask(TRUE, "erase") /\ UNCHANGED <<disk, src>>
    BY <1>8 DEF NtfsReview, Ntfs, At, Builders, ReviewStages
  <2> QED BY <2>1, BuilderAsk
<1>9. CASE NtfsErase
  <2>1. /\ w.mode \in Builders /\ w.pc \in CheckedStages
        /\ w' = [w EXCEPT !.pc = "wipe", !.touched = TRUE] /\ UNCHANGED <<disk, src>>
    BY <1>9 DEF NtfsErase, Ntfs, At, Builders, CheckedStages
  <2> QED BY <2>1, BuilderTouch
<1> QED BY <1>1, <1>2, <1>3, <1>4, <1>5, <1>6, <1>7, <1>8, <1>9

\* The partitions are made and filled.
LEMMA NtfsWrites ==
  ASSUME Inv,
         \/ NtfsWipe \/ WriteMBRLayout \/ WriteGPTLayout \/ WriteAndVerify
         \/ NtfsReread \/ NtfsPartition \/ NtfsUnmount \/ VerifyPartitionPath
         \/ NtfsBind \/ NtfsFormat
         \/ NtfsUnmountAgain \/ NtfsMountUSB \/ NtfsCopy \/ NtfsCopyRest
  PROVE  Inv'
<1>1. CASE NtfsWipe \/ WriteMBRLayout \/ WriteGPTLayout \/ NtfsFormat
  <2>1. /\ w.mode \in Builders /\ w.pc \in WritingStages
        /\ w.pc \notin {"persist-root", "persist-umount"}
        /\ \E s \in WritingStages : Wipe(s) \/ WriteTable(s) \/ MakeFilesystem(s)
    BY <1>1 DEF NtfsWipe, WriteMBRLayout, WriteGPTLayout, NtfsFormat, Ntfs, At, Builders,
                WritingStages
  <2> QED BY <2>1, WorkTable
<1>2. CASE NtfsReread \/ NtfsPartition \/ NtfsUnmount \/ NtfsUnmountAgain
  <2>1. /\ w.mode \in Builders /\ w.pc \in WritingStages
        /\ w.pc \notin {"persist-root", "persist-umount"}
        /\ \E s \in WritingStages : Reread(s) \/ WaitPartition(s) \/ UnmountPartition(s)
    BY <1>2 DEF NtfsReread, NtfsPartition, NtfsUnmount, NtfsUnmountAgain, Ntfs, At, Builders,
                WritingStages
  <2> QED BY <2>1, WorkKernel
<1>3. CASE VerifyPartitionPath \/ NtfsBind
  <2>1. /\ w.mode \in Builders /\ w.pc \in WritingStages
        /\ w.pc \notin {"persist-root", "persist-umount"} /\ \E s \in WritingStages : Pass(s)
    BY <1>3 DEF VerifyPartitionPath, NtfsBind, Ntfs, At, Builders, WritingStages
  <2> QED BY <2>1, WorkPass
<1>4. CASE NtfsMountUSB
  <2>1. /\ w.mode \in Builders /\ w.pc \in WritingStages /\ "target" \in Own(w.mode)
        /\ w.pc \notin {"persist-root", "persist-umount"}
        /\ \E s \in WritingStages : MountOwn("target", s)
    BY <1>4 DEF NtfsMountUSB, Ntfs, At, Builders, WritingStages, Own, Chosen
  <2> QED BY <2>1, WorkMount
<1>5. CASE NtfsCopy \/ NtfsCopyRest
  <2>1. /\ w.mode \in Builders /\ w.pc \in WritingStages
        /\ w.pc \notin {"persist-root", "persist-umount"}
        /\ \E s \in WritingStages, content \in {Bytes, Mixed(w.staged, Bytes)} :
             CopyFiles(s, content)
    BY <1>5 DEF NtfsCopy, NtfsCopyRest, CopyManifestFirst, CopyManifestRest, Ntfs, At, Builders,
                WritingStages
  <2> QED BY <2>1, BytesRead, MixedContent, WorkCopy
<1>6. CASE WriteAndVerify
  <2>1. /\ w.mode \in Builders /\ w.pc \in WritingStages
        /\ w.pc \notin {"persist-root", "persist-umount"} /\ "reread" \in WritingStages
        /\ "image" \in Boots /\ BootChange("reread", "image")
    BY <1>6 DEF WriteAndVerify, Ntfs, At, Builders, WritingStages, BootChange, Boots
  <2> QED BY <2>1, WorkTable
<1> QED BY <1>1, <1>2, <1>3, <1>4, <1>5, <1>6

\* They are checked, the image looked at again, and the completion announced.
LEMMA NtfsEnds ==
  ASSUME Inv,
         \/ NtfsUmountUSB \/ NtfsFlush \/ NtfsCheckFilesystem \/ NtfsBound \/ NtfsRecheckCopied
         \/ NtfsFlushDisk \/ NtfsUmountISO \/ NtfsComplete \/ NtfsCleanUSB \/ NtfsCleanISO
         \/ NtfsCleanWork \/ NtfsClose \/ NtfsRelease
  PROVE  Inv'
<1>1. CASE NtfsUmountUSB \/ NtfsUmountISO
  <2>1. /\ w.mode \in Builders /\ w.pc \in WritingStages
        /\ w.pc \notin {"persist-root", "persist-umount"}
        /\ \E s \in WritingStages, m \in {"target", "iso"} : UmountOwn(m, s)
    BY <1>1 DEF NtfsUmountUSB, NtfsUmountISO, Ntfs, At, Builders, WritingStages
  <2> QED BY <2>1, WorkUmount
<1>2. CASE NtfsFlush \/ NtfsFlushDisk
  <2>1. /\ w.mode \in Builders /\ w.pc \in WritingStages
        /\ w.pc \notin {"persist-root", "persist-umount"} /\ \E s \in WritingStages : Flush(s)
    BY <1>2 DEF NtfsFlush, NtfsFlushDisk, Ntfs, At, Builders, WritingStages
  <2> QED BY <2>1, WorkFlush
<1>3. CASE NtfsCheckFilesystem \/ NtfsBound
  <2>1. /\ w.mode \in Builders /\ w.pc \in WritingStages
        /\ w.pc \notin {"persist-root", "persist-umount"} /\ \E s \in WritingStages : Pass(s)
    BY <1>3 DEF NtfsCheckFilesystem, NtfsBound, Ntfs, At, Builders, WritingStages
  <2> QED BY <2>1, WorkPass
<1>4. CASE NtfsRecheckCopied
  <2>1. /\ w.mode \in Builders /\ w.pc \in WritingStages
        /\ w.pc \notin {"persist-root", "persist-umount"}
        /\ \E s \in WritingStages : Recheck(s, "incomplete")
    BY <1>4 DEF NtfsRecheckCopied, Ntfs, At, Builders, WritingStages
  <2> QED BY <2>1, WorkRecheck
<1>5. CASE NtfsComplete
  <2>1. /\ w.mode \in Builders /\ w.mode \in Early /\ w.pc \in WritingStages
        /\ w.pc \notin {"persist-root", "persist-umount"}
        /\ w' = [w EXCEPT !.pc = "undo", !.announced = TRUE] /\ UNCHANGED <<disk, src>>
    BY <1>5 DEF NtfsComplete, Ntfs, At, Builders, Early, WritingStages
  <2> QED BY <2>1, WorkPublish
<1>6. CASE NtfsCleanUSB \/ NtfsCleanISO
  <2>1. /\ w.mode \in Builders /\ w.pc \in ClosingStages /\ w.pc # "close"
        /\ \/ w.pc = "clean-usb" /\ CleanMount("target", "clean-iso")
           \/ w.pc = "clean-iso" /\ CleanMount("iso", "clean-work")
    BY <1>6 DEF NtfsCleanUSB, NtfsCleanISO, Ntfs, At, Builders, ClosingStages
  <2>2. /\ Left(w.mode, "clean-usb") \ {"target"} \subseteq Left(w.mode, "clean-iso")
        /\ Left(w.mode, "clean-iso") \ {"iso"} \subseteq Left(w.mode, "clean-work")
    BY <2>1, CleanupDuties
  <2> QED BY <2>1, <2>2, BuilderCleans
<1>7. CASE NtfsCleanWork
  BY <1>7, BuilderCleansWork DEF NtfsCleanWork, Ntfs, At, Builders
<1>8. CASE NtfsClose
  BY <1>8, BuilderCloses DEF NtfsClose, Ntfs, At, Builders
<1>9. CASE NtfsRelease
  BY <1>9, BuilderReleases DEF NtfsRelease, Ntfs, At, Builders
<1> QED BY <1>1, <1>2, <1>3, <1>4, <1>5, <1>6, <1>7, <1>8, <1>9

\* A step of either fails.
LEMMA IsoFails ==
  ASSUME Inv, IsoFail \/ IsoFailTorn
  PROVE  Inv'
<1>0. w.mode \in Builders
  BY DEF IsoFail, IsoFailTorn, Fail, FailTo, FailTorn, FailTornTo, Chosen, Builders
<1>1. CASE IsoFail
  <2>1. w' = [w EXCEPT !.pc = "undo", !.err = TRUE] /\ UNCHANGED <<disk, src>>
    BY <1>1 DEF IsoFail, Fail, FailTo
  <2>2. w.pc \in UnopenedStages \cup ReviewStages \cup CheckedStages \cup WritingStages
    BY <1>1 DEF IsoFail, Fail, FailTo, UnopenedStages, ReviewStages, CheckedStages,
                WritingStages
  <2> QED BY <1>0, <2>1, <2>2, BuilderFail
<1>2. CASE IsoFailTorn
  <2>1. w.pc \in WritingStages
    BY <1>2 DEF IsoFailTorn, FailTorn, FailTornTo, WritingStages
  <2>2. FailTorn(w.mode, {w.pc})
    BY <1>2, ZenonT(60) DEF IsoFailTorn, FailTorn, FailTornTo
  <2> QED BY <1>0, <2>1, <2>2, BuilderTorn
<1> QED BY <1>1, <1>2

\* Every step of the media from an extracted image keeps the invariant.
LEMMA ExtractedStep ==
  ASSUME Inv, ExtractedNext
  PROVE  Inv'
<1>1. CASE FatNext
  BY <1>1, FatReviews, FatWrites, FatEnds DEF FatNext
<1>2. CASE NtfsNext
  BY <1>2, NtfsReviews, NtfsWrites, NtfsEnds DEF NtfsNext
<1> QED BY <1>1, <1>2, SelectionStep, ManifestStep, IsoFails DEF ExtractedNext

-----------------------------------------------------------------------------
(* The raw writer *)

\* The stages of the raw writer before the target is open, while it is, and after.
RawBefore == {"open", "lease", "hash", "target"}
\* The target is open.
RawDuring == {"before", "final", "clear", "write", "write-rest", "sync"}
\* It is closed, and the medium is read.
RawAfter == {"flush", "verify", "finish"}
\* Every one.
RawStages == RawBefore \cup RawDuring \cup RawAfter \cup {"undo", "release", "returned"}

\* Its stages, by phase; it mounts nothing and has no workspace.
LEMMA RawPhases ==
  /\ \A s \in RawBefore : Phase("raw", s) = "unopened"
  /\ Phase("raw", "before") = "reviewing"
  /\ \A s \in {"final", "clear"} : Phase("raw", s) = "checked"
  /\ \A s \in {"write", "write-rest", "sync"} : Phase("raw", s) = "writing"
  /\ Phase("raw", "undo") = "closing"
  /\ \A s \in RawAfter \cup {"release", "returned"} : Phase("raw", s) = "closed"
<1>1. RawBefore \subseteq UnopenedStages
  BY DEF RawBefore, UnopenedStages
<1>2. "before" \in ReviewStages
  BY DEF ReviewStages
<1>3. "clear" \in CheckedStages /\ "undo" \in ClosingStages
      /\ {"release", "returned"} \subseteq ClosedStages
  BY DEF CheckedStages, ClosingStages, ClosedStages
<1>4. {"write", "write-rest", "sync"} \subseteq WritingStages
  BY DEF WritingStages
<1>5. \A s \in RawAfter : Finishing("raw", s)
  BY DEF RawAfter, Finishing
<1>6. \A s \in RawBefore \cup RawDuring \cup {"undo"} : ~Finishing("raw", s)
  BY DEF RawBefore, RawDuring, Finishing
<1>7. "final" \notin ClosedStages \cup UnopenedStages \cup ClosingStages \cup ReviewStages
  BY DEF ClosedStages, UnopenedStages, ClosingStages, ReviewStages, Preparatory
<1> QED
  BY <1>1, <1>2, <1>3, <1>4, <1>5, <1>6, <1>7, Disjoint DEF Phase, RawDuring

\* What is expected of it at its stages.
LEMMA RawDuties ==
  ASSUME NEW s \in RawStages
  PROVE  /\ NoWork("raw", s) /\ Left("raw", s) = {}
         /\ Finishing("raw", s) <=> s \in RawAfter
         /\ s \in {"open", "lease", "returned"} \cup RawAfter => Freed("raw", s)
         /\ s \in {"hash", "target", "undo", "release"} \cup RawDuring => ~Freed("raw", s)
<1>1. "raw" \notin Builders \cup Chosen
  BY DEF Builders, Chosen
<1>2. NoWork("raw", s) /\ (Finishing("raw", s) <=> s \in RawAfter)
  BY <1>1 DEF NoWork, Finishing, RawAfter
<1>3. s \in {"open", "lease", "returned"} \cup RawAfter => Freed("raw", s)
  BY <1>2 DEF Freed
<1>4. s \in {"hash", "target", "undo", "release"} \cup RawDuring => ~Freed("raw", s)
  BY DEF Freed, RawDuring, Finishing
<1>5. s \notin {"clean-iso", "clean-os", "clean-usb", "persist-root", "persist-umount",
                "undo-persist"}
  BY DEF RawStages, RawBefore, RawDuring, RawAfter
<1>6. Left("raw", s) = {}
  BY <1>1, <1>5 DEF Left, Own
<1> QED BY <1>2, <1>3, <1>4, <1>6

\* It may go on at its present phase, or fail.
LEMMA RawOnward ==
  ASSUME w.mode = "raw", w.pc \in RawStages \ {"returned"}, NEW s \in RawStages \ RawAfter,
         Phase("raw", s) \in {Phase("raw", w.pc), "closing"}, Freed("raw", s) => Freed("raw", w.pc)
  PROVE  Onward(s) /\ Carries(s) /\ ~Finishing(w.mode, s)
<1>1. RawStages \subseteq Stages
  BY DEF RawStages, RawBefore, RawDuring, RawAfter, Stages, UnopenedStages, ReviewStages,
         CheckedStages, WritingStages, ClosingStages, ClosedStages
<1>2. \A p \in RawStages : p \notin Asking \cup Preparatory /\ p # "ended"
  BY DEF RawStages, RawBefore, RawDuring, RawAfter, Asking, Preparatory
<1> QED BY <1>1, <1>2, RawDuties DEF Onward, Carries

\* While the target is not open the writer goes on with the image.
LEMMA RawOpens ==
  ASSUME Inv, RawOpen \/ RawHold \/ RawSnapshot \/ RawOpenTarget
  PROVE  Inv'
<1>0. /\ w.mode = "raw" /\ w.pc \in RawBefore /\ RawBefore \subseteq RawStages
      /\ w.pc \in RawStages \ {"returned"}
      /\ w.pc \notin Asking \cup {"returned", "ended"}
      /\ {"lease", "hash", "target", "before"} \subseteq RawStages \ RawAfter
      /\ {"lease", "hash", "target"} \subseteq RawBefore
  BY DEF RawOpen, RawHold, RawSnapshot, RawOpenTarget, At, RawBefore, RawStages, RawAfter,
         RawDuring, Asking
<1>1. CASE RawOpen
  <2>1. w.pc = "open" /\ Ask(TRUE, "lease") /\ UNCHANGED <<disk, src>>
    BY <1>1 DEF RawOpen, At
  <2>2. "lease" \in Answers /\ w.mode \notin Early
    BY <1>0 DEF Answers, Early
  <2>3. ~w.announced /\ "lease" \notin Preparatory
    BY <1>0, <2>2 DEF Inv, CleanInv, Preparatory
  <2>4. Freed("raw", w.pc) /\ NoWork("raw", w.pc) /\ Carries("lease")
        /\ ~Finishing(w.mode, "lease")
    BY <1>0, <2>1, RawDuties DEF Carries, RawAfter
  <2> QED BY <1>0, <2>1, <2>2, <2>3, <2>4, RawPhases, AskStep
<1>2. CASE RawHold
  <2>1. w.pc = "lease"
    BY <1>2 DEF RawHold, At
  <2>2. Onward("hash") /\ Carries("hash") /\ ~Finishing(w.mode, "hash")
    BY <1>0, <2>1, RawPhases, RawDuties, RawOnward
  <2>3. Freed("raw", w.pc) /\ ~Freed("raw", "hash")
        /\ Phase("raw", "hash") = Phase("raw", w.pc) /\ NoWork("raw", w.pc)
    BY <1>0, <2>1, RawPhases, RawDuties
  <2>4. Pass("hash") \/ AcquireReadLease("hash")
    BY <1>2 DEF RawHold, Pass
  <2> QED BY <1>0, <2>1, <2>2, <2>3, <2>4, PassStep, AcquireStep DEF Onward
<1>3. CASE RawSnapshot
  <2>1. w.pc = "hash" /\ HashFirst("target")
    BY <1>3 DEF RawSnapshot, At
  <2> QED BY <1>0, <2>1, RawPhases, RawDuties, RawOnward, HashStep
<1>4. CASE RawOpenTarget
  <2>1. w.pc = "target" /\ OpenTarget("before")
    BY <1>4 DEF RawOpenTarget, At
  <2>2. "before" \in Stages /\ "before" \notin Asking \cup Preparatory
    BY StagesOf, Disjoint DEF ReviewStages, UnopenedStages, Preparatory, Asking
  <2>3. Carries("before") /\ NoWork("raw", w.pc) /\ ~Freed("raw", "before")
        /\ ~Finishing("raw", "before")
    BY <1>0, RawDuties DEF Carries, RawAfter, RawDuring
  <2> QED BY <1>0, <2>1, <2>2, <2>3, RawPhases, OpenStep
<1> QED BY <1>1, <1>2, <1>3, <1>4

\* The last looks at the target, by identity.
LEMMA RawLooks ==
  ASSUME Inv, RawBeforeWrite \/ RawFinalCheck
  PROVE  Inv'
<1>0. /\ w.mode = "raw" /\ w.pc \in {"before", "final"}
      /\ {"before", "final", "clear"} \subseteq RawDuring
      /\ RawDuring \subseteq RawStages \ RawAfter
      /\ w.pc \notin Asking \cup {"returned", "ended"}
  BY DEF RawBeforeWrite, RawFinalCheck, At, RawStages, RawAfter, RawDuring, Asking
<1>1. CASE RawBeforeWrite
  <2>1. w.pc = "before" /\ Ask(TRUE, "final") /\ UNCHANGED <<disk, src>>
    BY <1>1 DEF RawBeforeWrite, At
  <2>2. "final" \in Answers /\ w.mode \notin Early
    BY <1>0 DEF Answers, Early
  <2>3. ~w.announced /\ "final" \notin Preparatory
    BY <1>0, <2>2 DEF Inv, CleanInv, Preparatory
  <2>4. NoWork("raw", w.pc) /\ Carries("final") /\ ~Finishing(w.mode, "final")
        /\ ~Freed("raw", "final")
    BY <1>0, <2>1, RawDuties DEF Carries, RawAfter
  <2> QED BY <1>0, <2>1, <2>2, <2>3, <2>4, RawPhases, AskStep
<1>2. CASE RawFinalCheck
  <2>1. w.pc = "final" /\ Pass("clear")
    BY <1>2 DEF RawFinalCheck, At, Pass
  <2>2. w.pc \in RawStages \ {"returned"} /\ "clear" \in RawStages \ RawAfter
        /\ Phase("raw", "clear") = Phase("raw", w.pc) /\ ~Freed("raw", "clear")
    BY <1>0, <2>1, RawPhases, RawDuties
  <2> QED BY <1>0, <2>1, <2>2, RawOnward, PassStep
<1> QED BY <1>1, <1>2

\* The edges are cleared, which is the first change.
LEMMA RawClears ==
  ASSUME Inv, RawClearEdges
  PROVE  Inv'
<1>1. /\ w.mode = "raw" /\ w.pc = "clear" /\ port = w.fd
      /\ cache' = [cache EXCEPT ![w.fd.disk] = [table |-> "none", fs |-> "none"]]
      /\ media' = [media EXCEPT ![w.fd.disk] = [table |-> "none", fs |-> "none"]]
      /\ w' = [w EXCEPT !.pc = "write", !.touched = TRUE, !.changed = @ \cup {w.fd}]
      /\ UNCHANGED <<port, attached, mounts, parts, src>>
  BY DEF RawClearEdges, At
<1>2. {"clear", "write"} \subseteq RawDuring /\ RawDuring \subseteq RawStages
      /\ {"clear", "write"} \cap (Asking \cup Preparatory \cup {"returned", "ended"}) = {}
  BY DEF RawDuring, RawStages, Asking, Preparatory
<1>3. "write" \in Stages
  BY StagesOf DEF WritingStages
<1>4. Phase("raw", "clear") = "checked" /\ Phase("raw", "write") = "writing"
  BY RawPhases
<1>5. w.fd \in Attachments /\ w.fd.disk \in Disks
  BY <1>1, <1>2, <1>4, OpenWhileWriting
<1>6. /\ Shape' /\ SameWho /\ SameOpen /\ SameMounts /\ SameLease /\ SameEnd /\ SameData
      /\ w'.pc = "write" /\ w'.touched = TRUE /\ w'.changed = w.changed \cup {w.fd}
      /\ w'.claim = w.claim
  <2> DEFINE changed == w.changed \cup {w.fd}
  <2>1. /\ changed \in SUBSET Attachments
        /\ w' = [w EXCEPT !.pc = "write", !.touched = TRUE, !.changed = changed]
    BY <1>1, <1>5 DEF Inv, Shape, Writers
  <2> HIDE DEF changed
  <2>2. /\ Shape' /\ SameWho /\ SameOpen /\ SameMounts /\ SameLease /\ SameEnd /\ SameData
        /\ w'.pc = "write" /\ w'.touched = TRUE /\ w'.changed = changed /\ w'.claim = w.claim
    BY <1>3, <2>1, ClearsShape, Zenon DEF Inv
  <2> QED BY <2>2 DEF changed
<1>7. DiskTypeOK' /\ SrcType'
  BY <1>1, <1>5, Literals DEF Inv, DiskTypeOK, SrcType
<1>8. TargetInv'
  BY <1>1, <1>2, <1>4, <1>6, TargetTouched DEF Inv
<1>9. CleanInv'
  <2>1. Place = w.pc /\ Place' = w'.pc
    BY <1>1, <1>2, <1>6 DEF Place
  <2>2. w.status = "none" /\ (w.announced => w.mode \in Early)
    BY <1>1 DEF Inv, CleanInv
  <2>3. EndsClean'
    BY <1>6, <2>2 DEF EndsClean, SameEnd, SameWho
  <2>4. /\ ~Freed("raw", "write") /\ NoWork("raw", "clear") /\ ~Finishing("raw", "write")
        /\ Left("raw", "clear") = {} /\ Left("raw", "write") = {}
    BY <1>2, RawDuties DEF RawAfter
  <2> QED BY <1>1, <1>6, <2>1, <2>2, <2>3, <2>4
       DEF Inv, CleanInv, SameEnd, SameWho, SameLease, SameMounts
<1>10. ImageInv'
  BY <1>2, <1>6, ImageKept DEF Inv, SameData, SameLease
<1> QED BY <1>6, <1>7, <1>8, <1>9, <1>10 DEF Inv

\* The image is written, in two chunks, and synced.
LEMMA RawWrites ==
  ASSUME Inv, RawWriteFirst \/ RawWriteRest \/ RawSync
  PROVE  Inv'
<1>0. /\ w.mode = "raw" /\ w.pc \in {"write", "write-rest", "sync"}
      /\ w.pc \in RawStages \ {"returned"} /\ w.pc \notin Asking
      /\ {"write", "write-rest", "sync", "undo"} \subseteq RawStages \ RawAfter
      /\ {"write", "write-rest", "sync"} \subseteq RawDuring
  BY DEF RawWriteFirst, RawWriteRest, RawSync, At, RawStages, RawAfter, RawDuring, Asking
<1>1. Phase(w.mode, w.pc) = "writing" /\ Held \in Cells /\ Bytes \in Digests
      /\ Bytes \in Contents /\ Digests \subseteq Contents
  BY <1>0, RawPhases, OpenWhileWriting, BytesRead
<1>2. \A s \in {"write-rest", "sync", "undo"} :
        Onward(s) /\ Carries(s) /\ ~Finishing(w.mode, s)
  BY <1>0, <1>1, RawPhases, RawDuties, RawOnward
<1>3. CASE RawWriteFirst
  <2> DEFINE c == [table |-> "plan", fs |-> Bytes]
  <2>1. c \in Cells /\ Change("write-rest", c)
    BY <1>1, <1>3, Literals DEF RawWriteFirst, Cells
  <2> HIDE DEF c
  <2> QED BY <1>1, <1>2, <2>1, ChangeStep
<1>4. CASE RawWriteRest
  <2> DEFINE c == [Held EXCEPT !.fs = Mixed(@, Bytes)]
  <2>1. Mixed(Held.fs, Bytes) \in Contents
    BY <1>1, MixedContent
  <2>2. c \in Cells /\ Change("sync", c)
    BY <1>1, <1>4, <2>1 DEF RawWriteRest, Cells
  <2> HIDE DEF c
  <2> QED BY <1>1, <1>2, <2>2, ChangeStep
<1>5. CASE RawSync /\ Flush("undo")
  BY <1>1, <1>2, <1>5, FlushStep
<1>6. CASE RawSync /\ ~Flush("undo")
  <2> DEFINE said == IF VerifyPinned THEN "incomplete" ELSE w.claim
  <2>1. /\ w' = [w EXCEPT !.pc = "undo", !.err = TRUE, !.claim = said]
        /\ UNCHANGED <<disk, src>>
    BY <1>6 DEF RawSync
  <2>2. said \in Claims
    BY DEF Inv, Shape, Writers, Claims
  <2>3. said = "untouched" => w.claim = "untouched"
    OBVIOUS
  <2> HIDE DEF said
  <2>4. Phase(w.mode, "undo") = "closing"
    BY <1>0, RawPhases
  <2> QED BY <1>2, <2>1, <2>2, <2>3, <2>4, SaysStep, Zenon
<1> QED BY <1>3, <1>4, <1>5, <1>6

\* Anything fails, a write after some of it has been done.
LEMMA RawFails ==
  ASSUME Inv, RawFail \/ RawFailWrite
  PROVE  Inv'
<1>0. /\ w.mode = "raw" /\ w.pc \in RawBefore \cup RawDuring
      /\ w.pc \in RawStages \ {"returned"} /\ w.pc \notin Asking \cup {"ended"}
      /\ "undo" \in RawStages \ RawAfter
  BY DEF RawFail, RawFailWrite, Fail, FailTo, RawBefore, RawStages, RawAfter, RawDuring, Asking
<1>1. /\ Onward("undo") /\ Carries("undo") /\ ~Finishing(w.mode, "undo")
      /\ Phase(w.mode, "undo") = "closing"
  BY <1>0, RawPhases, RawDuties, RawOnward
<1>2. CASE RawFail
  BY <1>1, <1>2, ErrStep, Zenon DEF RawFail, Fail, FailTo
<1>3. CASE RawFailWrite
  <2>1. /\ w.pc \in {"clear", "write", "write-rest"} /\ port = w.fd
        /\ cache' = [cache EXCEPT ![w.fd.disk].fs = "torn"]
        /\ w' = [w EXCEPT !.pc = "undo", !.err = TRUE, !.touched = TRUE,
                          !.changed = @ \cup {w.fd}]
        /\ UNCHANGED <<port, attached, mounts, parts, media, src>>
    BY <1>3 DEF RawFailWrite
  <2>2. Phase(w.mode, w.pc) = IF w.pc = "clear" THEN "checked" ELSE "writing"
    BY <1>0, <2>1, RawPhases
  <2>3. w.fd \in Attachments /\ w.fd.disk \in Disks /\ Held \in Cells
    BY <1>0, <2>2, OpenWhileWriting
  <2>4. DiskTypeOK' /\ SrcType'
    <3> DEFINE c == [Held EXCEPT !.fs = "torn"]
    <3>1. c \in Cells /\ cache' = [cache EXCEPT ![w.fd.disk] = c]
      BY <2>1, <2>3, Literals DEF Held, Cells
    <3> HIDE DEF c
    <3> QED BY <2>1, <2>3, <3>1 DEF Inv, DiskTypeOK, SrcType, Cells
  <2>5. /\ Shape' /\ SameWho /\ SameOpen /\ SameMounts /\ SameLease /\ SameData
        /\ w'.pc = "undo" /\ w'.err = TRUE /\ w'.touched = TRUE /\ w'.claim = w.claim
        /\ w'.announced = w.announced /\ w'.status = w.status
        /\ w'.changed = w.changed \cup {w.fd}
    <3> DEFINE changed == w.changed \cup {w.fd}
    <3>1. /\ changed \in SUBSET Attachments /\ "undo" \in Stages
          /\ w' = [w EXCEPT !.pc = "undo", !.err = TRUE, !.touched = TRUE, !.changed = changed]
      BY <1>1, <2>1, <2>3 DEF Inv, Shape, Writers, Onward
    <3> HIDE DEF changed
    <3>2. /\ Shape' /\ SameWho /\ SameOpen /\ SameMounts /\ SameLease /\ SameData
          /\ w'.pc = "undo" /\ w'.err = TRUE /\ w'.touched = TRUE /\ w'.claim = w.claim
          /\ w'.announced = w.announced /\ w'.status = w.status /\ w'.changed = changed
      BY <3>1, TearsFirstShape, Zenon DEF Inv
    <3> QED BY <3>2 DEF changed
  <2>6. TargetInv'
    <3>1. CASE w.pc = "clear"
      BY <1>0, <1>1, <2>1, <2>2, <2>5, <3>1, TargetTouched DEF Inv, Onward
    <3>2. CASE w.pc # "clear"
      <4>1. w.touched = TRUE
        BY <1>0, <2>2, <3>2 DEF Inv, TargetInv, PhaseInv, Now, Place, Shape, Writers
      <4> QED BY <1>0, <1>1, <2>1, <2>2, <2>5, <3>2, <4>1, TargetChanged DEF Inv
    <3> QED BY <3>1, <3>2
  <2>7. CleanInv'
    <3>1. w'.known \subseteq w'.own
      BY <2>5 DEF Inv, CleanInv, SameMounts
    <3> QED BY <1>1, <2>1, <2>5, <3>1, CleanFailed DEF Inv, SameWho
  <2>8. ImageInv'
    BY <1>1, <2>5, ImageKept DEF Inv, SameData, SameLease, Onward
  <2> QED BY <2>4, <2>5, <2>6, <2>7, <2>8 DEF Inv
<1> QED BY <1>2, <1>3

\* The target is closed, then the lease let go.
LEMMA RawCloses ==
  ASSUME Inv, RawCloseTarget \/ RawRelease
  PROVE  Inv'
<1>0. /\ w.mode = "raw" /\ w.pc \in {"undo", "release"}
      /\ {"undo", "release", "returned"} \subseteq RawStages \ RawAfter
      /\ {"undo", "release", "returned"} \cap (Asking \cup Preparatory \cup {"ended"}) = {}
      /\ w.pc # "returned" /\ {"release", "returned"} \subseteq Stages
      /\ w.mode \notin {"qualify", "linux-persistent"}
  BY StagesOf DEF RawCloseTarget, RawRelease, At, RawStages, RawAfter, Asking, Preparatory,
                  ClosedStages
<1>1. \A s \in {"release", "returned"} :
        Phase(w.mode, s) = "closed" /\ ~Finishing(w.mode, s) /\ Carries(s)
  BY <1>0, RawPhases, RawDuties DEF Carries
<1>2. NoWork(w.mode, w.pc) /\ ~Freed(w.mode, "release")
  BY <1>0, RawDuties
<1>3. CASE RawCloseTarget
  <2>1. CloseTarget("release")
    BY <1>3 DEF RawCloseTarget
  <2> QED BY <1>0, <1>1, <1>2, <2>1, CloseStep
<1>4. CASE RawRelease
  <2>1. w.pc = "release" /\ FinishLease("returned")
    BY <1>4 DEF RawRelease, At
  <2> QED BY <1>0, <1>1, <2>1, FinishLeaseStep
<1> QED BY <1>3, <1>4

\* A command ends at a stage where it has nothing left; it succeeds only without error.
LEMMA EndStep ==
  ASSUME Inv, w.pc \notin Asking, w.pc # "ended", Phase(w.mode, w.pc) \in {"unopened", "closed"},
         Left(w.mode, w.pc) = {}, NoWork(w.mode, w.pc), Freed(w.mode, w.pc),
         NEW status \in Statuses, status # "none", NEW announced \in BOOLEAN,
         status = "ok" => ~w.err /\ announced,
         announced => status = "ok" \/ w.mode \in Early,
         w' = [w EXCEPT !.pc = "ended", !.status = status, !.announced = announced],
         UNCHANGED <<disk, src>>
  PROVE  Inv'
<1>1. "ended" \in Stages /\ "ended" \in ClosedStages /\ "ended" \notin Asking \cup Preparatory
  BY StagesOf DEF ClosedStages, Asking, Preparatory
<1>2. /\ Shape' /\ SameWho /\ SameOpen /\ SameDeed /\ SameMounts /\ SameLease /\ SameData
      /\ w'.pc = "ended" /\ w'.status = status /\ w'.announced = announced /\ w'.err = w.err
  BY <1>1, AnnouncesShape, Zenon DEF Inv
<1>3. Place = w.pc /\ Place' = "ended" /\ Now' = "closed"
  BY <1>1, <1>2 DEF Place, Now, Phase, SameWho
<1>4. w.fd = None
  BY <1>3 DEF Inv, TargetInv, PhaseInv, Now
<1>5. TargetInv'
  BY <1>1, <1>2, <1>3, <1>4 DEF Inv, TargetInv, PhaseInv, OpenInv, ChangedInv, ClaimHonest,
                                ErasesReviewed, SameWho, SameOpen, SameDeed
<1>6. w.held = "no" /\ src.lease = "none"
  BY <1>3 DEF Inv, CleanInv
<1>7. ~w.err => w.own = {} /\ w.known = {} /\ ~w.work
  BY <1>3 DEF Inv, CleanInv
<1>8. CleanInv'
  <2>1. EndsClean'
    BY <1>2, <1>4, <1>6, <1>7, Quiet DEF EndsClean, SameMounts, SameOpen, SameWho
  <2>2. ~Finishing(w.mode, "ended")
    BY DEF Finishing
  <2> QED BY <1>2, <1>3, <1>6, <1>7, <2>1, <2>2, Quiet
       DEF Inv, CleanInv, SameMounts, SameWho, SameLease
<1>9. ImageInv'
  BY <1>1, <1>2, ImageKept DEF Inv, SameData, SameLease
<1> QED BY <1>2, <1>5, <1>8, <1>9, Quiet DEF Inv

\* The same, of which nothing is announced.
LEMMA EndQuietly ==
  ASSUME Inv, w.pc \notin Asking, w.pc # "ended", Phase(w.mode, w.pc) \in {"unopened", "closed"},
         Left(w.mode, w.pc) = {}, NoWork(w.mode, w.pc), Freed(w.mode, w.pc),
         NEW status \in Statuses, status \notin {"none", "ok"},
         w.announced => w.mode \in Early, End(status)
  PROVE  Inv'
<1> DEFINE announced == w.announced
<1>1. announced \in BOOLEAN
  BY DEF Inv, Shape, Writers
<1>2. w' = [w EXCEPT !.pc = "ended", !.status = status, !.announced = announced]
  BY ZenonT(60) DEF End, Inv, Shape, Writers
<1>3. UNCHANGED <<disk, src>> /\ (announced => status = "ok" \/ w.mode \in Early)
  BY DEF End
<1>4. status = "ok" => ~w.err /\ announced
  OBVIOUS
<1> HIDE DEF announced
<1> QED BY <1>1, <1>2, <1>3, <1>4, EndStep, Zenon

\* The medium is looked at once more, and the end announced.
LEMMA RawEnds ==
  ASSUME Inv, RawPostCheck \/ RawFlush \/ RawVerify \/ RawFinish \/ RawFailAfter
  PROVE  Inv'
<1>0. /\ w.mode = "raw" /\ w.pc \in {"returned"} \cup RawAfter
      /\ {"returned"} \cup RawAfter \subseteq RawStages
      /\ w.pc \notin Asking \cup {"ended"}
  BY DEF RawPostCheck, RawFlush, RawVerify, RawFinish, RawFailAfter, At, RawStages, RawAfter, Asking
<1>1. /\ \A s \in {"returned"} \cup RawAfter :
           Phase("raw", s) = "closed" /\ NoWork("raw", s) /\ Left("raw", s) = {} /\ Freed("raw", s)
      /\ \A s \in RawAfter : Finishing("raw", s)
  BY <1>0, RawPhases, RawDuties
<1>2. \A s \in RawAfter : s \notin Asking \cup Preparatory /\ s # "ended" /\ s \in Stages
  BY StagesOf DEF RawAfter, Asking, Preparatory, WritingStages
<1>3. Place = w.pc /\ w.status = "none" /\ ~w.announced
  BY <1>0 DEF Inv, CleanInv, Place, Early
<1>4. CASE RawPostCheck
  <2>1. ~w.err /\ w.pc = "returned" /\ Ask(FALSE, "flush") /\ UNCHANGED <<disk, src>>
    BY <1>4 DEF RawPostCheck, At
  <2>2. "flush" \in Answers /\ "flush" \in RawAfter /\ Carries("flush")
    BY <1>0, <1>1 DEF Answers, RawAfter, Carries
  <2> QED BY <1>0, <1>1, <1>2, <1>3, <2>1, <2>2, AskStep
<1>5. CASE RawFlush \/ RawVerify
  <2>1. w.pc \in RawAfter /\ ~w.err
    BY <1>0, <1>1, <1>3, <1>5 DEF RawFlush, RawVerify, At, RawAfter, Inv, CleanInv
  <2>2. \A s \in RawAfter : Onward(s) /\ Carries(s)
    BY <1>0, <1>1, <1>2, <2>1 DEF Onward, Carries, RawAfter
  <2>3. CASE RawVerify
    <3>1. Pass("finish") /\ "finish" \in RawAfter
      BY <2>3 DEF RawVerify, Pass, RawAfter
    <3> QED BY <2>2, <3>1, PassStep
  <2>4. CASE RawFlush
    <3>1. port \in Attachments /\ port.disk \in Disks
      BY <2>4 DEF RawFlush, Inv, DiskTypeOK, Attachments
    <3>2. DiskTypeOK' /\ port' = port /\ src' = src
      BY <2>4, <3>1 DEF RawFlush, Inv, DiskTypeOK
    <3>3. \E s \in RawAfter : Goto(s)
      BY <2>4 DEF RawFlush, RawAfter
    <3> QED BY <2>2, <3>2, <3>3, GotoStep
  <2> QED BY <1>5, <2>3, <2>4
<1>6. CASE RawFinish
  <2>1. w.pc \in RawAfter /\ ~w.err
    BY <1>0, <1>1, <1>3, <1>6 DEF RawFinish, At, RawAfter, Inv, CleanInv
  <2>2. /\ w' = [w EXCEPT !.pc = "ended", !.status = "ok", !.announced = TRUE]
        /\ UNCHANGED <<disk, src>> /\ "ok" \in Statuses
    BY <1>6 DEF RawFinish, Statuses
  <2> QED BY <1>0, <1>1, <2>1, <2>2, EndStep, Zenon
<1>7. CASE RawFailAfter
  <2>1. End("failed") /\ "failed" \in Statuses
    BY <1>7 DEF RawFailAfter, Statuses
  <2> QED BY <1>0, <1>1, <1>3, <2>1, EndQuietly
<1> QED BY <1>4, <1>5, <1>6, <1>7

\* Every step of the raw writer keeps the invariant.
LEMMA RawStep ==
  ASSUME Inv, RawNext
  PROVE  Inv'
BY RawOpens, RawLooks, RawClears, RawWrites, RawFails, RawCloses, RawEnds DEF RawNext

-----------------------------------------------------------------------------
(* The command around the writers *)

\* Before the target is opened nothing is expected, whatever the mode.
LEMMA Unopened ==
  ASSUME NEW m, NEW s \in UnopenedStages
  PROVE  /\ Phase(m, s) = "unopened" /\ NoWork(m, s) /\ Left(m, s) = {} /\ ~Finishing(m, s)
         /\ s \in Stages /\ s \notin Asking \cup {"returned", "ended"}
<1>1. s \notin ClosedStages \cup Asking /\ s \notin {"flush", "verify", "finish"}
      /\ s \notin {"select-inspect", "undo"}
  BY Disjoint DEF UnopenedStages, Preparatory
<1>2. ~Finishing(m, s)
  BY <1>1 DEF Finishing
<1>3. Phase(m, s) = "unopened"
  BY <1>1, <1>2 DEF Phase
<1>4. s \in Stages /\ s \notin {"returned", "ended"}
  BY <1>1, StagesOf DEF ClosedStages
<1> QED BY <1>1, <1>2, <1>3, <1>4 DEF NoWork, Left

\* Nor after it is closed.
LEMMA Closed ==
  ASSUME NEW m, NEW s \in ClosedStages
  PROVE  /\ Phase(m, s) = "closed" /\ NoWork(m, s) /\ Left(m, s) = {} /\ ~Finishing(m, s)
         /\ s \in Stages /\ s \notin Asking \cup Preparatory
<1>1. s \notin Asking \cup Preparatory \cup {"flush", "verify", "finish", "select-inspect", "undo"}
  BY Disjoint DEF ClosedStages, Preparatory
<1>2. Phase(m, s) = "closed" /\ ~Finishing(m, s)
  BY <1>1 DEF Phase, Finishing
<1>3. s \in Stages
  BY StagesOf
<1> QED BY <1>1, <1>2, <1>3 DEF NoWork, Left

\* A step before the target is opened; the mode is chosen once.
LEMMA UnopenedStep ==
  ASSUME Inv, w.pc \in UnopenedStages, w'.pc \in UnopenedStages \ {"start"},
         w'.mode = w.mode \/ w.mode = "none",
         Shape', SameOpen, SameDeed, SameMounts, SameEnd, SrcType', DiskTypeOK',
         Freed(w'.mode, w'.pc) => w'.held = "no",
         src'.lease # "none" => w'.held = "lease" /\ ~w'.private,
         w'.private \/ w'.pc \in Preparatory => w'.image \in Digests
  PROVE  Inv'
<1>1. /\ Place = w.pc /\ Place' = w'.pc /\ Now = "unopened" /\ Now' = "unopened"
      /\ w'.pc \notin Asking \cup {"returned", "ended"}
      /\ w.pc \notin Asking \cup {"returned", "ended"}
  BY Unopened DEF Place, Now
<1>2. w.changed = {} /\ w.fd = None /\ w.claim = "none"
  BY <1>1 DEF Inv, TargetInv, PhaseInv
<1>3. TargetInv'
  BY <1>1, <1>2 DEF TargetInv, PhaseInv, OpenInv, ChangedInv, ClaimHonest, ErasesReviewed,
                    SameOpen, SameDeed
<1>4. w.status = "none" /\ (w.announced => w.mode \in Early)
  BY <1>1 DEF Inv, CleanInv
<1>5. w'.announced => w'.mode \in Early
  BY <1>4 DEF Early, SameEnd
<1>6. EndsClean'
  BY <1>4, <1>5 DEF EndsClean, SameEnd
<1>7. /\ w'.known \subseteq w'.own
      /\ ~w'.err => w'.own = {} /\ w'.known = {} /\ ~w'.work
  BY <1>1, Unopened DEF Inv, CleanInv, SameMounts, SameEnd
<1>8. ~Finishing(w'.mode, w'.pc)
  BY Unopened
<1>9. CleanInv'
  BY <1>1, <1>4, <1>5, <1>6, <1>7, <1>8 DEF CleanInv, SameEnd
<1>10. ImageInv'
  BY DEF ImageInv
<1> QED BY <1>3, <1>9, <1>10 DEF Inv

\* Most of them leave the image and its lease alone.
LEMMA UnopenedKept ==
  ASSUME Inv, w.pc \in UnopenedStages, w'.pc \in UnopenedStages \ Preparatory,
         w'.mode = w.mode \/ w.mode = "none",
         Shape', SameOpen, SameDeed, SameMounts, SameEnd, SameLease, w'.image = w.image,
         src' = src, DiskTypeOK', Freed(w'.mode, w'.pc) => Freed(w.mode, w.pc)
  PROVE  Inv'
<1>1. w.pc \notin Asking
  BY Unopened
<1>2. Freed(w'.mode, w'.pc) => w'.held = "no"
  BY <1>1 DEF Inv, CleanInv, SameLease, Place
<1>3. src'.lease # "none" => w'.held = "lease" /\ ~w'.private
  BY DEF Inv, CleanInv, SameLease
<1>4. w'.private \/ w'.pc \in Preparatory => w'.image \in Digests
  BY DEF Inv, ImageInv, SameLease
<1>5. SrcType' /\ w'.pc # "start"
  BY DEF Inv, SrcType, Preparatory
<1> QED BY <1>2, <1>3, <1>4, <1>5, UnopenedStep

\* The stages of the command.
LEMMA CommandStages ==
  /\ {"start", "source", "discover", "prepare", "probed", "prepare-hash", "prepare-dir",
      "prepare-read", "prepare-rest", "prepare-check", "prepare-bind", "select", "mode",
      "options", "confirm", "revalidate", "unmount", "open"} \subseteq UnopenedStages
  /\ {"source", "discover", "prepare", "probed", "prepare-hash", "prepare-dir",
      "prepare-read", "select", "mode", "options", "confirm", "revalidate", "unmount", "open"}
       \cap Preparatory = {}
  /\ \A m, s : s \in {"start", "source", "discover", "prepare", "probed", "select", "mode",
                      "options", "confirm", "revalidate", "unmount", "open"} => Freed(m, s)
  /\ \A s : s \in {"prepare-hash", "prepare-dir", "prepare-read", "prepare-rest",
                   "prepare-check", "prepare-bind"} => ~Freed("none", s)
<1>1. \A s : s \in {"prepare-hash", "prepare-dir", "prepare-read", "prepare-rest",
                   "prepare-check", "prepare-bind"} => ~Freed("none", s)
  BY DEF Freed, Finishing
<1> QED BY <1>1 DEF UnopenedStages, Preparatory, Freed

\* The command starts, and the image is pinned.
LEMMA CommandStarts ==
  ASSUME Inv, (\E front \in {"cli", "helper"}, noUnmount \in BOOLEAN : Start(front, noUnmount))
              \/ InspectSource
  PROVE  Inv'
<1>0. Shape BY DEF Inv
<1>1. ASSUME NEW front \in {"cli", "helper"}, NEW noUnmount \in BOOLEAN, Start(front, noUnmount)
      PROVE  Inv'
  <2>1. /\ w' = [w EXCEPT !.pc = "source", !.front = front, !.mode = "none",
                         !.noUnmount = noUnmount]
        /\ w.pc = "start" /\ UNCHANGED <<disk, src>> /\ w.mode = "none"
    BY <1>1, Zenon DEF Start, Inv, ImageInv
  <2>2. front \in Fronts /\ "none" \in Kinds /\ "source" \in Stages
    BY CommandStages, Unopened DEF Fronts, Kinds
  <2>3. /\ Shape' /\ SameOpen /\ SameDeed /\ SameMounts /\ SameLease /\ SameEnd /\ SameData
        /\ w'.pc = "source" /\ w'.mode = "none"
    <3>1. Shape'
      BY <1>0, <2>1, <2>2, ZenonT(60) DEF Shape, Writers
    <3> QED BY <1>0, <2>1, <2>2, <3>1 DEF Shape, Writers, SameOpen, SameDeed, SameMounts,
                                         SameLease, SameEnd, SameData
  <2> QED BY <2>1, <2>3, CommandStages, UnopenedKept, Quiet DEF SameData
<1>2. CASE InspectSource
  <2> DEFINE pin == [mtime |-> src.mtime, ctime |-> src.ctime]
  <2>1. /\ w' = [w EXCEPT !.pc = "discover", !.pin = pin] /\ pin \in Pins
        /\ w.mode = "none" /\ w.pc = "source" /\ UNCHANGED <<disk, src>>
    BY <1>2 DEF InspectSource, At, Pins, Inv, SrcType
  <2> HIDE DEF pin
  <2>2. "discover" \in Stages
    BY CommandStages, Unopened
  <2>3. /\ Shape' /\ SameWho /\ SameOpen /\ SameDeed /\ SameMounts /\ SameLease /\ SameEnd
        /\ SameData /\ w'.pc = "discover"
    BY <1>0, <2>1, <2>2, PinsShape, Zenon
  <2> QED BY <2>1, <2>3, CommandStages, UnopenedKept, Quiet DEF SameData, SameWho
<1> QED BY <1>1, <1>2

\* The target is found, as it is now.
LEMMA FindsStep ==
  ASSUME Inv, w.pc = "discover", NEW s \in {"prepare", "mode", "confirm"}, port # None,
         w' = [w EXCEPT !.pc = s, !.identity = port, !.listed = mounts],
         UNCHANGED <<disk, src>>
  PROVE  Inv'
<1>1. Shape /\ s \in Stages /\ port \in Ports /\ mounts \in SUBSET MountRoots
  BY CommandStages, Unopened DEF Inv, DiskTypeOK, Ports
<1>2. /\ Shape' /\ SameOpen /\ SameDeed /\ SameMounts /\ SameLease /\ SameEnd /\ SameData
      /\ w'.pc = s /\ w'.mode = w.mode
  BY <1>1, FindsShape, Zenon
<1> QED BY <1>2, CommandStages, UnopenedKept, Quiet DEF SameData

\* So it is for the command line, and for the helper, which is told the writer.
LEMMA Discovers ==
  ASSUME Inv,
         CliDiscover \/ \E m \in {"linux-persistent", "extracted"} : HelperDiscover(m)
  PROVE  Inv'
<1>1. CASE CliDiscover
  <2>1. /\ w' = [w EXCEPT !.pc = "prepare", !.identity = port, !.listed = mounts]
        /\ w.pc = "discover" /\ port # None /\ UNCHANGED <<disk, src>>
    BY <1>1 DEF CliDiscover, At, ValidateTarget
  <2> QED BY <2>1, FindsStep
<1>2. ASSUME NEW m \in {"linux-persistent", "extracted"}, HelperDiscover(m)
      PROVE  Inv'
  <2>1. /\ w' = [w EXCEPT !.pc = "revalidate", !.mode = m, !.identity = port]
        /\ w.pc = "discover" /\ w.mode = "none" /\ UNCHANGED <<disk, src>>
    BY <1>2 DEF HelperDiscover, At
  <2>2. Shape /\ "revalidate" \in Stages /\ m \in Kinds /\ port \in Ports
    BY CommandStages, Unopened DEF Kinds, Modes, Inv, DiskTypeOK, Ports
  <2>3. /\ Shape' /\ SameOpen /\ SameDeed /\ SameMounts /\ SameLease /\ SameEnd /\ SameData
        /\ w'.pc = "revalidate" /\ w'.mode = m
    BY <2>1, <2>2, HandsShape, Zenon
  <2> QED BY <2>1, <2>3, CommandStages, UnopenedKept, Quiet DEF SameData
<1> QED BY <1>1, <1>2

\* A step that only looks.
LEMMA UnopenedPass ==
  ASSUME Inv, w.pc \in UnopenedStages, NEW s \in UnopenedStages \ Preparatory, Pass(s),
         Freed(w.mode, s) => Freed(w.mode, w.pc)
  PROVE  Inv'
<1>1. /\ Shape' /\ SameWho /\ SameOpen /\ SameDeed /\ SameMounts /\ SameLease /\ SameEnd
      /\ SameData /\ w'.pc = s
  BY Unopened, MovesShape DEF Inv, Pass, Goto
<1> QED BY <1>1, UnopenedKept, Quiet DEF SameData, SameWho, Pass

\* The image is looked at, and held if it has to be expanded.
LEMMA Prepares ==
  ASSUME Inv,
         \/ ProbeInput \/ PreparePlain \/ PrepareHold \/ PrepareDirectory \/ InspectOpenFile
         \/ ValidateOptions \/ ConfirmDestructive
  PROVE  Inv'
<1>1. CASE ProbeInput \/ PreparePlain \/ InspectOpenFile \/ ValidateOptions \/ ConfirmDestructive
  <2>1. /\ w.pc \in {"prepare", "probed", "select", "options", "confirm"}
        /\ \E s \in {"probed", "select", "mode", "confirm", "revalidate"} : Pass(s)
    BY <1>1 DEF ProbeInput, PreparePlain, InspectOpenFile, ValidateOptions, ConfirmDestructive,
                Preparing, At, Pass
  <2> QED BY <2>1, CommandStages, UnopenedPass
<1>2. CASE PrepareDirectory
  <2>1. w.pc = "prepare-dir" /\ w.mode = "none" /\ Pass("prepare-read")
    BY <1>2 DEF PrepareDirectory, Preparing, At
  <2> QED BY <2>1, CommandStages, UnopenedPass
<1>3. CASE PrepareHold
  <2>1. w.pc = "probed" /\ w.mode = "none" /\ AcquireReadLease("prepare-hash")
    BY <1>3 DEF PrepareHold, Preparing, At
  <2>2. {"probed", "prepare-hash"} \subseteq UnopenedStages
        /\ "prepare-hash" \notin Preparatory /\ Freed("none", "probed")
        /\ ~Freed("none", "prepare-hash")
    BY CommandStages
  <2>3. Carries("prepare-hash")
    BY <2>1, <2>2, Unopened DEF Carries
  <2> QED BY <2>1, <2>2, <2>3, Unopened, AcquireStep
<1> QED BY <1>1, <1>2, <1>3

\* It is expanded into a private file, and let go.
LEMMA Expansions ==
  ASSUME Inv,
         \/ \E sequential \in BOOLEAN : PrepareHash(sequential)
         \/ PrepareOpen \/ Expanded \/ PrepareCheck
  PROVE  Inv'
<1>0. Shape BY DEF Inv
<1>1. /\ w.mode = "none"
      /\ w.pc \in {"prepare-hash", "prepare-read", "prepare-rest", "prepare-check"}
      /\ UNCHANGED <<disk, src>>
  BY DEF PrepareHash, PrepareOpen, Expanded, PrepareCheck, Preparing, At
<1>2. /\ w.pc \in UnopenedStages /\ ~Freed("none", w.pc)
      /\ {"prepare-dir", "prepare-rest", "prepare-check", "prepare-bind"}
           \subseteq UnopenedStages \ {"start"}
      /\ {"prepare-dir", "prepare-rest", "prepare-check", "prepare-bind"} \subseteq Stages
      /\ \A s \in {"prepare-dir", "prepare-rest", "prepare-check", "prepare-bind"} :
           ~Freed("none", s)
      /\ "prepare-dir" \notin Preparatory
  BY <1>1, CommandStages, Unopened
<1>3. src.ver \in Digests /\ Mixed(w.image, src.ver) \in Digests
  BY BytesRead, MixedContent
<1>4. src'.lease # "none" => w.held = "lease" /\ ~w.private
  BY <1>1 DEF Inv, CleanInv
<1>5. w.private => w.image \in Digests
  BY DEF Inv, ImageInv
<1>6. CASE \E sequential \in BOOLEAN : PrepareHash(sequential)
  <2>1. \/ Pass("prepare-dir")
        \/ w' = [w EXCEPT !.pc = "prepare-dir", !.digest = src.ver]
    BY <1>1, <1>6 DEF PrepareHash, Pass
  <2>2. CASE Pass("prepare-dir")
    BY <1>1, <1>2, <2>2, UnopenedPass
  <2>3. CASE w' = [w EXCEPT !.pc = "prepare-dir", !.digest = src.ver]
    <3>1. src.ver \in DigestSet
      BY <1>3 DEF DigestSet
    <3>2. /\ Shape' /\ SameWho /\ SameOpen /\ SameDeed /\ SameMounts /\ SameLease /\ SameEnd
          /\ w'.pc = "prepare-dir" /\ w'.image = w.image
      BY <1>0, <1>2, <2>3, <3>1, DigestsShape, Zenon
    <3> QED BY <1>1, <1>2, <3>2, UnopenedKept, Quiet DEF SameWho
  <2> QED BY <2>1, <2>2, <2>3
<1>7. ASSUME NEW s \in {"prepare-rest", "prepare-check"}, NEW image \in Digests,
             w' = [w EXCEPT !.pc = s, !.image = image]
      PROVE  Inv'
  <2>1. image \in DigestSet /\ s \in Stages
    BY <1>2 DEF DigestSet
  <2>2. /\ Shape' /\ SameWho /\ SameOpen /\ SameDeed /\ SameMounts /\ SameLease /\ SameEnd
        /\ w'.pc = s /\ w'.image = image
    BY <1>0, <1>7, <2>1, ExpandsShape, Zenon
  <2>3. ~Freed(w'.mode, w'.pc)
    BY <1>1, <1>2, <2>2 DEF SameWho
  <2> QED BY <1>1, <1>2, <1>4, <1>7, <2>2, <2>3, UnopenedStep, Quiet DEF SameWho, SameLease
<1>8. CASE PrepareOpen
  <2>1. w' = [w EXCEPT !.pc = "prepare-rest", !.image = src.ver]
    BY <1>8 DEF PrepareOpen
  <2> QED BY <1>3, <1>7, <2>1, Zenon
<1>9. CASE Expanded
  <2> DEFINE image == Mixed(w.image, src.ver)
  <2>1. image \in Digests /\ w' = [w EXCEPT !.pc = "prepare-check", !.image = image]
    BY <1>3, <1>9 DEF Expanded
  <2> HIDE DEF image
  <2> QED BY <1>7, <2>1, Zenon
<1>10. CASE PrepareCheck
  <2>1. w' = [w EXCEPT !.pc = "prepare-bind"] /\ w.pc = "prepare-check"
    BY <1>10 DEF PrepareCheck, Goto, Preparing, At
  <2>2. /\ Shape' /\ SameWho /\ SameOpen /\ SameDeed /\ SameMounts /\ SameLease /\ SameEnd
        /\ SameData /\ w'.pc = "prepare-bind"
    BY <1>0, <1>2, <2>1, MovesShape
  <2>3. w.image \in Digests
    BY <2>1 DEF Inv, ImageInv, Preparatory
  <2>4. ~Freed(w'.mode, w'.pc)
    BY <1>1, <1>2, <2>2 DEF SameWho
  <2> QED BY <1>1, <1>2, <1>4, <2>2, <2>3, <2>4, UnopenedStep, Quiet
            DEF SameWho, SameLease, SameData
<1> QED BY <1>6, <1>8, <1>9, <1>10

\* The private file takes the place of the image, whose lease is let go.
LEMMA Binding ==
  ASSUME Inv, PrepareBind
  PROVE  Inv'
<1>1. /\ w.mode = "none" /\ w.pc = "prepare-bind" /\ src' = Released /\ UNCHANGED disk
      /\ w' = [w EXCEPT !.pc = "select", !.private = TRUE, !.held = "no", !.digest = None]
  BY DEF PrepareBind, Preparing, At
<1>2. {"prepare-bind", "select"} \subseteq UnopenedStages /\ "select" \notin Preparatory
      /\ "select" \in Stages /\ "prepare-bind" \in Preparatory
  BY CommandStages, Unopened DEF Preparatory
<1>3. Shape /\ TRUE \in BOOLEAN /\ "no" \in Helds /\ None \in DigestSet
  BY DEF Inv, Helds, DigestSet
<1>4. /\ Shape' /\ SameWho /\ SameOpen /\ SameDeed /\ SameMounts /\ SameEnd
      /\ w'.pc = "select" /\ w'.held = "no" /\ w'.image = w.image
  BY <1>1, <1>2, <1>3, BindsShape, ZenonT(30)
<1>5. SrcType' /\ src'.lease = "none"
  BY <1>1 DEF Released, Inv, SrcType, CleanInv
<1>6. DiskTypeOK' /\ w.image \in Digests
  BY <1>1, <1>2 DEF Inv, DiskTypeOK, disk, ImageInv
<1> QED BY <1>1, <1>2, <1>4, <1>5, <1>6, UnopenedStep DEF SameWho, Preparatory

\* The mode is chosen, the target looked at again, and its mounts taken down.
LEMMA Chooses ==
  ASSUME Inv,
         \/ \E m \in {"raw", "windows"}, verify \in BOOLEAN : SelectWriteMode(m, verify)
         \/ \E m \in {"windows-to-go", "linux-persistent"} : SelectWriteMode(m, FALSE)
         \/ RevalidateSelected \/ UnmountSelected
  PROVE  Inv'
<1>0. Shape BY DEF Inv
<1>1. ASSUME NEW m \in {"raw", "windows", "windows-to-go", "linux-persistent"},
             NEW verify \in BOOLEAN, SelectWriteMode(m, verify)
      PROVE  Inv'
  <2>1. /\ w' = [w EXCEPT !.pc = "options", !.mode = m, !.verify = verify]
        /\ w.pc = "mode" /\ w.mode = "none" /\ UNCHANGED <<disk, src>>
    BY <1>1, Zenon DEF SelectWriteMode, At
  <2>2. m \in Kinds /\ "options" \in Stages
    BY CommandStages, Unopened DEF Kinds, Modes
  <2>3. /\ Shape' /\ SameOpen /\ SameDeed /\ SameMounts /\ SameLease /\ SameEnd
        /\ w'.pc = "options" /\ w'.mode = m /\ w'.image = w.image
    BY <1>0, <2>1, <2>2, ChoosesShape, Zenon
  <2> QED BY <2>1, <2>3, CommandStages, UnopenedKept, Quiet
<1>2. ASSUME NEW s \in {"unmount", "open"}, w.pc \in {"revalidate", "unmount"},
             NEW listed \in SUBSET MountRoots, DiskTypeOK', src' = src,
             w' = [w EXCEPT !.pc = s, !.listed = listed]
      PROVE  Inv'
  <2>1. s \in Stages
    BY CommandStages, Unopened
  <2>2. /\ Shape' /\ SameWho /\ SameOpen /\ SameDeed /\ SameMounts /\ SameLease /\ SameEnd
        /\ SameData /\ w'.pc = s
    BY <1>0, <1>2, <2>1, ListsShape, Zenon
  <2> QED BY <1>2, <2>2, CommandStages, UnopenedKept DEF SameData, SameWho
<1>3. CASE RevalidateSelected
  <2>1. /\ w.pc = "revalidate" /\ w' = [w EXCEPT !.pc = "unmount", !.listed = mounts]
        /\ mounts \in SUBSET MountRoots /\ UNCHANGED <<disk, src>>
    BY <1>3 DEF RevalidateSelected, Inv, DiskTypeOK
  <2> QED BY <1>2, <2>1, Quiet, Zenon
<1>4. CASE UnmountSelected
  <2>1. /\ w.pc = "unmount" /\ w' = [w EXCEPT !.pc = "open", !.listed = {}]
        /\ {} \in SUBSET MountRoots /\ src' = src
    BY <1>4 DEF UnmountSelected
  <2>2. DiskTypeOK'
    BY <1>4 DEF UnmountSelected, UnmountListed, Inv, DiskTypeOK
  <2> QED BY <1>2, <2>1, <2>2, Zenon
<1> QED BY <1>1, <1>3, <1>4

\* The command looks at the target for a writer.
LEMMA AskingOn ==
  ASSUME Inv, w.pc \in {"ask", "ask-strict", "ask-unmount"},
         NEW s \in {"ask-unmount", "ask-mounts"},
         w.pc = "ask-strict" => port = w.identity /\ port # None,
         NEW listed \in SUBSET MountRoots, DiskTypeOK', src' = src, port' = port,
         w' = [w EXCEPT !.pc = s, !.listed = listed]
  PROVE  Inv'
<1>1. /\ w.pc \in Asking /\ s \in Asking /\ s \in Stages
      /\ s \notin Preparatory \cup {"ask", "ended", "returned"}
  BY DEF Asking, Stages, Preparatory
<1>2. Shape BY DEF Inv
<1>3. /\ Shape' /\ SameWho /\ SameOpen /\ SameDeed /\ SameMounts /\ SameLease /\ SameEnd
      /\ SameData /\ w'.pc = s /\ w'.ret = w.ret
  BY <1>1, <1>2, ListsShape, Zenon
<1>4. Place = w.ret /\ Place' = w.ret /\ Now' = Now /\ (Strict <=> Strict')
  BY <1>1, <1>3 DEF Place, Now, Strict, SameWho
<1>5. TargetInv'
  <2>1. Now \in {"checked", "writing"} /\ Strict => w.fd = w.identity
    <3>1. CASE w.pc = "ask-strict"
      BY <3>1 DEF Inv, TargetInv, PhaseInv, OpenInv
    <3>2. CASE w.pc # "ask-strict"
      BY <3>2 DEF Inv, TargetInv, PhaseInv
    <3> QED BY <3>1, <3>2
  <2>2. PhaseInv'
    BY <1>1, <1>3, <1>4, <2>1 DEF Inv, TargetInv, PhaseInv, SameWho, SameOpen, SameDeed
  <2>3. OpenInv' /\ ChangedInv'
    BY <1>3 DEF Inv, TargetInv, OpenInv, ChangedInv, ClaimHonest, ErasesReviewed,
                SameWho, SameOpen, SameDeed
  <2> QED BY <2>2, <2>3 DEF TargetInv
<1>6. CleanInv'
  <2>1. w.status = "none"
    BY DEF Inv, CleanInv
  <2>2. EndsClean'
    BY <1>3, <2>1 DEF Inv, CleanInv, EndsClean, SameEnd, SameWho
  <2> QED BY <1>1, <1>3, <1>4, <2>1, <2>2
       DEF Inv, CleanInv, SameMounts, SameEnd, SameWho, SameLease
<1>7. ImageInv'
  BY <1>1, <1>3, ImageKept DEF Inv, SameData, SameLease
<1> QED BY <1>3, <1>5, <1>6, <1>7 DEF Inv, SrcType

\* Nothing is mounted: the writer goes on where it wanted to.
LEMMA AskingEnds ==
  ASSUME Inv, TargetCheckMounts
  PROVE  Inv'
<1>1. /\ w.pc = "ask-mounts" /\ w' = [w EXCEPT !.pc = w.ret, !.ret = "none"]
      /\ UNCHANGED <<disk, src>> /\ w.pc \in Asking
  BY DEF TargetCheckMounts, Asking
<1>2. w.ret \in Answers
  BY <1>1 DEF Inv, TargetInv, PhaseInv
<1>3. \A s \in Answers : s \notin Asking \cup Preparatory \cup {"ended", "returned"}
  BY DEF Answers, Asking, Preparatory
<1>4. Answers \subseteq Stages
  BY DEF Answers, Stages, UnopenedStages, WritingStages, CheckedStages, ReviewStages
<1>5. Shape /\ "none" \in Returns /\ w.ret \in Stages
  BY <1>2, <1>4 DEF Inv, Returns
<1>6. /\ Shape' /\ SameWho /\ SameOpen /\ SameDeed /\ SameMounts /\ SameLease /\ SameEnd
      /\ SameData /\ w'.pc = w.ret
  <2> DEFINE s == w.ret
  <2>1. w' = [w EXCEPT !.pc = s, !.ret = "none"] /\ s \in Stages
    BY <1>1, <1>5
  <2> HIDE DEF s
  <2>2. /\ Shape' /\ SameWho /\ SameOpen /\ SameDeed /\ SameMounts /\ SameLease /\ SameEnd
        /\ SameData /\ w'.pc = s
    BY <1>5, <2>1, AsksShape, Zenon
  <2> QED BY <2>2 DEF s
<1>7. Place = w.ret /\ Place' = w.ret /\ Now' = Now /\ (Strict <=> Strict')
  BY <1>1, <1>2, <1>3, <1>6 DEF Place, Now, Strict, SameWho
<1>8. TargetInv'
  <2>1. PhaseInv'
    BY <1>1, <1>2, <1>3, <1>6, <1>7
       DEF Inv, TargetInv, PhaseInv, SameWho, SameOpen, SameDeed, Asking
  <2>2. OpenInv' /\ ChangedInv'
    BY <1>1, <1>6, Quiet DEF Inv, TargetInv, OpenInv, ChangedInv, ClaimHonest, ErasesReviewed,
                SameWho, SameOpen, SameDeed
  <2> QED BY <2>1, <2>2 DEF TargetInv
<1>9. CleanInv'
  <2>1. w.status = "none" /\ (w.announced => w.mode \in Early)
    BY <1>1 DEF Inv, CleanInv
  <2>2. EndsClean'
    BY <1>6, <2>1 DEF EndsClean, SameEnd, SameWho
  <2> QED BY <1>1, <1>2, <1>3, <1>6, <1>7, <2>1, <2>2, Quiet
       DEF Inv, CleanInv, SameMounts, SameEnd, SameWho, SameLease
<1>10. ImageInv'
  BY <1>2, <1>3, <1>6, ImageKept DEF Inv, SameData, SameLease
<1> QED BY <1>1, <1>6, <1>8, <1>9, <1>10, Quiet DEF Inv

\* Or the look is refused, and the writer fails.
LEMMA AskingFails ==
  ASSUME Inv, TargetCheckFails
  PROVE  Inv'
<1>1. /\ w.pc \in Asking /\ UNCHANGED <<disk, src>>
      /\ w' = [w EXCEPT !.pc = "undo", !.ret = "none", !.listed = {}, !.err = TRUE]
  BY DEF TargetCheckFails, Asking
<1>2. /\ "undo" \in ClosingStages /\ "undo" \in Stages
      /\ "undo" \notin Asking \cup Preparatory \cup ClosedStages \cup UnopenedStages
      /\ "undo" \notin {"returned", "ended"}
  BY StagesOf, Disjoint DEF ClosingStages, Preparatory, UnopenedStages
<1>3. Shape /\ "none" \in Returns /\ {} \in SUBSET MountRoots /\ TRUE \in BOOLEAN
  BY DEF Inv, Returns
<1>4. /\ Shape' /\ SameWho /\ SameOpen /\ SameDeed /\ SameMounts /\ SameLease /\ SameData
      /\ w'.pc = "undo" /\ w'.err = TRUE /\ w'.announced = w.announced /\ w'.status = w.status
  BY <1>1, <1>2, <1>3, RefusedShape, ZenonT(30)
<1>5. Place = w.ret /\ Place' = "undo" /\ w.ret \in Answers
  BY <1>1, <1>2, <1>4 DEF Place, Inv, TargetInv, PhaseInv
<1>6. ~Finishing(w.mode, "undo") /\ (Freed(w.mode, "undo") => Freed(w.mode, w.ret))
  BY DEF Finishing, Freed
<1>7. IF w.mode \in {"none", "extracted"} THEN Now = "unopened" /\ Now' = "unopened"
      ELSE Now' = "closing"
  <2>1. \A s \in Answers : s \notin ClosedStages
    BY DEF Answers, ClosedStages
  <2> QED BY <1>2, <1>4, <1>5, <1>6, <2>1 DEF Now, Phase, SameWho, Finishing
<1>8. TargetInv'
  <2>1. PhaseInv'
    BY <1>2, <1>4, <1>5, <1>7 DEF Inv, TargetInv, PhaseInv, SameWho, SameOpen, SameDeed
  <2>2. OpenInv' /\ ChangedInv'
    BY <1>1, <1>4, Quiet DEF Inv, TargetInv, OpenInv, ChangedInv, ClaimHonest, ErasesReviewed,
                SameWho, SameOpen, SameDeed
  <2> QED BY <2>1, <2>2 DEF TargetInv
<1>9. CleanInv'
  <2>0. w.pc \notin {"returned", "ended"}
    BY <1>1 DEF Asking
  <2>1. w.status = "none" /\ (w.announced => w.mode \in Early)
    BY <2>0 DEF Inv, CleanInv
  <2>2. EndsClean'
    BY <1>4, <2>1 DEF EndsClean, SameWho
  <2> QED BY <1>1, <1>2, <1>4, <1>5, <1>6, <2>1, <2>2, Quiet
       DEF Inv, CleanInv, SameMounts, SameWho, SameLease
<1>10. ImageInv'
  BY <1>2, <1>4, ImageKept DEF Inv, SameData, SameLease
<1> QED BY <1>1, <1>4, <1>8, <1>9, <1>10, Quiet DEF Inv

\* The look at the target, and its mounts taken down.
LEMMA AskingSteps ==
  ASSUME Inv, TargetCheck \/ TargetCheckUnmount
  PROVE  Inv'
<1>1. CASE TargetCheck
  <2>1. /\ w.pc \in {"ask", "ask-strict"}
        /\ (w.pc = "ask-strict" => port = w.identity /\ port # None)
        /\ w' = [w EXCEPT !.pc = "ask-unmount", !.listed = mounts]
        /\ mounts \in SUBSET MountRoots /\ UNCHANGED <<disk, src>> /\ port # None
    BY <1>1 DEF TargetCheck, SameIdentity, ValidateTarget, Inv, DiskTypeOK
  <2> QED BY <2>1, Quiet, AskingOn, Zenon
<1>2. CASE TargetCheckUnmount
  <2>1. /\ w.pc = "ask-unmount" /\ w' = [w EXCEPT !.pc = "ask-mounts", !.listed = {}]
        /\ {} \in SUBSET MountRoots /\ src' = src /\ port' = port
    BY <1>2 DEF TargetCheckUnmount
  <2>2. DiskTypeOK'
    BY <1>2 DEF TargetCheckUnmount, UnmountListed, Inv, DiskTypeOK
  <2> QED BY <2>1, <2>2, AskingOn, Zenon
<1> QED BY <1>1, <1>2

\* The command refuses before a writer runs.
LEMMA Refuses ==
  ASSUME Inv, Refuse
  PROVE  Inv'
<1> DEFINE claim == IF w.pc \in {"prepare-check", "prepare-bind"} THEN "untouched" ELSE w.claim
<1>1. /\ w.pc \in {"source", "discover", "prepare", "probed", "prepare-hash", "prepare-dir",
                   "prepare-read", "prepare-rest", "prepare-check", "prepare-bind", "select",
                   "mode", "options", "confirm", "revalidate", "unmount"}
      /\ w' = [w EXCEPT !.pc = "ended", !.status = "refused", !.held = "no", !.claim = claim]
      /\ src' = Released /\ UNCHANGED disk
  BY DEF Refuse
<1>2. claim \in Claims /\ "refused" \in Statuses /\ "no" \in Helds /\ Shape
  BY DEF Inv, Shape, Writers, Claims, Statuses, Helds
<1> HIDE DEF claim
<1>3. w.pc \in UnopenedStages /\ "ended" \in ClosedStages /\ "ended" \in Stages
      /\ "ended" \notin Asking \cup Preparatory /\ w.pc \notin Asking \cup {"ended", "returned"}
  BY <1>1, CommandStages, Unopened, Closed DEF ClosedStages
<1>4. /\ Shape' /\ SameWho /\ SameOpen /\ SameMounts /\ SameData
      /\ w'.pc = "ended" /\ w'.status = "refused" /\ w'.held = "no" /\ w'.claim = claim
      /\ w'.changed = w.changed /\ w'.touched = w.touched /\ w'.private = w.private
      /\ w'.err = w.err /\ w'.announced = w.announced
  <2>1. w' = [w EXCEPT !.pc = "ended", !.status = "refused", !.held = "no", !.claim = claim]
    BY <1>1
  <2>2. "ended" \in Stages
    BY <1>3
  <2>3. Shape'
    BY <1>2, <2>1, <2>2, ZenonT(60) DEF Shape, Writers
  <2> QED BY <1>2, <2>1, <2>2, <2>3 DEF Shape, Writers, SameWho, SameOpen, SameMounts, SameData
<1>5. Place = w.pc /\ Place' = "ended" /\ Now = "unopened" /\ Now' = "closed"
  BY <1>3, <1>4, Unopened, Closed DEF Place, Now
<1>6. w.fd = None /\ w.changed = {}
  BY <1>5 DEF Inv, TargetInv, PhaseInv
<1>7. SrcType' /\ src'.lease = "none"
  BY <1>1 DEF Released, Inv, SrcType, CleanInv
<1>8. DiskTypeOK'
  BY <1>1 DEF Inv, DiskTypeOK, disk
<1>9. TargetInv'
  BY <1>3, <1>4, <1>5, <1>6 DEF TargetInv, PhaseInv, OpenInv, ChangedInv, ClaimHonest,
                                ErasesReviewed, SameOpen
<1>10. CleanInv'
  <2>1. w.announced => w.mode \in Early
    BY <1>3 DEF Inv, CleanInv
  <2>2. EndsClean'
    BY <1>4, <2>1 DEF EndsClean, SameWho
  <2>3. /\ w'.known \subseteq w'.own
        /\ ~w'.err => w'.own = {} /\ w'.known = {} /\ ~w'.work
    BY <1>3, <1>4, <1>5, Unopened DEF Inv, CleanInv, SameMounts
  <2>4. ~Finishing(w.mode, "ended")
    BY <1>3, Closed
  <2> QED BY <1>4, <1>5, <1>7, <2>1, <2>2, <2>3, <2>4 DEF CleanInv, SameWho
<1>11. ImageInv'
  BY <1>3, <1>4, ImageKept DEF Inv, SameData
<1> QED BY <1>4, <1>7, <1>8, <1>9, <1>10, <1>11 DEF Inv

\* A plan, a failure or a success ends the command.
LEMMA Ends ==
  ASSUME Inv, DryRun \/ Return
  PROVE  Inv'
<1>1. CASE DryRun
  <2>1. w.pc = "confirm" /\ End("planned") /\ "planned" \in Statuses
    BY <1>1 DEF DryRun, Statuses
  <2>2. w.announced => w.mode \in Early
    BY <2>1 DEF Inv, CleanInv
  <2>3. "confirm" \in UnopenedStages /\ Freed(w.mode, "confirm")
    BY CommandStages
  <2> QED BY <2>1, <2>2, <2>3, Unopened, EndQuietly
<1>2. CASE Return
  <2>1. "returned" \in ClosedStages /\ Freed(w.mode, "returned")
    BY DEF ClosedStages, Freed
  <2>2. w.pc = "returned"
    BY <1>2 DEF Return
  <2>3. CASE w.err /\ End("failed")
    <3>1. "failed" \in Statuses /\ (w.announced => w.mode \in Early)
      BY <2>3 DEF Statuses, Inv, CleanInv, EndsClean
    <3> QED BY <2>1, <2>2, <2>3, <3>1, Closed, EndQuietly
  <2>4. CASE ~w.err /\ w.mode # "raw"
    <3>1. /\ w' = [w EXCEPT !.pc = "ended", !.status = "ok", !.announced = TRUE]
          /\ UNCHANGED <<disk, src>> /\ "ok" \in Statuses
      BY <1>2, <2>4 DEF Return, Statuses
    <3> QED BY <2>1, <2>2, <2>4, <3>1, Closed, EndStep, Zenon
  <2> QED BY <1>2, <2>3, <2>4 DEF Return
<1> QED BY <1>1, <1>2

\* Every step of the command keeps the invariant.
LEMMA CommandStep ==
  ASSUME Inv, CommandNext
  PROVE  Inv'
<1>1. CASE \/ \E front \in {"cli", "helper"}, noUnmount \in BOOLEAN : Start(front, noUnmount)
           \/ InspectSource \/ CliDiscover
           \/ \E m \in {"linux-persistent", "extracted"} : HelperDiscover(m)
  BY <1>1, CommandStarts, Discovers
<1>2. CASE \/ ProbeInput \/ PreparePlain \/ PrepareHold \/ PrepareDirectory \/ InspectOpenFile
           \/ ValidateOptions \/ ConfirmDestructive
  BY <1>2, Prepares
<1>3. CASE \/ \E sequential \in BOOLEAN : PrepareHash(sequential)
           \/ PrepareOpen \/ PrepareCheck
           \/ PrepareStream \/ PrepareZIP \/ PrepareExternalDecompress \/ PrepareVirtualDisk
  BY <1>3, Expansions DEF PrepareStream, PrepareZIP, PrepareExternalDecompress, PrepareVirtualDisk
<1>4. CASE \/ \E m \in {"raw", "windows"}, verify \in BOOLEAN : SelectWriteMode(m, verify)
           \/ \E m \in {"windows-to-go", "linux-persistent"} : SelectWriteMode(m, FALSE)
           \/ RevalidateSelected \/ UnmountSelected
  BY <1>4, Chooses
<1>5. CASE \/ PrepareBind \/ DryRun \/ TargetCheck \/ TargetCheckUnmount \/ TargetCheckMounts
           \/ TargetCheckFails \/ Refuse \/ Return
  BY <1>5, Binding, Ends, AskingSteps, AskingEnds, AskingFails, Refuses
<1> QED BY <1>1, <1>2, <1>3, <1>4, <1>5 DEF CommandNext

-----------------------------------------------------------------------------
(* The others *)

\* Whoever edits the image, pulls, swaps or mounts the disk.
LEMMA OthersStep ==
  ASSUME Inv, Others
  PROVE  Inv'
<1>1. w' = w
  BY Zenon DEF Others, EditSource, OpenForWriting, AttachDisk, UnplugDisk, MountDisk, RescanDisk, session
<1>2. SrcType' /\ (src'.lease # "none" => src.lease # "none")
  <2>1. CASE \E v \in Versions, trace \in {"mtime", "ctime"} : EditSource(v, trace)
    <3>1. PICK v \in Versions, trace \in {"mtime", "ctime"} : EditSource(v, trace)
      BY <2>1
    <3>2. src.ctime + 1 \in 0..MaxEdits /\ src.others + 1 \in 0..MaxOthers
      BY <3>1, BoundAssumption DEF Inv, SrcType, EditSource, Acting
    <3>3. (IF trace = "mtime" THEN src.ctime + 1 ELSE src.mtime) \in 0..MaxEdits
      BY <3>2 DEF Inv, SrcType
    <3>4. (IF trace = "mtime" THEN {v} ELSE src.past \cup {v}) \in SUBSET Versions
      BY DEF Inv, SrcType
    <3> QED BY <3>1, <3>2, <3>3, <3>4 DEF Inv, SrcType, EditSource, Counted
  <2>2. CASE OpenForWriting
    <3>1. Acting => src.others + 1 \in 0..MaxOthers
      BY BoundAssumption DEF Inv, SrcType, Acting
    <3> QED BY <2>2, <3>1 DEF Inv, SrcType, OpenForWriting, Counted
  <2>3. CASE ~OpenForWriting /\ src' = Counted /\ Acting
    BY <2>3, BoundAssumption DEF Inv, SrcType, Counted, Acting
  <2> QED BY <2>1, <2>2, <2>3 DEF Others, AttachDisk, UnplugDisk, MountDisk, RescanDisk
<1>3. DiskTypeOK'
  <2>1. CASE UNCHANGED disk
    BY <2>1 DEF Inv, DiskTypeOK, disk
  <2>2. ASSUME NEW d \in Disks, AttachDisk(d)
        PROVE  DiskTypeOK'
    <3>1. attached + 1 \in 1..MaxAttach
      BY <2>2, AttachAssumption DEF AttachDisk, Attach, Inv, DiskTypeOK
    <3>2. port' \in Attachments
      BY <2>2, <3>1 DEF AttachDisk, Attach, Attachments
    <3>3. cache' \in [Disks -> [table : Contents, fs : Contents]] /\ parts' \in BOOLEAN
      BY <2>2 DEF AttachDisk, Attach, Inv, DiskTypeOK
    <3> QED BY <2>2, <3>1, <3>2, <3>3 DEF AttachDisk, Attach, Inv, DiskTypeOK
  <2>3. CASE UnplugDisk
    <3>1. port.disk \in Disks
      BY <2>3 DEF UnplugDisk, Unplug, Inv, DiskTypeOK, Attachments
    <3>2. media' \in [Disks -> [table : Contents, fs : Contents]]
      BY <2>3, <3>1 DEF UnplugDisk, Unplug, Inv, DiskTypeOK
    <3> QED BY <2>3, <3>2 DEF UnplugDisk, Unplug, Inv, DiskTypeOK
  <2>4. ASSUME NEW root \in MountRoots, MountDisk(root)
        PROVE  DiskTypeOK'
    BY <2>4 DEF MountDisk, Mount, Inv, DiskTypeOK
  <2>5. CASE RescanDisk
    BY <2>5 DEF RescanDisk, Rescan, Inv, DiskTypeOK
  <2> QED BY <2>1, <2>2, <2>3, <2>4, <2>5, Zenon DEF Others, EditSource, OpenForWriting
<1>4. w.fd # None => port' \in {None, port}
  BY Zenon DEF Others, EditSource, OpenForWriting, AttachDisk, Attach, UnplugDisk, Unplug, MountDisk,
         Mount, RescanDisk, Rescan, disk
<1>5. TargetInv'
  <2>1. PhaseInv'
    BY <1>1 DEF Inv, TargetInv, PhaseInv, Now, Place, Strict
  <2>2. OpenInv'
    BY <1>1, <1>4 DEF Inv, TargetInv, OpenInv
  <2>3. ChangedInv'
    BY <1>1 DEF Inv, TargetInv, ChangedInv, ClaimHonest, ErasesReviewed
  <2> QED BY <2>1, <2>2, <2>3 DEF TargetInv
<1>6. src.lease = "none" => src'.lease = "none"
  BY <1>2
<1>7. CleanInv'
  BY <1>1, <1>6 DEF Inv, CleanInv, EndsClean, Place
<1> QED BY <1>1, <1>2, <1>3, <1>5, <1>7 DEF Inv, Shape, ImageInv

-----------------------------------------------------------------------------
(* The tools that read no image *)

\* The tools, and their stages by phase.
Tools == {"freedos", "qualify"}
\* The target is open.
ToolReview == {"lock", "prepared", "before"}
\* It has been looked at for the last time.
ToolChecked == {"begin", "ready"}
\* It is written and read back.
ToolWriting == {"write", "write-rest", "flush", "readback", "finish", "finished", "sync",
                "verify", "final"}
\* Every one.
ToolStages == {"open"} \cup ToolReview \cup ToolChecked \cup ToolWriting
                \cup {"undo", "report", "returned"}

\* Their stages by phase; they hold no image, mount nothing and have no workspace.
LEMMA ToolDuties ==
  ASSUME NEW m \in Tools, NEW s \in ToolStages
  PROVE  /\ m \in Modes /\ m # "raw" /\ m \notin Early
         /\ NoWork(m, s) /\ Left(m, s) = {} /\ ~Finishing(m, s) /\ Freed(m, s)
         /\ s \in Stages /\ s \notin Asking \cup Preparatory \cup {"ended"}
         /\ s \in ToolReview => Phase(m, s) = "reviewing"
         /\ s \in ToolChecked => Phase(m, s) = "checked"
         /\ s \in ToolWriting => Phase(m, s) = "writing"
         /\ s = "open" => Phase(m, s) = "unopened"
         /\ s = "undo" => Phase(m, s) = "closing"
         /\ s \in {"report", "returned"} => Phase(m, s) = "closed"
<1>1. m \in Modes /\ m # "raw" /\ m \notin Early
  BY DEF Tools, Modes, Early
<1>2. NoWork(m, s) /\ ~Finishing(m, s) /\ Freed(m, s)
  BY <1>1 DEF NoWork, Finishing, Freed, Tools, Builders
<1>3. /\ "open" \in UnopenedStages /\ ToolReview \subseteq ReviewStages
      /\ ToolChecked \subseteq CheckedStages /\ ToolWriting \subseteq WritingStages
      /\ "undo" \in ClosingStages /\ {"report", "returned"} \subseteq ClosedStages
  BY DEF UnopenedStages, ReviewStages, CheckedStages, WritingStages, ClosingStages, ClosedStages,
         ToolReview, ToolChecked, ToolWriting
<1>4. s \in Stages
  BY <1>3, StagesOf DEF ToolStages
<1>5. s \notin Asking \cup Preparatory \cup {"ended"}
  BY DEF ToolStages, ToolReview, ToolChecked, ToolWriting, Asking, Preparatory
<1>6. s \notin {"clean-iso", "clean-os", "clean-usb", "persist-root", "persist-umount",
                "undo-persist"}
  BY DEF ToolStages, ToolReview, ToolChecked, ToolWriting
<1>7. Left(m, s) = {}
  BY <1>6 DEF Left, Own, Tools, Chosen, Builders
<1> QED BY <1>1, <1>2, <1>3, <1>4, <1>5, <1>7, Phases

\* They may go on at their present phase, or fail.
LEMMA ToolOnward ==
  ASSUME w.mode \in Tools, w.pc \in ToolStages \ {"returned"}, NEW s \in ToolStages,
         Phase(w.mode, s) \in {Phase(w.mode, w.pc), "closing"}
  PROVE  Onward(s) /\ Carries(s) /\ ~Finishing(w.mode, s)
BY ToolDuties DEF Onward, Carries

\* The target is opened.
LEMMA ToolOpens ==
  ASSUME Inv, w.mode \in Tools, w.pc = "open", NEW s \in ToolReview, OpenTarget(s)
  PROVE  Inv'
<1>1. {"open", s} \subseteq ToolStages /\ w.pc \notin {"returned", "ended"}
  BY DEF ToolStages
<1>2. Carries(s)
  BY <1>1, ToolDuties DEF Carries
<1> QED BY <1>1, <1>2, ToolDuties, OpenStep

\* The command looks at it.
LEMMA ToolAsks ==
  ASSUME Inv, w.mode \in Tools, NEW s \in {"prepared", "begin", "finished", "ready"},
         \/ w.pc \in ToolReview /\ s \in ToolReview \cup ToolChecked
         \/ w.pc \in ToolWriting /\ s \in ToolWriting,
         Ask(FALSE, s), UNCHANGED <<disk, src>>
  PROVE  Inv'
<1>1. {w.pc, s} \subseteq ToolStages /\ s \in Answers
  BY DEF ToolStages, Answers
<1>2. /\ Phase(w.mode, s) = Phase(w.mode, w.pc)
         \/ (Phase(w.mode, w.pc) = "reviewing" /\ Phase(w.mode, s) = "checked")
      /\ Carries(s)
  BY <1>1, ToolDuties DEF Carries
<1>3. w.pc # "returned"
  BY DEF ToolReview, ToolWriting
<1>4. ~w.announced
  BY <1>1, <1>3, ToolDuties DEF Inv, CleanInv
<1> QED BY <1>1, <1>2, <1>4, ToolDuties, AskStep

\* It is written, flushed and read; a change may fail half-way.
LEMMA ToolWrites ==
  ASSUME Inv, w.mode \in Tools, w.pc \in ToolWriting, NEW s \in ToolWriting \cup {"undo"},
         (\E c \in Cells : Change(s, c)) \/ Flush(s) \/ Pass(s)
  PROVE  Inv'
<1>1. /\ {w.pc, s} \subseteq ToolStages /\ w.pc # "returned"
  BY DEF ToolStages, ToolWriting
<1>2. Phase(w.mode, w.pc) = "writing" /\ Phase(w.mode, s) \in {"writing", "closing"}
  BY <1>1, ToolDuties
<1>3. Onward(s) /\ Carries(s)
  BY <1>1, <1>2, ToolOnward
<1> QED BY <1>2, <1>3, ChangeStep, FlushStep, PassStep

\* Something fails.
LEMMA ToolFails ==
  ASSUME Inv, w.mode \in Tools, w.pc \in ToolStages \ {"report", "returned"},
         \/ w' = [w EXCEPT !.pc = "undo", !.err = TRUE] /\ UNCHANGED <<disk, src>>
         \/ w.pc \in ToolWriting /\ FailTornTo(w.mode, {w.pc}, "undo")
  PROVE  Inv'
<1>1. "undo" \in ToolStages
  BY DEF ToolStages
<1>2. Onward("undo") /\ ~Finishing(w.mode, "undo")
  BY <1>1, ToolDuties, ToolOnward
<1> QED BY <1>2, ToolDuties, ErrStep, TornStep, Zenon

\* The target is closed.
LEMMA ToolCloses ==
  ASSUME Inv, w.mode \in Tools, w.pc = "undo", CloseTarget("report")
  PROVE  Inv'
<1>1. {"undo", "report"} \subseteq ToolStages
  BY DEF ToolStages
<1>2. Carries("report")
  BY <1>1, ToolDuties DEF Carries
<1> QED BY <1>1, <1>2, ToolDuties, CloseStep

-----------------------------------------------------------------------------
(* FreeDOS *)

\* The disk is found and the plan made.
LEMMA FreeStarts ==
  ASSUME Inv, (\E noUnmount \in BOOLEAN : FreeStart(noUnmount)) \/ FreeDiscover \/ BuildDevicePlan
  PROVE  Inv'
<1>0. Shape BY DEF Inv
<1>1. ASSUME NEW noUnmount \in BOOLEAN, FreeStart(noUnmount)
      PROVE  Inv'
  <2>1. /\ w' = [w EXCEPT !.pc = "discover", !.front = "tool", !.mode = "freedos",
                         !.noUnmount = noUnmount, !.verify = TRUE]
        /\ w.pc = "start" /\ UNCHANGED <<disk, src>> /\ w.mode = "none"
    BY <1>1, Zenon DEF FreeStart, Inv, ImageInv
  <2>2. "tool" \in Fronts /\ "freedos" \in Kinds /\ "discover" \in Stages
    BY CommandStages, Unopened DEF Fronts, Kinds, Modes
  <2>3. /\ Shape' /\ SameOpen /\ SameDeed /\ SameMounts /\ SameLease /\ SameEnd
        /\ w'.pc = "discover" /\ w'.mode = "freedos" /\ w'.image = w.image
    <3>1. Shape /\ "tool" \in Fronts /\ "freedos" \in Kinds /\ "discover" \in Stages
          /\ noUnmount \in BOOLEAN
      BY <1>0, <2>2
    <3>2. w' = [w EXCEPT !.pc = "discover", !.front = "tool", !.mode = "freedos",
                         !.noUnmount = noUnmount, !.verify = TRUE]
      BY <2>1
    <3>3. Shape'
      BY <3>1, <3>2, ZenonT(60) DEF Shape, Writers
    <3> QED BY <3>1, <3>2, <3>3 DEF Shape, Writers, SameOpen, SameDeed, SameMounts,
                                          SameLease, SameEnd
  <2> QED BY <2>1, <2>3, CommandStages, UnopenedKept, Quiet
<1>2. CASE FreeDiscover
  <2>1. /\ w' = [w EXCEPT !.pc = "mode", !.identity = port, !.listed = mounts]
        /\ w.pc = "discover" /\ port # None /\ UNCHANGED <<disk, src>>
    BY <1>2 DEF FreeDiscover, Free, At, ValidateTarget
  <2> QED BY <2>1, FindsStep
<1>3. CASE BuildDevicePlan
  <2>1. /\ w' = [w EXCEPT !.pc = "confirm", !.digest = "plan"]
        /\ w.pc = "mode" /\ UNCHANGED <<disk, src>>
    BY <1>3 DEF BuildDevicePlan, Free, At
  <2>2. "plan" \in DigestSet /\ "confirm" \in Stages
    BY CommandStages, Unopened DEF DigestSet, Digests
  <2>3. /\ Shape' /\ SameWho /\ SameOpen /\ SameDeed /\ SameMounts /\ SameLease /\ SameEnd
        /\ w'.pc = "confirm" /\ w'.image = w.image
    BY <1>0, <2>1, <2>2, DigestsShape, Zenon
  <2> QED BY <2>1, <2>3, CommandStages, UnopenedKept, Quiet DEF SameWho
<1> QED BY <1>1, <1>2, <1>3

\* It counts as changed before the first byte is written.
LEMMA FreeBegins ==
  ASSUME Inv, FreeBegin
  PROVE  Inv'
<1>1. /\ w.mode = "freedos" /\ w.pc = "begin" /\ UNCHANGED <<disk, src>>
      /\ w' = [w EXCEPT !.pc = "write", !.touched = TRUE]
  BY DEF FreeBegin, Free, At
<1>2. {"begin", "write"} \subseteq ToolStages /\ w.mode \in Tools
      /\ "begin" \in ToolChecked /\ "write" \in ToolWriting
  BY <1>1 DEF ToolStages, ToolChecked, ToolWriting, Tools
<1>3. Carries("write")
  BY <1>1, <1>2, ToolDuties DEF Carries
<1> QED BY <1>1, <1>2, <1>3, ToolDuties, TouchStep, Zenon

\* It is looked at, written and read back.
LEMMA FreeWorks ==
  ASSUME Inv,
         \/ FreeOpenTarget \/ FreePrepare \/ FreeBeforeDestructive \/ WriteHead
         \/ WriteMediaExtents \/ FreeFlush \/ VerifyMediaExtents \/ FreeFinish \/ FreeSync
         \/ FreeClose
  PROVE  Inv'
<1>1. CASE FreeOpenTarget \/ FreeClose
  <2>1. /\ w.mode \in Tools
        /\ \/ w.pc = "open" /\ "lock" \in ToolReview /\ OpenTarget("lock")
           \/ w.pc = "undo" /\ CloseTarget("report")
    BY <1>1 DEF FreeOpenTarget, FreeClose, Free, At, Tools, ToolReview
  <2> QED BY <2>1, ToolOpens, ToolCloses
<1>2. CASE FreePrepare \/ FreeBeforeDestructive \/ FreeFinish
  <2>1. /\ w.mode \in Tools /\ UNCHANGED <<disk, src>>
        /\ \E s \in {"prepared", "begin", "finished"} :
             /\ Ask(FALSE, s)
             /\ \/ w.pc \in ToolReview /\ s \in ToolReview \cup ToolChecked
                \/ w.pc \in ToolWriting /\ s \in ToolWriting
    BY <1>2 DEF FreePrepare, FreeBeforeDestructive, FreeFinish, Free, At, Tools, ToolReview,
                ToolChecked, ToolWriting
  <2> QED BY <2>1, ToolAsks
<1>3. CASE WriteHead
  <2> DEFINE c == [table |-> "plan", fs |-> "none"]
  <2>1. /\ w.mode \in Tools /\ {w.pc, "write-rest"} \subseteq ToolWriting /\ c \in Cells
        /\ Change("write-rest", c)
    BY <1>3, Literals DEF WriteHead, Free, At, Tools, ToolWriting, Cells
  <2> HIDE DEF c
  <2> QED BY <2>1, ToolWrites
<1>4. CASE WriteMediaExtents
  <2> DEFINE c == [Held EXCEPT !.fs = "plan"]
  <2>1. /\ w.mode \in Tools /\ {w.pc, "flush"} \subseteq ToolWriting /\ w.pc \in ToolStages
        /\ Change("flush", c)
    BY <1>4 DEF WriteMediaExtents, Free, At, Tools, ToolWriting, ToolStages
  <2>2. Held \in Cells
    BY <2>1, ToolDuties, OpenWhileWriting
  <2>3. c \in Cells
    BY <2>2, Literals DEF Cells
  <2> HIDE DEF c
  <2> QED BY <2>1, <2>3, ToolWrites
<1>5. CASE FreeFlush \/ VerifyMediaExtents \/ FreeSync
  <2>1. /\ w.mode \in Tools /\ w.pc \in ToolWriting
        /\ \E s \in ToolWriting \cup {"undo"} : Flush(s) \/ Pass(s)
    BY <1>5 DEF FreeFlush, VerifyMediaExtents, FreeSync, Free, At, Tools, ToolWriting
  <2> QED BY <2>1, ToolWrites
<1> QED BY <1>1, <1>2, <1>3, <1>4, <1>5

\* Something fails, and the report says what of the disk.
LEMMA FreeEnds ==
  ASSUME Inv, FreeFail \/ FreeFailTorn \/ FinishExecutionReport
  PROVE  Inv'
<1>1. CASE FreeFail
  <2>1. /\ w.mode \in Tools /\ w.pc \in ToolStages \ {"report", "returned"}
        /\ w' = [w EXCEPT !.pc = "undo", !.err = TRUE] /\ UNCHANGED <<disk, src>>
    BY <1>1 DEF FreeFail, Fail, FailTo, Tools, ToolStages, ToolReview, ToolChecked, ToolWriting
  <2> QED BY <2>1, ToolFails
<1>2. CASE FreeFailTorn
  <2>1. /\ w.mode \in Tools /\ w.pc \in ToolStages \ {"report", "returned"}
        /\ w.pc \in ToolWriting
    BY <1>2 DEF FreeFailTorn, FailTorn, FailTornTo, Tools, ToolStages, ToolWriting
  <2>2. FailTornTo(w.mode, {w.pc}, "undo")
    BY <1>2, ZenonT(60) DEF FreeFailTorn, FailTorn, FailTornTo
  <2> QED BY <2>1, <2>2, ToolFails
<1>3. CASE FinishExecutionReport
  <2> DEFINE claim == IF ~w.err THEN w.claim ELSE IF w.touched THEN "incomplete" ELSE "untouched"
  <2>1. /\ w.mode = "freedos" /\ w.pc = "report" /\ UNCHANGED <<disk, src>>
        /\ w' = [w EXCEPT !.pc = "returned", !.claim = claim] /\ claim \in Claims
    BY <1>3 DEF FinishExecutionReport, Free, At, Inv, Shape, Writers, Claims
  <2>2. claim = "untouched" => w.changed = {}
    BY <2>1 DEF Inv, TargetInv, ChangedInv, ClaimHonest
  <2> HIDE DEF claim
  <2>3. {"report", "returned"} \subseteq ToolStages /\ w.mode \in Tools
    BY <2>1 DEF ToolStages, Tools
  <2>4. /\ Shape' /\ SameWho /\ SameOpen /\ SameMounts /\ SameLease /\ SameEnd /\ SameData
        /\ w'.pc = "returned" /\ w'.claim = claim /\ w'.changed = w.changed
        /\ w'.touched = w.touched
    BY <2>1, <2>3, ToolDuties, ReportsShape, Zenon DEF Inv
  <2>5. Place = "report" /\ Place' = "returned" /\ Now = "closed" /\ Now' = "closed"
    BY <2>1, <2>3, <2>4, ToolDuties DEF Place, Now, SameWho
  <2>6. w.fd = None
    BY <2>5 DEF Inv, TargetInv, PhaseInv
  <2>7. TargetInv'
    <3>1. PhaseInv'
      BY <2>3, <2>4, <2>5, <2>6, ToolDuties DEF PhaseInv, SameOpen
    <3>2. OpenInv'
      BY <2>4, <2>6 DEF OpenInv, SameOpen
    <3>3. ChangedInv'
      BY <2>2, <2>4 DEF Inv, TargetInv, ChangedInv, ClaimHonest, ErasesReviewed, SameWho, SameOpen
    <3> QED BY <3>1, <3>2, <3>3 DEF TargetInv
  <2>8. CleanInv'
    <3>1. w.status = "none" /\ ~w.announced
      BY <2>1, <2>3, ToolDuties DEF Inv, CleanInv
    <3>2. EndsClean'
      BY <2>4, <3>1 DEF EndsClean, SameEnd, SameWho
    <3>3. /\ ~Finishing(w.mode, "returned") /\ Freed(w.mode, "report")
          /\ Left(w.mode, "report") = {} /\ NoWork(w.mode, "report")
      BY <2>3, ToolDuties
    <3> QED BY <2>1, <2>4, <2>5, <3>1, <3>2, <3>3, Quiet
         DEF Inv, CleanInv, SameMounts, SameEnd, SameWho, SameLease
  <2>9. ImageInv'
    BY <2>3, <2>4, ToolDuties, ImageKept DEF Inv, SameData, SameLease
  <2> QED BY <2>1, <2>4, <2>7, <2>8, <2>9, Quiet DEF Inv
<1> QED BY <1>1, <1>2, <1>3

\* Every step of the FreeDOS tool keeps the invariant.
LEMMA FreeDOSStep ==
  ASSUME Inv, FreeDOSNext
  PROVE  Inv'
BY FreeStarts, FreeBegins, FreeWorks, FreeEnds DEF FreeDOSNext

-----------------------------------------------------------------------------
(* Qualification of a drive *)

\* A step of the test; regions are written only after the last look at the target.
LEMMA TestStep ==
  ASSUME Inv, w.mode = "qualify", w.pc \in ToolStages \ {"returned"}, w'.pc \in ToolStages,
         \/ Phase(w.mode, w'.pc) \in {Phase(w.mode, w.pc), "closing"}
         \/ Phase(w.mode, w.pc) = "checked" /\ Phase(w.mode, w'.pc) = "writing",
         Shape', SameWho, SameOpen, SameMounts, SameLease,
         w'.announced = w.announced, w'.status = w.status, w'.image = w.image,
         w'.touched = w.touched, w'.claim = w.claim,
         w'.changed = w.changed
           \/ (Phase(w.mode, w.pc) = "writing" /\ w'.changed = w.changed \cup {w.fd}),
         w'.err \/ w'.err = w.err,
         src' = src, port' = port, DiskTypeOK'
  PROVE  Inv'
<1>1. Place = w.pc /\ Place' = w'.pc /\ w.mode \in Tools
      /\ w'.pc \notin Asking \cup Preparatory \cup {"ended"}
      /\ w.pc \notin Asking \cup Preparatory \cup {"ended"}
  BY ToolDuties DEF Place, Tools
<1>2. \/ Now' = Now \/ Now' = "closing"
      \/ (Now = "checked" /\ Now' = "writing")
  BY <1>1 DEF Now, SameWho
<1>3. Strict <=> Strict'
  BY DEF Strict, SameWho
<1>4. TargetInv'
  <2>1. Now = "writing" /\ Strict => w.fd = w.identity
    BY <1>1 DEF Inv, TargetInv, PhaseInv, Asking
  <2>2. w'.changed # w.changed =>
          w'.changed = {w.fd} /\ w.fd # None /\ w.claim = "none" /\ Now = "writing"
    BY <1>1 DEF Inv, TargetInv, PhaseInv, OpenInv, Now
  <2>3. PhaseInv'
    BY <1>1, <1>2, <1>3, <2>2 DEF Inv, TargetInv, PhaseInv, SameWho, SameOpen, Asking
  <2>4. OpenInv'
    BY <2>2 DEF Inv, TargetInv, OpenInv, SameWho, SameOpen
  <2>5. ErasesReviewed'
    <3>1. CASE w'.changed = w.changed
      BY <3>1 DEF Inv, TargetInv, ChangedInv, ErasesReviewed, SameWho, SameOpen
    <3>2. CASE w'.changed # w.changed
      BY <2>1, <2>2, <3>2 DEF Inv, TargetInv, OpenInv, ErasesReviewed, SameWho, SameOpen, Strict
    <3> QED BY <3>1, <3>2
  <2>6. ChangedInv'
    BY <2>2, <2>5 DEF Inv, TargetInv, ChangedInv, ClaimHonest, SameWho
  <2> QED BY <2>3, <2>4, <2>6 DEF TargetInv
<1>5. CleanInv'
  <2>1. w.status = "none" /\ ~w.announced
    BY <1>1 DEF Inv, CleanInv, Early
  <2>2. EndsClean'
    BY <2>1 DEF EndsClean, SameWho
  <2>3. /\ ~Finishing(w.mode, w'.pc) /\ Freed(w.mode, w.pc)
        /\ Left(w.mode, w.pc) = {} /\ NoWork(w.mode, w.pc)
    BY <1>1, ToolDuties
  <2> QED BY <1>1, <2>1, <2>2, <2>3
       DEF Inv, CleanInv, SameMounts, SameWho, SameLease
<1>6. ImageInv'
  BY <1>1, ImageKept DEF Inv, SameLease
<1> QED BY <1>4, <1>5, <1>6 DEF Inv, SrcType

\* The stages of the test.
LEMMA TestStages ==
  /\ {"ready", "write", "sync", "verify", "final", "undo", "report", "returned"}
       \subseteq ToolStages
  /\ {"ready", "write", "sync", "verify", "final", "undo", "report", "returned"} \subseteq Stages
  /\ Phase("qualify", "ready") = "checked"
  /\ \A s \in {"write", "sync", "verify", "final"} : Phase("qualify", s) = "writing"
  /\ Phase("qualify", "undo") = "closing"
  /\ \A s \in {"report", "returned"} : Phase("qualify", s) = "closed"
<1>1. "qualify" \in Tools /\ "ready" \in ToolChecked
      /\ {"write", "sync", "verify", "final"} \subseteq ToolWriting
      /\ {"ready", "write", "sync", "verify", "final", "undo", "report", "returned"}
           \subseteq ToolStages
  BY DEF Tools, ToolChecked, ToolWriting, ToolStages
<1> QED BY <1>1, ToolDuties

\* The drive is found and opened.
LEMMA QualifyStarts ==
  ASSUME Inv,
         \/ \E profile \in {"quick", "full"}, noUnmount \in BOOLEAN :
              QualifyStart(profile, noUnmount)
         \/ QualifyDiscover \/ QualifyOpen \/ BeforeWrite
  PROVE  Inv'
<1>1. ASSUME NEW profile \in {"quick", "full"}, NEW noUnmount \in BOOLEAN,
             QualifyStart(profile, noUnmount)
      PROVE  Inv'
  <2> DEFINE test == [profile |-> profile, verdict |-> "none"]
  <2>1. /\ w' = [w EXCEPT !.pc = "discover", !.front = "tool", !.mode = "qualify",
                         !.noUnmount = noUnmount, !.test = test]
    BY <1>1, Zenon DEF QualifyStart
  <2> HIDE DEF test
  <2>2. w.pc = "start" /\ UNCHANGED <<disk, src>> /\ w.mode = "none"
    BY <1>1, Zenon DEF QualifyStart, Inv, ImageInv
  <2>3. Shape /\ "tool" \in Fronts /\ "qualify" \in Kinds /\ "discover" \in Stages
        /\ noUnmount \in BOOLEAN
    BY CommandStages, Unopened DEF Inv, Fronts, Kinds, Modes
  <2>4. /\ Shape' /\ SameOpen /\ SameDeed /\ SameMounts /\ SameLease /\ SameEnd
        /\ w'.pc = "discover" /\ w'.mode = "qualify" /\ w'.image = w.image
    <3>1. Shape /\ "discover" \in Stages /\ "tool" \in Fronts /\ "qualify" \in Kinds
          /\ noUnmount \in BOOLEAN
      BY <2>3
    <3>2. w' = [w EXCEPT !.pc = "discover", !.front = "tool", !.mode = "qualify",
                         !.noUnmount = noUnmount, !.test = test]
      BY <2>1
    <3>3. Shape'
      BY <3>1, <3>2, ZenonT(60) DEF Shape, Writers
    <3> QED BY <3>1, <3>2, <3>3 DEF Shape, Writers, SameOpen, SameDeed, SameMounts,
                                          SameLease, SameEnd
  <2> QED BY <2>2, <2>4, CommandStages, UnopenedKept, Quiet
<1>2. CASE QualifyDiscover
  <2>1. /\ w' = [w EXCEPT !.pc = "confirm", !.identity = port, !.listed = mounts]
        /\ w.pc = "discover" /\ port # None /\ UNCHANGED <<disk, src>>
    BY <1>2 DEF QualifyDiscover, Qual, At, ValidateTarget
  <2> QED BY <2>1, FindsStep
<1>3. CASE QualifyOpen
  <2>1. w.mode \in Tools /\ w.pc = "open" /\ "before" \in ToolReview /\ OpenTarget("before")
    BY <1>3 DEF QualifyOpen, Qual, At, Tools, ToolReview
  <2> QED BY <2>1, ToolOpens
<1>4. CASE BeforeWrite
  <2>1. /\ w.mode \in Tools /\ UNCHANGED <<disk, src>> /\ Ask(FALSE, "ready")
        /\ w.pc \in ToolReview /\ "ready" \in ToolChecked
    BY <1>4 DEF BeforeWrite, Qual, At, Tools, ToolReview, ToolChecked
  <2> QED BY <2>1, ToolAsks
<1> QED BY <1>1, <1>2, <1>3, <1>4

\* The engine starts.
LEMMA Runs ==
  ASSUME Inv, QualifyRun
  PROVE  Inv'
<1>1. PICK drive \in Drives, cells \in Leftovers :
       w' = [w EXCEPT !.pc = "write",
                      !.test = [profile |-> @.profile, verdict |-> "passed", pass |-> 1,
                                left |-> RegionIndices(@.profile), drive |-> drive,
                                cells |-> cells, cached |-> [a \in {} |-> None]]]
  BY Zenon DEF QualifyRun
<1> DEFINE test == [profile |-> w.test.profile, verdict |-> "passed", pass |-> 1,
                    left |-> RegionIndices(w.test.profile), drive |-> drive,
                    cells |-> cells, cached |-> [a \in {} |-> None]]
<1>2. w' = [w EXCEPT !.pc = "write", !.test = test]
  BY <1>1
<1> HIDE DEF test
<1>3. w.mode = "qualify" /\ w.pc = "ready" /\ UNCHANGED <<disk, src>>
  BY DEF QualifyRun, Qual, At
<1>4. /\ Shape' /\ SameWho /\ SameOpen /\ SameDeed /\ SameMounts /\ SameLease /\ SameEnd
      /\ w'.pc = "write" /\ w'.image = w.image
  BY <1>2, TestStages, TestsShape, Zenon DEF Inv
<1> QED BY <1>3, <1>4, TestStages, TestStep, Quiet DEF SameDeed, SameEnd

\* A region is written.
LEMMA Fills ==
  ASSUME Inv, WriteRegion
  PROVE  Inv'
<1> DEFINE a == Lowest(w.test.left)
           cached == [b \in DOMAIN w.test.cached \cup {a} |->
                        IF b = a THEN Pattern(a) ELSE w.test.cached[b]]
           left == w.test.left \ {a}
           stage == IF left = {} THEN "sync" ELSE "write"
           changed == w.changed \cup {w.fd}
           test == [w.test EXCEPT !.cached = cached, !.left = left]
<1>1. /\ w.mode = "qualify" /\ w.pc = "write"
      /\ cache' = [cache EXCEPT ![w.fd.disk] = [table |-> "torn", fs |-> "torn"]]
      /\ UNCHANGED <<port, attached, mounts, parts, media, src>>
  BY DEF WriteRegion, Qual, At
<1>2. w' = [w EXCEPT !.pc = stage, !.changed = changed, !.test.cached = cached,
                     !.test.left = left]
  BY DEF WriteRegion
<1> HIDE DEF cached, left
<1>3. w' = [w EXCEPT !.pc = stage, !.changed = changed, !.test = test]
  BY <1>2 DEF Inv, Shape, Writers
<1>4. stage \in {"sync", "write"}
  OBVIOUS
<1> HIDE DEF stage, test
<1>5. w.fd \in Attachments /\ w.fd.disk \in Disks
  BY <1>1, TestStages, OpenWhileWriting DEF Asking
<1>6. changed \in SUBSET Attachments /\ stage \in Stages /\ Shape
  BY <1>4, <1>5, TestStages DEF Inv, Shape, Writers
<1> HIDE DEF changed
<1>7. /\ Shape' /\ SameWho /\ SameOpen /\ SameMounts /\ SameLease /\ SameEnd
      /\ w'.pc = stage /\ w'.changed = changed /\ w'.touched = w.touched
      /\ w'.claim = w.claim /\ w'.image = w.image
  BY <1>3, <1>6, FillsShape, Zenon
<1>8. DiskTypeOK'
  BY <1>1, <1>5, Literals DEF Inv, DiskTypeOK
<1>9. w'.changed = w.changed \cup {w.fd}
  BY <1>7 DEF changed
<1> QED BY <1>1, <1>4, <1>7, <1>8, <1>9, TestStages, TestStep DEF SameEnd

\* What is written reaches the drive.
LEMMA Syncs ==
  ASSUME Inv, SyncRegions
  PROVE  Inv'
<1>1. PICK cells \in WrittenBack(w.test) :
        w' = [w EXCEPT !.pc = "verify", !.test.left = RegionIndices(w.test.profile),
                       !.test.cells = cells, !.test.cached = [a \in {} |-> None]]
  BY Zenon DEF SyncRegions
<1>2. /\ w.mode = "qualify" /\ w.pc = "sync" /\ media' = [media EXCEPT ![w.fd.disk] = Held]
      /\ UNCHANGED <<port, attached, mounts, parts, cache, src>>
  BY DEF SyncRegions, Qual, At
<1> DEFINE left == RegionIndices(w.test.profile)
           cached == [a \in {} |-> None]
           test == [w.test EXCEPT !.left = left, !.cells = cells, !.cached = cached]
<1>3. w' = [w EXCEPT !.pc = "verify", !.test.left = left, !.test.cells = cells,
                     !.test.cached = cached]
  BY <1>1
<1> HIDE DEF left, cached
<1>4. w' = [w EXCEPT !.pc = "verify", !.test = test]
  BY <1>3 DEF Inv, Shape, Writers
<1> HIDE DEF test
<1>5. /\ Shape' /\ SameWho /\ SameOpen /\ SameDeed /\ SameMounts /\ SameLease /\ SameEnd
      /\ w'.pc = "verify" /\ w'.image = w.image
  BY <1>4, TestStages, TestsShape, Zenon DEF Inv
<1>6. Held \in Cells
  BY <1>2, TestStages, OpenWhileWriting DEF Asking
<1>7. DiskTypeOK'
  BY <1>2, <1>6 DEF Inv, DiskTypeOK, Cells
<1> QED BY <1>2, <1>5, <1>7, TestStages, TestStep DEF SameDeed, SameEnd

\* A region is read, and is what was written.
LEMMA Verifies ==
  ASSUME Inv, VerifyRegion
  PROVE  Inv'
<1>1. w.mode = "qualify" /\ w.pc = "verify" /\ UNCHANGED <<disk, src>> /\ Shape
  BY DEF VerifyRegion, Qual, At, Inv
<1>2. ASSUME NEW s \in {"write", "verify", "final"}, NEW test,
             \/ w' = [w EXCEPT !.pc = s, !.test = test]
             \/ s = "verify" /\ w' = [w EXCEPT !.test = test]
      PROVE  Inv'
  <2>1. s \in Stages
    BY TestStages
  <2>2. /\ Shape' /\ SameWho /\ SameOpen /\ SameDeed /\ SameMounts /\ SameLease /\ SameEnd
        /\ w'.pc = s /\ w'.image = w.image
    BY <1>1, <1>2, <2>1, TestsShape, TestsOnShape, Zenon
  <2> QED BY <1>1, <2>2, TestStages, TestStep, Quiet DEF SameDeed, SameEnd
<1> DEFINE a == Verifying
           left == w.test.left \ {a}
           next == w.test.pass + 1
           all == RegionIndices(w.test.profile)
           none == {}
<1>3. \/ w' = [w EXCEPT !.test.left = left]
      \/ w' = [w EXCEPT !.pc = "write", !.test.pass = next, !.test.left = all]
      \/ w' = [w EXCEPT !.pc = "final", !.test.left = none]
  BY <1>1 DEF VerifyRegion, Shape, Writers
<1> HIDE DEF left, next, all, none
<1>4. CASE w' = [w EXCEPT !.test.left = left]
  <2> DEFINE test == [w.test EXCEPT !.left = left]
  <2>1. w' = [w EXCEPT !.test = test]
    BY <1>1, <1>4 DEF Shape, Writers
  <2> HIDE DEF test
  <2> QED BY <1>2, <2>1, Zenon
<1>5. CASE w' = [w EXCEPT !.pc = "write", !.test.pass = next, !.test.left = all]
  <2> DEFINE test == [w.test EXCEPT !.pass = next, !.left = all]
  <2>1. w' = [w EXCEPT !.pc = "write", !.test = test]
    BY <1>1, <1>5 DEF Shape, Writers
  <2> HIDE DEF test
  <2> QED BY <1>2, <2>1, Zenon
<1>6. CASE w' = [w EXCEPT !.pc = "final", !.test.left = none]
  <2> DEFINE test == [w.test EXCEPT !.left = none]
  <2>1. w' = [w EXCEPT !.pc = "final", !.test = test]
    BY <1>1, <1>6 DEF Shape, Writers
  <2> HIDE DEF test
  <2> QED BY <1>2, <2>1, Zenon
<1> QED BY <1>3, <1>4, <1>5, <1>6

\* Or it is not, or cannot be read; and the report is finished.
LEMMA Verdicts ==
  ASSUME Inv,
         \/ Mismatch \/ (\E verdict \in {"failed", "cancelled"} : QualifyFail(verdict))
         \/ FinishDeviceRun
  PROVE  Inv'
<1>1. Shape
  BY DEF Inv
<1>2. ASSUME NEW verdict, w.mode = "qualify", w.pc \in {"write", "sync", "verify"},
             w' = [w EXCEPT !.pc = "undo", !.err = TRUE, !.test.verdict = verdict],
             UNCHANGED <<disk, src>>
      PROVE  Inv'
  <2> DEFINE test == [w.test EXCEPT !.verdict = verdict]
  <2>1. w' = [w EXCEPT !.pc = "undo", !.err = TRUE, !.test = test]
    BY <1>1, <1>2 DEF Shape, Writers
  <2> HIDE DEF test
  <2>2. "undo" \in Stages /\ TRUE \in BOOLEAN
    BY TestStages
  <2>3. /\ Shape' /\ SameWho /\ SameOpen /\ SameDeed /\ SameMounts /\ SameLease
        /\ w'.pc = "undo" /\ w'.err = TRUE /\ w'.image = w.image
        /\ w'.announced = w.announced /\ w'.status = w.status
    BY <1>1, <2>1, <2>2, JudgesShape, Zenon
  <2> QED BY <1>2, <2>3, TestStages, TestStep, Quiet DEF SameDeed
<1>3. CASE Mismatch
  <2> DEFINE verdict == IF \E b \in RegionIndices(w.test.profile) : Read(Verifying) = Pattern(b)
                        THEN "alias" ELSE "failed"
  <2>1. /\ w.mode = "qualify" /\ w.pc = "verify" /\ UNCHANGED <<disk, src>>
        /\ w' = [w EXCEPT !.pc = "undo", !.err = TRUE, !.test.verdict = verdict]
    BY <1>3 DEF Mismatch, Qual, At
  <2> HIDE DEF verdict
  <2> QED BY <1>2, <2>1, Zenon
<1>4. ASSUME NEW verdict \in {"failed", "cancelled"}, QualifyFail(verdict)
      PROVE  Inv'
  BY <1>2, <1>4, Zenon DEF QualifyFail, Qual, At
<1>5. CASE FinishDeviceRun
  <2> DEFINE verdict == IF w.err /\ w.test.verdict = "passed" THEN "failed" ELSE w.test.verdict
             test == [w.test EXCEPT !.verdict = verdict]
  <2>1. /\ w.mode = "qualify" /\ w.pc = "report" /\ UNCHANGED <<disk, src>>
        /\ w' = [w EXCEPT !.pc = "returned", !.test.verdict = verdict]
    BY <1>5 DEF FinishDeviceRun, Qual, At
  <2> HIDE DEF verdict
  <2>2. w' = [w EXCEPT !.pc = "returned", !.test = test]
    BY <1>1, <2>1 DEF Shape, Writers
  <2> HIDE DEF test
  <2>3. /\ Shape' /\ SameWho /\ SameOpen /\ SameDeed /\ SameMounts /\ SameLease /\ SameEnd
        /\ w'.pc = "returned" /\ w'.image = w.image
    BY <1>1, <2>2, TestStages, TestsShape, Zenon
  <2> QED BY <2>1, <2>3, TestStages, TestStep, Quiet DEF SameDeed, SameEnd
<1> QED BY <1>3, <1>4, <1>5

\* It is refused before it starts or at the last look, or let go.
LEMMA QualifyLets ==
  ASSUME Inv, QualifyFinalCheck \/ QualifyRefuse \/ QualifyFinalFails \/ QualifyClose
  PROVE  Inv'
<1>1. CASE QualifyFinalCheck
  <2>1. w.mode \in Tools /\ w.pc \in ToolWriting /\ Pass("undo")
    BY <1>1 DEF QualifyFinalCheck, Qual, At, Tools, ToolWriting
  <2> QED BY <2>1, ToolWrites
<1>2. CASE QualifyRefuse \/ QualifyFinalFails
  <2>1. /\ w.mode \in Tools /\ w.pc \in ToolStages \ {"report", "returned"}
        /\ w' = [w EXCEPT !.pc = "undo", !.err = TRUE] /\ UNCHANGED <<disk, src>>
    BY <1>2 DEF QualifyRefuse, QualifyFinalFails, Fail, FailTo, Tools, ToolStages, ToolReview,
                ToolChecked, ToolWriting
  <2> QED BY <2>1, ToolFails
<1>3. CASE QualifyClose
  <2>1. w.mode \in Tools /\ w.pc = "undo" /\ CloseTarget("report")
    BY <1>3 DEF QualifyClose, Qual, At, Tools
  <2> QED BY <2>1, ToolCloses
<1> QED BY <1>1, <1>2, <1>3

\* Every step of the qualification keeps the invariant.
LEMMA QualifyStep ==
  ASSUME Inv, QualifyNext
  PROVE  Inv'
BY QualifyStarts, Runs, Fills, Syncs, Verifies, Verdicts, QualifyLets DEF QualifyNext

-----------------------------------------------------------------------------
(* The theorems *)

\* A writer that has not started.
LEMMA IdleShape == w = Idle => Shape
<1> SUFFICES ASSUME w = Idle PROVE Shape
  OBVIOUS
<1>1. /\ "start" \in Stages /\ "none" \in Returns /\ "none" \in Fronts /\ "none" \in Kinds
      /\ "no" \in Helds /\ "none" \in Boots /\ "none" \in Claims /\ "none" \in Statuses
  BY DEF Stages, UnopenedStages, Preparatory, Returns, Fronts, Kinds, Helds, Boots, Contents,
         Claims, Statuses
<1>2. /\ [mtime |-> 0, ctime |-> 0] \in Pins /\ None \in DigestSet /\ None \in Ports
      /\ {} \in SUBSET MountRoots /\ {} \in SUBSET OwnMounts /\ {} \in SUBSET Attachments
      /\ FALSE \in BOOLEAN
  BY BoundAssumption DEF Pins, DigestSet, Ports
<1> QED BY <1>1, <1>2 DEF Shape, Writers, Idle

\* At first nothing is open, changed, mounted, leased or said.
LEMMA InvInit == SessionInit => Inv
<1> SUFFICES ASSUME SessionInit PROVE Inv
  OBVIOUS
<1>1. Shape
  BY IdleShape DEF SessionInit
<1>2. SrcType
  <2>1. {Selected} \in SUBSET Versions
    BY VersionAssumption
  <2> QED BY <2>1, VersionAssumption, BoundAssumption DEF SessionInit, SrcType
<1>3. DiskTypeOK
  <2>1. [table |-> "old", fs |-> "old"] \in [table : Contents, fs : Contents]
    BY DEF Contents
  <2>2. /\ cache \in [Disks -> [table : Contents, fs : Contents]]
        /\ media \in [Disks -> [table : Contents, fs : Contents]]
    BY <2>1 DEF SessionInit, DiskInit
  <2>3. 1 \in 1..MaxAttach
    BY AttachAssumption
  <2>4. port \in Attachments
    BY <2>3 DEF SessionInit, DiskInit, Attachments
  <2> QED BY <2>2, <2>3, <2>4 DEF SessionInit, DiskInit, DiskTypeOK
<1>4. /\ w.pc = "start" /\ w.fd = None /\ w.changed = {} /\ w.mode = "none" /\ w.claim = "none"
      /\ w.own = {} /\ w.known = {} /\ w.work = FALSE /\ w.err = FALSE /\ w.held = "no"
      /\ w.status = "none" /\ w.announced = FALSE /\ w.private = FALSE
  BY DEF SessionInit, Idle
<1>5. Place = "start" /\ "start" \notin Asking /\ Now = "unopened"
  BY <1>4 DEF Place, Now, Phase, Asking, ClosedStages, Finishing, UnopenedStages, Preparatory
<1>6. ImageInv
  BY <1>4 DEF ImageInv, Preparatory
<1>7. TargetInv
  BY <1>4, <1>5 DEF TargetInv, PhaseInv, OpenInv, ChangedInv, ClaimHonest, ErasesReviewed
<1>8. ~Finishing(w.mode, Place)
  BY <1>4 DEF Finishing
<1>9. src.lease = "none"
  BY DEF SessionInit
<1>10. CleanInv
  BY <1>4, <1>8, <1>9 DEF CleanInv, EndsClean
<1> QED BY <1>1, <1>2, <1>3, <1>6, <1>7, <1>10 DEF Inv

\* Nothing happens.
LEMMA InvQuiet ==
  ASSUME Inv, UNCHANGED session
  PROVE  Inv'
<1>1. w' = w /\ src' = src /\ UNCHANGED disk
  BY DEF session
<1>2. Shape' /\ SrcType' /\ ImageInv'
  BY <1>1 DEF Inv, Shape, SrcType, ImageInv
<1>3. DiskTypeOK' /\ port' = port
  BY <1>1 DEF Inv, DiskTypeOK, disk
<1>4. TargetInv'
  <2>1. PhaseInv'
    BY <1>1 DEF Inv, TargetInv, PhaseInv, Now, Place, Strict
  <2>2. OpenInv'
    BY <1>1, <1>3 DEF Inv, TargetInv, OpenInv
  <2>3. ChangedInv'
    BY <1>1 DEF Inv, TargetInv, ChangedInv, ClaimHonest, ErasesReviewed
  <2> QED BY <2>1, <2>2, <2>3 DEF TargetInv
<1>5. CleanInv'
  BY <1>1 DEF Inv, CleanInv, EndsClean, Place
<1> QED BY <1>2, <1>3, <1>4, <1>5 DEF Inv

\* The step of every writer, of the command and of the others.
LEMMA InvNext ==
  ASSUME Inv, [Next]_session
  PROVE  Inv'
<1>1. CASE UNCHANGED session
  BY <1>1, InvQuiet
<1>2. CASE Stopped
  BY <1>2, InvQuiet DEF Stopped
<1> QED BY <1>1, <1>2, CommandStep, RawStep, WindowsStep, ToGoStep, PersistentStep, ExtractedStep,
           FreeDOSStep, QualifyStep, OthersStep DEF Next

\* The invariant of every reachable state.
THEOREM InvAlways == Spec => []Inv
BY InvInit, InvNext, PTL DEF Spec

\* State and writer keep their types.
THEOREM TypeCorrect == Spec => []TypeOK
<1>1. Inv => TypeOK
  <2> SUFFICES ASSUME Inv PROVE TypeOK
    OBVIOUS
  <2>1. /\ w.mode \in Kinds /\ w.identity \in Ports /\ w.fd \in Ports
        /\ w.listed \in SUBSET MountRoots /\ w.own \in SUBSET OwnMounts
    BY ZenonT(60) DEF Inv, Shape, Writers
  <2>2. /\ w.changed \in SUBSET Attachments /\ w.image \in DigestSet /\ w.digest \in DigestSet
        /\ w.plan \in DigestSet /\ w.staged \in DigestSet /\ w.held \in Helds
        /\ w.status \in Statuses
    BY ZenonT(60) DEF Inv, Shape, Writers
  <2>3. /\ w.mode \in Modes \cup {"none", "extracted"}
        /\ w.identity \in Attachments \cup {None} /\ w.fd \in Attachments \cup {None}
        /\ w.listed \subseteq MountRoots /\ w.own \subseteq {"iso", "overlay"} \cup TargetMounts
    BY <2>1 DEF Kinds, Ports, OwnMounts
  <2>4. /\ w.changed \subseteq Attachments
        /\ {w.image, w.digest, w.plan, w.staged} \subseteq Digests \cup {None}
        /\ w.held \in {"no", "lease", "passes"}
        /\ w.status \in {"none", "refused", "planned", "ok", "failed"}
    BY <2>2 DEF DigestSet, Helds, Statuses
  <2>5. DiskTypeOK /\ SrcType /\ w.known \subseteq w.own
    BY DEF Inv, CleanInv
  <2> QED BY <2>3, <2>4, <2>5 DEF TypeOK, SrcType
<1> QED BY <1>1, InvAlways, PTL

\* One attachment is changed, the selected one or one that passes for it.
THEOREM ErasesReviewedHolds == Spec => []ErasesReviewed
<1>1. Inv => ErasesReviewed
  BY DEF Inv, TargetInv, ChangedInv
<1> QED BY <1>1, InvAlways, PTL

\* The user is told that the USB was not changed only if it was not.
THEOREM ClaimHonestHolds == Spec => []ClaimHonest
<1>1. Inv => ClaimHonest
  BY DEF Inv, TargetInv, ChangedInv
<1> QED BY <1>1, InvAlways, PTL

\* A command that succeeds leaves nothing mounted, open, leased or put aside.
THEOREM EndsCleanHolds == Spec => []EndsClean
<1>1. Inv => EndsClean
  BY DEF Inv, CleanInv
<1> QED BY <1>1, InvAlways, PTL

-----------------------------------------------------------------------------
(* The verdict on a drive.  The pattern of the first pass is in no cell    *)
(* before it: a region that reads back then is in a cell that keeps what   *)
(* is written.  From then on every cell in use does, and holds the last    *)
(* region written to it: when all of them read back, no two share a cell.  *)

\* What an earlier test may have left in a cell.
OldPatterns == {"other", "address-b", "address-d"}

\* The profiles of a test.
Profiles == {"quick", "full"}

\* The stages of a test before it runs, while it runs, and after it.
Before == {"discover", "confirm", "revalidate", "unmount", "open", "before", "ready"} \cup Asking
During == {"write", "sync", "verify", "final"}
After == {"undo", "report", "returned", "ended"}

\* Two addresses of the drive are stored in one cell.
Aliased(drive) == \E a, b \in Addresses : a # b /\ drive.store[a] = drive.store[b]

\* The pattern of a region in a pass.
Filling(test, a) == <<DefaultPatterns(test.profile)[test.pass], a>>

\* A test, whatever is in its cells and in the page cache.
Tests(cells, cached) ==
  [profile : Profiles, verdict : {"passed"}, pass : 1..4, left : SUBSET Addresses,
   drive : Drives, cells : {cells}, cached : {cached}]

\* What is in the cells: in those that keep nothing, what was there before.
CellsInv(test) ==
  \A c \in Addresses : c \notin test.drive.kept => \E p \in OldPatterns : test.cells[c] = <<p, c>>

\* What has been written to the page cache, of the regions that are not left.
WrittenInv(test, left) ==
  /\ DOMAIN test.cached = RegionIndices(test.profile) \ left
  /\ \A a \in RegionIndices(test.profile) \ left : test.cached[a] = Filling(test, a)

\* What the drive returns after a sync: each region that has been verified its
\* own pattern, and each cell that keeps something that of a region stored there.
SyncedInv(test) ==
  /\ test.cached = [a \in {} |-> None]
  /\ \A a \in RegionIndices(test.profile) \ test.left :
       test.cells[test.drive.store[a]] = Filling(test, a)
  /\ \A a \in RegionIndices(test.profile) : test.drive.store[a] \in test.drive.kept =>
       \E b \in RegionIndices(test.profile) :
         test.drive.store[b] = test.drive.store[a]
         /\ test.cells[test.drive.store[a]] = Filling(test, b)

\* A test while it runs.
TestInv(test, stage) ==
  /\ test \in Tests(test.cells, test.cached)
  /\ test.pass <= Len(DefaultPatterns(test.profile))
  /\ test.left \subseteq RegionIndices(test.profile)
  /\ CellsInv(test)
  /\ test.pass > 1 => \A a \in RegionIndices(test.profile) : test.drive.store[a] \in test.drive.kept
  /\ stage = "write" => test.left # {} /\ WrittenInv(test, test.left)
  /\ stage = "sync" => WrittenInv(test, {})
  /\ stage = "verify" => test.left # {} /\ SyncedInv(test)
  /\ stage = "final" => Holds(test.drive, RegionIndices(test.profile))

\* The qualification of a drive, at each of its stages.
VerdictInv ==
  w.mode = "qualify" =>
    /\ w.pc \in Before \cup During \cup After
    /\ w.pc \in Asking => w.ret = "ready"
    /\ w.pc \in Before => \E profile \in Profiles : w.test = [profile |-> profile, verdict |-> "none"]
    /\ w.pc \in During => TestInv(w.test, w.pc)
    /\ w.pc \in {"undo", "report"} => "verdict" \in DOMAIN w.test
    /\ w.pc \in After /\ w.test.verdict = "passed" =>
         \/ Holds(w.test.drive, RegionIndices(w.test.profile))
         \/ w.pc \in {"undo", "report"} /\ w.err
    /\ w.pc \in After /\ w.test.verdict = "alias" => Aliased(w.test.drive)
    /\ w.pc \in {"undo", "report", "returned"} /\ ~w.err => w.test.verdict = "passed"
    /\ w.pc = "ended" /\ w.status = "ok" => w.test.verdict = "passed"
-----------------------------------------------------------------------------
(* Arithmetic of the regions *)

\* The lowest of some numbers is one of them.
LEMMA LowestIn ==
  ASSUME NEW S \in SUBSET Nat, S # {}
  PROVE  Lowest(S) \in S
<1> DEFINE less == {pair \in Nat \X Nat : pair[1] < pair[2]}
<1>1. IsWellFoundedOn(less, Nat)
  BY NatLessThanWellFounded DEF OpToRel
<1> HIDE DEF less
<1>2. PICK x \in S : \A y \in S : ~(<<y, x>> \in less)
  BY <1>1, WFMin
<1>3. ASSUME NEW y \in S PROVE x <= y
  <2>1. x \in Nat /\ y \in Nat
    OBVIOUS
  <2>2. <<y, x>>[1] = y /\ <<y, x>>[2] = x /\ <<y, x>> \in Nat \X Nat
    BY <2>1
  <2>3. ~(y < x)
    BY <1>2, <2>2 DEF less
  <2> QED BY <2>1, <2>3
<1> QED BY <1>3 DEF Lowest

\* A part of a number is no larger.
LEMMA PartBound ==
  ASSUME NEW x \in Nat, NEW m \in Nat \ {0}, NEW s \in 0..m
  PROVE  (x * s) \div m \in 0..x
<1> DEFINE q == (x * s) \div m
<1>1. x * s \in Nat /\ x * m \in Nat
  BY SMTT(30)
<1>2. x * s <= x * m
  BY SMTT(30)
<1>3. q \in Nat /\ q * m <= x * s
  BY <1>1, SMTT(30)
<1>4. q <= x
  <2> SUFFICES ASSUME q >= x + 1 PROVE FALSE
    BY <1>3
  <2> HIDE DEF q
  <2>1. q * m >= (x + 1) * m
    BY <1>3, SMTT(30)
  <2>2. (x + 1) * m = x * m + m
    BY SMTT(30)
  <2> QED BY <1>1, <1>2, <1>3, <2>1, <2>2, SMTT(30)
<1> QED BY <1>3, <1>4

\* There are regions to test, and they are on the drive.
LEMMA RegionsIn ==
  ASSUME NEW profile \in Profiles
  PROVE  RegionIndices(profile) \subseteq Addresses /\ RegionIndices(profile) # {}
<1> DEFINE count == IF TotalRegions < QuickRegionCount THEN TotalRegions ELSE QuickRegionCount
           part(sample) == ((TotalRegions - 1) * sample) \div (count - 1)
<1>1. count \in Nat \ {0} /\ TotalRegions - 1 \in Nat /\ 0 \in Addresses
  BY RegionAssumption DEF Addresses
<1>2. CASE profile = "full"
  BY <1>1, <1>2 DEF RegionIndices
<1>3. CASE profile # "full" /\ count = 1
  BY <1>1, <1>3 DEF RegionIndices
<1>4. CASE profile # "full" /\ count # 1
  <2>1. RegionIndices(profile) = {part(sample) : sample \in 0..count - 1}
    BY <1>4 DEF RegionIndices
  <2>2. count - 1 \in Nat \ {0}
    BY <1>1, <1>4
  <2> HIDE DEF count
  <2>3. \A sample \in 0..count - 1 : part(sample) \in 0..TotalRegions - 1
    BY <1>1, <2>2, PartBound
  <2>4. 0 \in 0..count - 1
    BY <2>2
  <2> HIDE DEF part
  <2> QED BY <2>1, <2>3, <2>4 DEF Addresses
<1> QED BY <1>2, <1>3, <1>4

\* A drive stores its addresses in its cells.
LEMMA StoreIn ==
  ASSUME NEW drive \in Drives, NEW a \in Addresses
  PROVE  drive.store[a] \in Addresses
<1>1. CASE \E real \in 1..TotalRegions :
             drive = [store |-> [b \in Addresses |-> b % real], kept |-> Addresses]
  <2>1. PICK real \in 1..TotalRegions :
          drive = [store |-> [b \in Addresses |-> b % real], kept |-> Addresses]
    BY <1>1
  <2>2. drive.store[a] = a % real
    BY <2>1
  <2>3. a % real \in 0..real - 1
    BY RegionAssumption DEF Addresses
  <2> QED BY <2>2, <2>3, RegionAssumption DEF Addresses
<1>2. CASE \E real \in Addresses :
             drive = [store |-> [b \in Addresses |-> b], kept |-> 0..real - 1]
  BY <1>2
<1> QED BY <1>1, <1>2 DEF Drives

\* The first pass tells what an earlier test left from what was written.
LEMMA PatternFacts ==
  ASSUME NEW profile \in Profiles
  PROVE  /\ Len(DefaultPatterns(profile)) \in 2..4
         /\ DefaultPatterns(profile)[1] = "address-a"
         /\ "address-a" \notin OldPatterns
<1>1. CASE profile = "quick"
  BY <1>1 DEF DefaultPatterns, OldPatterns
<1>2. CASE profile # "quick"
  BY <1>2 DEF DefaultPatterns, OldPatterns
<1> QED BY <1>1, <1>2
-----------------------------------------------------------------------------
(* The steps of a test *)

\* The fields that the verdict depends on.
Named == {"pc", "ret", "mode", "err", "status", "test"}

\* A writer has them.
LEMMA FieldsOf == Shape => Named \subseteq DOMAIN w
BY DEF Shape, Writers, Named

\* The fields of a test that runs.
LEMMA TestFields ==
  ASSUME NEW test, NEW cells, NEW cached, test \in Tests(cells, cached)
  PROVE  /\ test.profile \in Profiles /\ test.verdict = "passed" /\ test.pass \in 1..4
         /\ test.left \subseteq Addresses /\ test.drive \in Drives
         /\ test.cells = cells /\ test.cached = cached
BY DEF Tests

\* A test whose fields change goes on as one.
Again(test, pass, left, cells, cached) ==
  [test EXCEPT !.pass = pass, !.left = left, !.cells = cells, !.cached = cached]

\* It is still a test, and the rest of it is what it was.
LEMMA TestAgain ==
  ASSUME NEW test, test \in Tests(test.cells, test.cached), NEW pass, pass \in 1..4,
         NEW left, left \in SUBSET Addresses, NEW cells, NEW cached, NEW next,
         next = Again(test, pass, left, cells, cached)
  PROVE  /\ next \in Tests(cells, cached)
         /\ next.profile = test.profile /\ next.pass = pass /\ next.left = left
         /\ next.drive = test.drive /\ next.cells = cells /\ next.cached = cached
<1>1. PICK profile \in Profiles, drive \in Drives, oldpass \in 1..4, oldleft \in SUBSET Addresses :
        test = [profile |-> profile, verdict |-> "passed", pass |-> oldpass, left |-> oldleft,
                drive |-> drive, cells |-> test.cells, cached |-> test.cached]
  BY DEF Tests
<1> DEFINE oldcells == test.cells
           oldcached == test.cached
           old == [profile |-> profile, verdict |-> "passed", pass |-> oldpass, left |-> oldleft,
                   drive |-> drive, cells |-> oldcells, cached |-> oldcached]
<1>2. test = old
  BY <1>1
<1> HIDE DEF oldcells, oldcached
<1>3. test.profile = profile /\ test.drive = drive
  BY <1>2
<1> DEFINE made == [profile |-> profile, verdict |-> "passed", pass |-> pass, left |-> left,
                    drive |-> drive, cells |-> cells, cached |-> cached]
<1>4. next = made
  BY <1>2 DEF Again
<1>5. /\ made.profile = profile /\ made.pass = pass /\ made.left = left
      /\ made.drive = drive /\ made.cells = cells /\ made.cached = cached
  OBVIOUS
<1>6. made \in Tests(cells, cached)
  BY ZenonT(60) DEF Tests
<1> HIDE DEF made
<1> QED BY <1>3, <1>4, <1>5, <1>6

\* The drive is found, and nothing is tested yet.
LEMMA StartsTest ==
  ASSUME Shape, NEW profile \in Profiles, NEW noUnmount \in BOOLEAN,
         QualifyStart(profile, noUnmount)
  PROVE  VerdictInv'
<1> DEFINE test == [profile |-> profile, verdict |-> "none"]
<1>1. /\ w' = [w EXCEPT !.pc = "discover", !.front = "tool", !.mode = "qualify",
                        !.noUnmount = noUnmount, !.test = test]
      /\ Named \subseteq DOMAIN w
  BY FieldsOf DEF QualifyStart
<1> HIDE DEF test
<1>2. w'.pc = "discover" /\ w'.test = test
  BY <1>1 DEF Named
<1>3. "discover" \in Before /\ "discover" \notin Asking \cup During \cup After \cup {"undo"}
  BY DEF Before, Asking, During, After
<1> QED BY <1>2, <1>3 DEF VerdictInv, test, After

\* A step outside the test proper, which leaves it as it is.
LEMMA KeepsTest ==
  ASSUME VerdictInv, w.mode = "qualify", w'.mode = w.mode, w'.test = w.test,
         \/ /\ w.pc \in Before /\ w'.pc \in Before
            /\ w'.pc \in Asking => w'.ret = "ready"
         \/ w.pc \in Before /\ w'.pc = "undo" /\ w'.err
         \/ w.pc \in Before /\ w'.pc = "ended" /\ w'.status # "ok"
         \/ w.pc \in During /\ w'.pc = "undo" /\ w'.err
         \/ w.pc = "final" /\ w'.pc = "undo"
         \/ w.pc = "undo" /\ w'.pc = "report" /\ (w'.err = w.err \/ w'.err)
         \/ w.pc = "returned" /\ w'.pc = "ended" /\ (w'.status = "ok" => ~w.err)
  PROVE  VerdictInv'
<1>1. /\ Before \cap (During \cup After) = {} /\ During \cap After = {} /\ Asking \subseteq Before
      /\ {"undo", "report", "returned", "ended"} \subseteq After /\ "final" \in During
  BY DEF Before, Asking, During, After
<1>2. ASSUME w.pc \in Before PROVE w.test.verdict = "none" /\ "verdict" \in DOMAIN w.test
  <2>1. PICK profile \in Profiles : w.test = [profile |-> profile, verdict |-> "none"]
    BY <1>2 DEF VerdictInv
  <2> QED BY <2>1
<1>3. w.pc \in During => w.test.verdict = "passed" /\ "verdict" \in DOMAIN w.test
  <2> SUFFICES ASSUME w.pc \in During PROVE w.test.verdict = "passed" /\ "verdict" \in DOMAIN w.test
    OBVIOUS
  <2>1. w.test \in Tests(w.test.cells, w.test.cached)
    BY DEF VerdictInv, TestInv
  <2> QED BY <2>1 DEF Tests
<1>4. w.pc = "final" => Holds(w.test.drive, RegionIndices(w.test.profile))
  BY <1>1 DEF VerdictInv, TestInv
<1>5. CASE w'.pc \in Before
  BY <1>1, <1>5 DEF VerdictInv, After
<1>6. CASE w.pc \in Before /\ w'.pc \notin Before
  BY <1>1, <1>2, <1>6 DEF VerdictInv
<1>7. CASE w.pc \in During
  BY <1>1, <1>3, <1>4, <1>7 DEF VerdictInv
<1>8. CASE w.pc \in After
  BY <1>1, <1>8 DEF VerdictInv
<1> QED BY <1>1, <1>5, <1>6, <1>7, <1>8 DEF VerdictInv
-----------------------------------------------------------------------------
(* The engine *)

\* The writer's record, when its stage and its test change.
LEMMA TestOf ==
  ASSUME Shape, NEW stage, NEW test,
         \/ w' = [w EXCEPT !.pc = stage, !.test = test]
         \/ w' = [w EXCEPT !.pc = stage, !.changed = @ \cup {w.fd}, !.test = test]
  PROVE  w'.pc = stage /\ w'.test = test /\ w'.mode = w.mode
<1>1. Named \subseteq DOMAIN w
  BY FieldsOf
<1> QED BY <1>1 DEF Named

\* A test that runs on.
LEMMA RunsOn ==
  ASSUME w'.pc \in During, TestInv(w.test, w.pc)'
  PROVE  VerdictInv'
<1>1. w'.pc \notin Before \cup Asking \cup After \cup {"undo", "report", "returned", "ended"}
  BY DEF Before, Asking, During, After
<1> QED BY <1>1 DEF VerdictInv

\* It begins with all regions, on whatever is in the cells.
LEMMA RunsTest ==
  ASSUME Shape, VerdictInv, QualifyRun
  PROVE  VerdictInv'
<1>1. w.mode = "qualify" /\ w.pc = "ready" /\ Named \subseteq DOMAIN w
  BY FieldsOf DEF QualifyRun, Qual, At
<1>2. PICK profile \in Profiles : w.test = [profile |-> profile, verdict |-> "none"]
  BY <1>1 DEF VerdictInv, Before
<1>3. PICK drive \in Drives, cells \in Leftovers :
        w' = [w EXCEPT !.pc = "write",
                       !.test = [profile |-> @.profile, verdict |-> "passed", pass |-> 1,
                                 left |-> RegionIndices(@.profile), drive |-> drive,
                                 cells |-> cells, cached |-> [a \in {} |-> None]]]
  BY Zenon DEF QualifyRun
<1> DEFINE left == RegionIndices(profile)
           cached == [a \in {} |-> None]
           test == [profile |-> profile, verdict |-> "passed", pass |-> 1, left |-> left,
                    drive |-> drive, cells |-> cells, cached |-> cached]
<1>4. w' = [w EXCEPT !.pc = "write", !.test = test]
  BY <1>2, <1>3
<1>5. left \in SUBSET Addresses /\ left # {} /\ 1 \in 1..4 /\ DOMAIN cached = {}
  BY RegionsIn
<1>6. 1 <= Len(DefaultPatterns(profile))
  BY PatternFacts
<1>7. \A c \in Addresses : \E p \in OldPatterns : cells[c] = <<p, c>>
  BY DEF Leftovers, OldPatterns
<1> HIDE DEF left, cached
<1>8. /\ test.profile = profile /\ test.pass = 1 /\ test.left = left
      /\ test.drive = drive /\ test.cells = cells /\ test.cached = cached
  OBVIOUS
<1>9. test \in Tests(cells, cached)
  BY <1>5, ZenonT(60) DEF Tests
<1> HIDE DEF test
<1>10. w'.pc = "write" /\ w'.test = test
  BY <1>1, <1>4, TestOf, Zenon
<1>11. WrittenInv(test, test.left)
  BY <1>5, <1>8 DEF WrittenInv, left
<1>12. TestInv(test, "write")
  BY <1>5, <1>6, <1>7, <1>8, <1>9, <1>11 DEF TestInv, CellsInv, left
<1>13. TestInv(w.test, w.pc)'
  BY <1>10, <1>12
<1> QED BY <1>10, <1>13, RunsOn DEF During

\* The lowest region that is left is written to the page cache.
LEMMA FillsTest ==
  ASSUME Shape, VerdictInv, WriteRegion
  PROVE  VerdictInv'
<1> DEFINE a == Lowest(w.test.left)
           cached == [b \in DOMAIN w.test.cached \cup {a} |->
                        IF b = a THEN Pattern(a) ELSE w.test.cached[b]]
           left == w.test.left \ {a}
           stage == IF left = {} THEN "sync" ELSE "write"
           all == RegionIndices(w.test.profile)
           test == [w.test EXCEPT !.cached = cached, !.left = left]
<1>1. w.mode = "qualify" /\ w.pc = "write"
  BY DEF WriteRegion, Qual, At
<1>2. TestInv(w.test, "write")
  BY <1>1 DEF VerdictInv, During
<1>3. /\ w.test \in Tests(w.test.cells, w.test.cached) /\ w.test.left \subseteq all
      /\ w.test.left # {} /\ WrittenInv(w.test, w.test.left)
  BY <1>2 DEF TestInv
<1>4. w.test.profile \in Profiles /\ all \subseteq Addresses /\ w.test.pass \in 1..4
  BY <1>3, TestFields, RegionsIn
<1>5. a \in w.test.left
  BY <1>3, <1>4, LowestIn DEF Addresses
<1>6. w' = [w EXCEPT !.pc = stage, !.changed = @ \cup {w.fd}, !.test.cached = cached,
                     !.test.left = left]
  BY DEF WriteRegion
<1>7. DOMAIN cached = all \ left /\ \A b \in all \ left : cached[b] = Filling(w.test, b)
  BY <1>3, <1>5 DEF WrittenInv, Pattern, Filling
<1>8. left \in SUBSET Addresses /\ left \subseteq all
  BY <1>3, <1>4
<1> HIDE DEF cached, left, all
<1>9. w' = [w EXCEPT !.pc = stage, !.changed = @ \cup {w.fd}, !.test = test]
  BY <1>6, FieldsOf DEF Named
<1>10. test = Again(w.test, w.test.pass, left, w.test.cells, cached)
  BY <1>3 DEF Tests, Again
<1> HIDE DEF test, stage
<1>11. /\ test \in Tests(test.cells, test.cached)
       /\ test.profile = w.test.profile /\ test.pass = w.test.pass /\ test.left = left
       /\ test.drive = w.test.drive /\ test.cells = w.test.cells /\ test.cached = cached
  BY <1>3, <1>4, <1>8, <1>10, TestAgain
<1>12. w'.pc = stage /\ w'.test = test
  BY <1>9, TestOf, Zenon
<1>13. WrittenInv(test, left)
  BY <1>7, <1>11 DEF WrittenInv, Filling, all
<1>14. stage \in {"write", "sync"} /\ (stage = "write" => left # {}) /\ (stage = "sync" => left = {})
  BY DEF stage
<1>15. TestInv(test, stage)
  BY <1>2, <1>8, <1>11, <1>13, <1>14 DEF TestInv, CellsInv, all
<1>16. TestInv(w.test, w.pc)'
  BY <1>12, <1>15
<1> QED BY <1>12, <1>14, <1>16, RunsOn DEF During
\* What is written back is in each cell that keeps it, of one of the regions stored there.
LEMMA SyncsTest ==
  ASSUME Shape, VerdictInv, SyncRegions
  PROVE  VerdictInv'
<1>1. w.mode = "qualify" /\ w.pc = "sync"
  BY DEF SyncRegions, Qual, At
<1> DEFINE all == RegionIndices(w.test.profile)
           none == [a \in {} |-> None]
           store == w.test.drive.store
           kept == w.test.drive.kept
<1>2. TestInv(w.test, "sync")
  BY <1>1 DEF VerdictInv, During
<1>3. /\ w.test \in Tests(w.test.cells, w.test.cached) /\ WrittenInv(w.test, {})
      /\ CellsInv(w.test)
  BY <1>2 DEF TestInv
<1>4. /\ w.test.profile \in Profiles /\ w.test.pass \in 1..4 /\ w.test.drive \in Drives
      /\ all \in SUBSET Addresses /\ all # {}
  BY <1>3, TestFields, RegionsIn
<1>5. PICK cells \in WrittenBack(w.test) :
        w' = [w EXCEPT !.pc = "verify", !.test.left = all, !.test.cells = cells,
                       !.test.cached = none]
  BY Zenon DEF SyncRegions
<1>6. PICK last \in [Addresses -> Addresses] :
        /\ \A c \in Addresses : last[c] \in IF Stored(w.test, c) = {} THEN {c} ELSE Stored(w.test, c)
        /\ cells = [c \in Addresses |-> IF Stored(w.test, c) = {} THEN w.test.cells[c]
                                        ELSE w.test.cached[last[c]]]
  BY DEF WrittenBack
<1>7. DOMAIN w.test.cached = all /\ \A a \in all : w.test.cached[a] = Filling(w.test, a)
  BY <1>3 DEF WrittenInv
<1>8. ASSUME NEW a \in all, store[a] \in kept
      PROVE  \E b \in all : store[b] = store[a] /\ cells[store[a]] = Filling(w.test, b)
  <2>1. a \in Addresses /\ store[a] \in Addresses
    BY <1>4, StoreIn
  <2>2. a \in Stored(w.test, store[a])
    BY <1>7, <1>8 DEF Stored
  <2>3. last[store[a]] \in Stored(w.test, store[a])
    BY <1>6, <2>1, <2>2
  <2>4. last[store[a]] \in all /\ store[last[store[a]]] = store[a]
    BY <1>7, <2>3 DEF Stored
  <2>5. cells[store[a]] = w.test.cached[last[store[a]]]
    BY <1>6, <2>1, <2>2
  <2> QED BY <1>7, <2>4, <2>5
<1>9. ASSUME NEW c \in Addresses, c \notin kept
      PROVE  \E p \in OldPatterns : cells[c] = <<p, c>>
  <2>1. Stored(w.test, c) = {}
    BY <1>9 DEF Stored
  <2> QED BY <1>3, <1>6, <1>9, <2>1 DEF CellsInv
<1> HIDE DEF none, all
<1> DEFINE test == [w.test EXCEPT !.left = all, !.cells = cells, !.cached = none]
<1>10. w' = [w EXCEPT !.pc = "verify", !.test = test]
  BY <1>5, FieldsOf DEF Named
<1>11. test = Again(w.test, w.test.pass, all, cells, none)
  BY <1>3 DEF Tests, Again
<1> HIDE DEF test
<1>12. /\ test \in Tests(test.cells, test.cached)
       /\ test.profile = w.test.profile /\ test.pass = w.test.pass /\ test.left = all
       /\ test.drive = w.test.drive /\ test.cells = cells /\ test.cached = none
  BY <1>3, <1>4, <1>11, TestAgain
<1>13. w'.pc = "verify" /\ w'.test = test
  BY <1>10, TestOf, Zenon
<1>14. SyncedInv(test)
  BY <1>8, <1>12 DEF SyncedInv, Filling, all, none
<1>15. CellsInv(test)
  BY <1>9, <1>12 DEF CellsInv
<1>16. TestInv(test, "verify")
  BY <1>2, <1>4, <1>12, <1>14, <1>15 DEF TestInv, all
<1>17. TestInv(w.test, w.pc)'
  BY <1>13, <1>16
<1> QED BY <1>13, <1>17, RunsOn DEF During

\* What is known when a region has been read back.
LEMMA ReadBack ==
  ASSUME VerdictInv, w.mode = "qualify", w.pc = "verify"
  PROVE  /\ TestInv(w.test, "verify") /\ w.test \in Tests(w.test.cells, w.test.cached)
         /\ w.test.profile \in Profiles /\ w.test.pass \in 1..4 /\ w.test.drive \in Drives
         /\ RegionIndices(w.test.profile) \in SUBSET Addresses
         /\ w.test.left \subseteq RegionIndices(w.test.profile)
         /\ Verifying \in w.test.left
         /\ Read(Verifying) = w.test.cells[w.test.drive.store[Verifying]]
         /\ Pattern(Verifying) = Filling(w.test, Verifying)
<1>1. TestInv(w.test, "verify")
  BY DEF VerdictInv, During
<1>2. /\ w.test \in Tests(w.test.cells, w.test.cached) /\ w.test.left # {}
      /\ w.test.left \subseteq RegionIndices(w.test.profile) /\ SyncedInv(w.test)
  BY <1>1 DEF TestInv
<1>3. /\ w.test.profile \in Profiles /\ w.test.pass \in 1..4 /\ w.test.drive \in Drives
      /\ RegionIndices(w.test.profile) \in SUBSET Addresses
  BY <1>2, TestFields, RegionsIn
<1>4. Verifying \in w.test.left
  <2> DEFINE first == w.test.left \cap SentinelIndices(w.test.profile)
             from == IF first = {} THEN w.test.left ELSE first
  <2>1. from \in SUBSET Nat /\ from # {} /\ from \subseteq w.test.left
    BY <1>2, <1>3 DEF Addresses
  <2>2. Verifying = Lowest(from)
    BY DEF Verifying
  <2> HIDE DEF from
  <2> QED BY <2>1, <2>2, LowestIn
<1>5. Read(Verifying) = w.test.cells[w.test.drive.store[Verifying]]
  BY <1>2 DEF Read, SyncedInv
<1> QED BY <1>1, <1>2, <1>3, <1>4, <1>5 DEF Pattern, Filling

\* The last region of a pass: each is in a cell of its own, which keeps it.
LEMMA PassDone ==
  ASSUME NEW test, TestInv(test, "verify"), NEW a, test.left = {a},
         test.cells[test.drive.store[a]] = Filling(test, a)
  PROVE  /\ Holds(test.drive, RegionIndices(test.profile))
         /\ \A b \in RegionIndices(test.profile) : test.drive.store[b] \in test.drive.kept
<1> DEFINE all == RegionIndices(test.profile)
           store == test.drive.store
<1>1. /\ test.profile \in Profiles /\ test.pass \in 1..4 /\ test.drive \in Drives
      /\ all \subseteq Addresses /\ SyncedInv(test) /\ CellsInv(test)
  BY TestFields, RegionsIn DEF TestInv
<1>2. \A b \in all : test.cells[store[b]] = Filling(test, b)
  BY <1>1 DEF SyncedInv
<1>3. ASSUME NEW b \in all, store[b] \notin test.drive.kept PROVE FALSE
  <2>1. store[b] \in Addresses
    BY <1>1, StoreIn
  <2>2. PICK p \in OldPatterns : test.cells[store[b]] = <<p, store[b]>>
    BY <1>1, <1>3, <2>1 DEF CellsInv
  <2>3. p = DefaultPatterns(test.profile)[test.pass]
    BY <1>2, <2>2 DEF Filling
  <2>4. test.pass = 1
    BY <1>1, <1>3 DEF TestInv
  <2> QED BY <1>1, <2>3, <2>4, PatternFacts
<1>4. ASSUME NEW b \in all, NEW c \in all, store[b] = store[c] PROVE b = c
  BY <1>2, <1>4 DEF Filling
<1> QED BY <1>3, <1>4 DEF Holds

\* A region that is read back is done with; after the last one comes the next pass.
LEMMA VerifiesTest ==
  ASSUME Shape, VerdictInv, VerifyRegion
  PROVE  VerdictInv'
<1>1. w.mode = "qualify" /\ w.pc = "verify" /\ Named \subseteq DOMAIN w
  BY FieldsOf DEF VerifyRegion, Qual, At
<1> DEFINE a == Verifying
           all == RegionIndices(w.test.profile)
           left == w.test.left \ {a}
           pass == w.test.pass + 1
           empty == {}
<1>2. /\ TestInv(w.test, "verify") /\ w.test \in Tests(w.test.cells, w.test.cached)
      /\ w.test.profile \in Profiles /\ w.test.pass \in 1..4
      /\ all \in SUBSET Addresses /\ all # {} /\ w.test.left \subseteq all
      /\ a \in w.test.left
      /\ w.test.cells[w.test.drive.store[a]] = Filling(w.test, a)
  BY <1>1, ReadBack, RegionsIn DEF VerifyRegion
<1>3. /\ SyncedInv(w.test) /\ CellsInv(w.test) /\ w.test.pass <= Len(DefaultPatterns(w.test.profile))
  BY <1>2 DEF TestInv
<1>4. Len(DefaultPatterns(w.test.profile)) \in 2..4
  BY <1>2, PatternFacts
<1>5. left \in SUBSET Addresses /\ empty \in SUBSET Addresses /\ left \subseteq all
  BY <1>2
<1>6. w.test.left = {a} =>
        /\ Holds(w.test.drive, all)
        /\ \A b \in all : w.test.drive.store[b] \in w.test.drive.kept
  BY <1>2, PassDone
<1>7. \/ w.test.left # {a} /\ w' = [w EXCEPT !.test.left = left]
      \/ /\ w.test.left = {a} /\ w.test.pass < Len(DefaultPatterns(w.test.profile))
         /\ w' = [w EXCEPT !.pc = "write", !.test.pass = pass, !.test.left = all]
      \/ w.test.left = {a} /\ w' = [w EXCEPT !.pc = "final", !.test.left = empty]
  BY <1>1 DEF VerifyRegion, Named
<1>8. CASE w.test.left # {a} /\ w' = [w EXCEPT !.test.left = left]
  <2> HIDE DEF left, all, a
  <2> DEFINE test == [w.test EXCEPT !.left = left]
  <2>1. w' = [w EXCEPT !.pc = "verify", !.test = test]
    BY <1>1, <1>8, FieldsOf DEF Shape, Writers
  <2>2. test = Again(w.test, w.test.pass, left, w.test.cells, w.test.cached)
    BY <1>2 DEF Tests, Again
  <2> HIDE DEF test
  <2>3. /\ test \in Tests(test.cells, test.cached)
        /\ test.profile = w.test.profile /\ test.pass = w.test.pass /\ test.left = left
        /\ test.drive = w.test.drive /\ test.cells = w.test.cells /\ test.cached = w.test.cached
    BY <1>2, <1>5, <2>2, TestAgain
  <2>4. w'.pc = "verify" /\ w'.test = test
    BY <2>1, TestOf, Zenon
  <2>5. SyncedInv(test)
    <3>1. \A b \in all : Filling(test, b) = Filling(w.test, b)
      BY <2>3 DEF Filling
    <3>2. \A b \in all \ left : w.test.cells[w.test.drive.store[b]] = Filling(w.test, b)
      BY <1>2, <1>3 DEF SyncedInv, left, all
    <3>3. \A b \in all : w.test.drive.store[b] \in w.test.drive.kept =>
            \E c \in all : /\ w.test.drive.store[c] = w.test.drive.store[b]
                         /\ w.test.cells[w.test.drive.store[b]] = Filling(w.test, c)
      BY <1>3 DEF SyncedInv, all
    <3>4. w.test.cached = [b \in {} |-> None]
      BY <1>3 DEF SyncedInv
    <3> QED BY <2>3, <3>1, <3>2, <3>3, <3>4 DEF SyncedInv, all
  <2>6. left # {}
    BY <1>2, <1>8 DEF left
  <2>7. TestInv(test, "verify")
    BY <1>2, <1>5, <2>3, <2>5, <2>6 DEF TestInv, CellsInv, all
  <2>8. TestInv(w.test, w.pc)'
    BY <2>4, <2>7
  <2> QED BY <2>4, <2>8, RunsOn DEF During
<1>9. CASE /\ w.test.left = {a} /\ w.test.pass < Len(DefaultPatterns(w.test.profile))
           /\ w' = [w EXCEPT !.pc = "write", !.test.pass = pass, !.test.left = all]
  <2>1. pass \in 1..4 /\ pass <= Len(DefaultPatterns(w.test.profile))
    <3>1. PICK k \in 1..4, n \in 2..4 : k = w.test.pass /\ n = Len(DefaultPatterns(w.test.profile))
      BY <1>2, <1>4
    <3>2. k < n
      BY <1>9, <3>1
    <3>3. pass = k + 1
      BY <3>1
    <3>4. k + 1 \in 1..4 /\ k + 1 <= n
      BY <3>2
    <3> HIDE DEF pass
    <3> QED BY <3>1, <3>3, <3>4
  <2> HIDE DEF pass, all, a
  <2> DEFINE test == [w.test EXCEPT !.pass = pass, !.left = all]
  <2>2. w' = [w EXCEPT !.pc = "write", !.test = test]
    BY <1>1, <1>9, FieldsOf DEF Shape, Writers
  <2>3. test = Again(w.test, pass, all, w.test.cells, w.test.cached)
    BY <1>2 DEF Tests, Again
  <2> HIDE DEF test
  <2>4. /\ test \in Tests(test.cells, test.cached)
        /\ test.profile = w.test.profile /\ test.pass = pass /\ test.left = all
        /\ test.drive = w.test.drive /\ test.cells = w.test.cells /\ test.cached = w.test.cached
    BY <1>2, <2>1, <2>3, TestAgain
  <2>5. w'.pc = "write" /\ w'.test = test
    BY <2>2, TestOf, Zenon
  <2>6. WrittenInv(test, all)
    BY <1>3, <2>4 DEF WrittenInv, SyncedInv, all
  <2>7. TestInv(test, "write")
    BY <1>2, <1>3, <1>6, <1>9, <2>1, <2>4, <2>6 DEF TestInv, CellsInv, all
  <2>8. TestInv(w.test, w.pc)'
    BY <2>5, <2>7
  <2> QED BY <2>5, <2>8, RunsOn DEF During
<1>10. CASE w.test.left = {a} /\ w' = [w EXCEPT !.pc = "final", !.test.left = empty]
  <2> HIDE DEF empty, all, a
  <2> DEFINE test == [w.test EXCEPT !.left = empty]
  <2>1. w' = [w EXCEPT !.pc = "final", !.test = test]
    BY <1>1, <1>10, FieldsOf DEF Shape, Writers
  <2>2. test = Again(w.test, w.test.pass, empty, w.test.cells, w.test.cached)
    BY <1>2 DEF Tests, Again
  <2> HIDE DEF test
  <2>3. /\ test \in Tests(test.cells, test.cached)
        /\ test.profile = w.test.profile /\ test.pass = w.test.pass /\ test.left = empty
        /\ test.drive = w.test.drive /\ test.cells = w.test.cells /\ test.cached = w.test.cached
    BY <1>2, <1>5, <2>2, TestAgain
  <2>4. w'.pc = "final" /\ w'.test = test
    BY <2>1, TestOf, Zenon
  <2>5. TestInv(test, "final")
    BY <1>2, <1>3, <1>6, <1>10, <2>3 DEF TestInv, CellsInv, all, empty
  <2>6. TestInv(w.test, w.pc)'
    BY <2>4, <2>5
  <2> QED BY <2>4, <2>6, RunsOn DEF During
<1> QED BY <1>7, <1>8, <1>9, <1>10
\* Something else is found where a region was written: another region's pattern
\* only where both are stored in one cell.
LEMMA MismatchTest ==
  ASSUME Shape, VerdictInv, Mismatch
  PROVE  VerdictInv'
<1>1. w.mode = "qualify" /\ w.pc = "verify" /\ Named \subseteq DOMAIN w
  BY FieldsOf DEF Mismatch, Qual, At
<1> DEFINE a == Verifying
           all == RegionIndices(w.test.profile)
           store == w.test.drive.store
           verdict == IF \E b \in all : Read(a) = Pattern(b) THEN "alias" ELSE "failed"
           test == [w.test EXCEPT !.verdict = verdict]
<1>2. /\ TestInv(w.test, "verify") /\ w.test \in Tests(w.test.cells, w.test.cached)
      /\ w.test.profile \in Profiles /\ w.test.pass \in 1..4 /\ w.test.drive \in Drives
      /\ all \in SUBSET Addresses /\ w.test.left \subseteq all /\ a \in w.test.left
      /\ Read(a) = w.test.cells[store[a]] /\ Pattern(a) = Filling(w.test, a)
      /\ Read(a) # Pattern(a)
  BY <1>1, ReadBack DEF Mismatch
<1>3. /\ SyncedInv(w.test) /\ CellsInv(w.test)
      /\ w.test.pass > 1 => \A b \in all : store[b] \in w.test.drive.kept
  BY <1>2 DEF TestInv
<1>4. ASSUME NEW b \in all, Read(a) = Pattern(b)
      PROVE  Aliased(w.test.drive)
  <2>1. w.test.cells[store[a]] = Filling(w.test, b) /\ a # b
    BY <1>2, <1>4 DEF Pattern, Filling
  <2>2. CASE store[a] \in w.test.drive.kept
    <3>1. PICK c \in all : store[c] = store[a] /\ w.test.cells[store[a]] = Filling(w.test, c)
      BY <1>2, <1>3, <2>2 DEF SyncedInv
    <3>2. b = c
      BY <2>1, <3>1 DEF Filling
    <3> QED BY <1>2, <2>1, <3>1, <3>2 DEF Aliased
  <2>3. CASE store[a] \notin w.test.drive.kept
    <3>1. w.test.pass = 1
      BY <1>2, <1>3, <2>3
    <3>2. PICK p \in OldPatterns : w.test.cells[store[a]] = <<p, store[a]>>
      BY <1>2, <1>3, <2>3, StoreIn DEF CellsInv
    <3>3. p = DefaultPatterns(w.test.profile)[w.test.pass]
      BY <2>1, <3>2 DEF Filling
    <3> QED BY <1>2, <3>1, <3>3, PatternFacts
  <2> QED BY <2>2, <2>3
<1>5. verdict \in {"alias", "failed"} /\ (verdict = "alias" => Aliased(w.test.drive))
  BY <1>4
<1>6. w' = [w EXCEPT !.pc = "undo", !.err = TRUE, !.test.verdict = verdict]
  BY DEF Mismatch
<1> HIDE DEF verdict
<1>7. w' = [w EXCEPT !.pc = "undo", !.err = TRUE, !.test = test]
  BY <1>6, FieldsOf DEF Named
<1>8. test.verdict = verdict /\ test.drive = w.test.drive /\ "verdict" \in DOMAIN test
  BY <1>2 DEF Tests
<1> HIDE DEF test
<1>9. w'.pc = "undo" /\ w'.err = TRUE /\ w'.test = test
  BY <1>1, <1>7 DEF Named
<1>10. "undo" \notin Before \cup Asking \cup During /\ "undo" \in After
  BY DEF Before, Asking, During, After
<1> QED BY <1>5, <1>8, <1>9, <1>10 DEF VerdictInv

\* A test that cannot go on has not passed, and finds no aliases.
LEMMA FailsTest ==
  ASSUME Shape, VerdictInv, NEW verdict \in {"failed", "cancelled"}, QualifyFail(verdict)
  PROVE  VerdictInv'
<1>1. w.mode = "qualify" /\ w.pc \in During /\ Named \subseteq DOMAIN w
  BY FieldsOf DEF QualifyFail, Qual, At, During
<1>2. w.test \in Tests(w.test.cells, w.test.cached)
  BY <1>1 DEF VerdictInv, TestInv
<1> DEFINE test == [w.test EXCEPT !.verdict = verdict]
<1>3. w' = [w EXCEPT !.pc = "undo", !.err = TRUE, !.test = test]
  BY <1>1 DEF QualifyFail, Named
<1>4. test.verdict = verdict /\ "verdict" \in DOMAIN test
  BY <1>2 DEF Tests
<1> HIDE DEF test
<1>5. w'.pc = "undo" /\ w'.err = TRUE /\ w'.test = test
  BY <1>1, <1>3 DEF Named
<1>6. "undo" \notin Before \cup Asking \cup During /\ "undo" \in After
  BY DEF Before, Asking, During, After
<1> QED BY <1>4, <1>5, <1>6 DEF VerdictInv

\* The report does not stay passed when something failed.
LEMMA ReportsTest ==
  ASSUME Shape, VerdictInv, FinishDeviceRun
  PROVE  VerdictInv'
<1>1. w.mode = "qualify" /\ w.pc = "report" /\ Named \subseteq DOMAIN w
  BY FieldsOf DEF FinishDeviceRun, Qual, At
<1> DEFINE verdict == IF w.err /\ w.test.verdict = "passed" THEN "failed" ELSE w.test.verdict
           test == [w.test EXCEPT !.verdict = verdict]
<1>2. w' = [w EXCEPT !.pc = "returned", !.test.verdict = verdict]
  BY DEF FinishDeviceRun
<1>3. /\ verdict = "passed" => ~w.err /\ w.test.verdict = "passed"
      /\ verdict = "alias" => w.test.verdict = "alias"
      /\ ~w.err => verdict = w.test.verdict
  OBVIOUS
<1>4. /\ ~w.err => w.test.verdict = "passed"
      /\ w.test.verdict = "passed" => w.err \/ Holds(w.test.drive, RegionIndices(w.test.profile))
      /\ w.test.verdict = "alias" => Aliased(w.test.drive)
      /\ "verdict" \in DOMAIN w.test
  BY <1>1 DEF VerdictInv, After
<1> HIDE DEF verdict
<1>5. w' = [w EXCEPT !.pc = "returned", !.test = test]
  BY <1>2, <1>1 DEF Named
<1>6. /\ test.drive = w.test.drive /\ test.profile = w.test.profile
      /\ test.verdict = verdict
  BY <1>4
<1> HIDE DEF test
<1>7. w'.pc = "returned" /\ w'.err = w.err /\ w'.test = test
  BY <1>1, <1>5 DEF Named
<1>8. "returned" \notin Before \cup Asking \cup During /\ "returned" \in After
  BY DEF Before, Asking, During, After
<1> QED BY <1>1, <1>3, <1>4, <1>6, <1>7, <1>8 DEF VerdictInv
-----------------------------------------------------------------------------
(* The other steps of the tool, and everybody else's *)

\* The steps of the tool around the engine.
LEMMA AroundTest ==
  ASSUME Shape, VerdictInv, SrcType,
         \/ QualifyDiscover \/ QualifyOpen \/ BeforeWrite \/ QualifyFinalCheck
         \/ QualifyRefuse \/ QualifyFinalFails \/ QualifyClose
  PROVE  VerdictInv'
<1>1. Named \subseteq DOMAIN w
  BY FieldsOf
<1>2. /\ {"discover", "confirm", "open", "before", "ready"} \subseteq Before \ Asking
      /\ {"ask", "ask-strict"} \subseteq Before
      /\ "final" \in During
  BY DEF Before, Asking, During
<1>3. CASE QualifyDiscover
  <2>1. w.mode = "qualify" /\ w'.mode = w.mode /\ w'.test = w.test /\ w.pc = "discover" /\ w'.pc = "confirm"
    BY <1>1, <1>3 DEF QualifyDiscover, Qual, At, Named
  <2> QED BY <1>2, <2>1, KeepsTest
<1>4. CASE QualifyOpen
  <2>1. w.mode = "qualify" /\ w'.mode = w.mode /\ w'.test = w.test /\ w.pc = "open" /\ w'.pc = "before"
    BY <1>1, <1>4 DEF QualifyOpen, OpenTarget, Qual, At, Named
  <2> QED BY <1>2, <2>1, KeepsTest
<1>5. CASE BeforeWrite
  <2>1. /\ w.mode = "qualify" /\ w'.mode = w.mode /\ w'.test = w.test /\ w.pc = "before"
        /\ w'.pc \in {"ask", "ask-strict"} /\ w'.ret = "ready"
    BY <1>1, <1>5 DEF BeforeWrite, Ask, Qual, At, Named
  <2> QED BY <1>2, <2>1, KeepsTest
<1>6. CASE QualifyFinalCheck
  <2>1. w.mode = "qualify" /\ w'.mode = w.mode /\ w'.test = w.test /\ w.pc = "final" /\ w'.pc = "undo"
    BY <1>1, <1>6 DEF QualifyFinalCheck, Pass, Goto, Qual, At, Named
  <2> QED BY <1>2, <2>1, KeepsTest
<1>7. CASE QualifyRefuse
  <2>1. /\ w.mode = "qualify" /\ w'.mode = w.mode /\ w'.test = w.test
        /\ w.pc \in {"open", "before", "ready"} /\ w'.pc = "undo" /\ w'.err
    BY <1>1, <1>7 DEF QualifyRefuse, Fail, FailTo, Named
  <2> QED BY <1>2, <2>1, KeepsTest
<1>8. CASE QualifyFinalFails
  <2>1. /\ w.mode = "qualify" /\ w'.mode = w.mode /\ w'.test = w.test
        /\ w.pc = "final" /\ w'.pc = "undo" /\ w'.err
    BY <1>1, <1>8 DEF QualifyFinalFails, Fail, FailTo, Named
  <2> QED BY <1>2, <2>1, KeepsTest
<1>9. CASE QualifyClose
  <2>1. PICK late \in BOOLEAN :
          w' = [w EXCEPT !.pc = "report", !.fd = None, !.err = @ \/ late]
    BY <1>9, Zenon DEF QualifyClose, CloseTarget
  <2>2. /\ w.mode = "qualify" /\ w'.mode = w.mode /\ w'.test = w.test /\ w.pc = "undo"
        /\ w'.pc = "report" /\ w'.err = (w.err \/ late)
    BY <1>1, <1>9, <2>1 DEF QualifyClose, Qual, At, Named
  <2>3. w'.err = w.err \/ w'.err
    BY <2>2 DEF Shape, Writers
  <2> QED BY <2>2, <2>3, KeepsTest
<1> QED BY <1>3, <1>4, <1>5, <1>6, <1>7, <1>8, <1>9

\* The steps that the tool shares with the commands.
LEMMA CommandOnTest ==
  ASSUME Shape, VerdictInv, CommandNext, w.mode = "qualify"
  PROVE  VerdictInv'
<1>1. Named \subseteq DOMAIN w
  BY FieldsOf
<1>2. /\ {"confirm", "revalidate", "unmount", "open", "ready"} \subseteq Before \ Asking
      /\ Asking \subseteq Before
      /\ w.pc \in Asking => w.ret = "ready"
      /\ w.pc \in Before \cup During \cup After
  BY DEF Before, Asking, VerdictInv
<1>3. w.pc \notin {"start", "options"}
  BY <1>2 DEF Before, Asking, During, After
<1>4. \/ DryRun \/ ConfirmDestructive \/ RevalidateSelected \/ UnmountSelected \/ TargetCheck
      \/ TargetCheckUnmount \/ TargetCheckMounts \/ TargetCheckFails \/ Refuse \/ Return
  BY <1>3, Zenon DEF CommandNext, Start, InspectSource, CliDiscover, HelperDiscover, ProbeInput,
     PreparePlain, PrepareHold, PrepareHash, PrepareDirectory, PrepareOpen, PrepareStream,
     PrepareZIP, PrepareExternalDecompress, PrepareVirtualDisk, Expanded, PrepareCheck,
     PrepareBind, InspectOpenFile, SelectWriteMode, ValidateOptions, Preparing, At
<1>5. CASE DryRun
  <2>1. /\ w'.mode = w.mode /\ w'.test = w.test /\ w.pc = "confirm" /\ w'.pc = "ended"
        /\ w'.status = "planned"
    BY <1>1, <1>5 DEF DryRun, End, Named
  <2> QED BY <1>2, <2>1, KeepsTest
<1>6. CASE ConfirmDestructive
  <2>1. w'.mode = w.mode /\ w'.test = w.test /\ w.pc = "confirm" /\ w'.pc = "revalidate"
    BY <1>1, <1>6 DEF ConfirmDestructive, Goto, Named
  <2> QED BY <1>2, <2>1, KeepsTest
<1>7. CASE RevalidateSelected
  <2>1. w'.mode = w.mode /\ w'.test = w.test /\ w.pc = "revalidate" /\ w'.pc = "unmount"
    BY <1>1, <1>7 DEF RevalidateSelected, Named
  <2> QED BY <1>2, <2>1, KeepsTest
<1>8. CASE UnmountSelected
  <2>1. w'.mode = w.mode /\ w'.test = w.test /\ w.pc = "unmount" /\ w'.pc = "open"
    BY <1>1, <1>8 DEF UnmountSelected, Named
  <2> QED BY <1>2, <2>1, KeepsTest
<1>9. CASE TargetCheck \/ TargetCheckUnmount
  <2>1. /\ w'.mode = w.mode /\ w'.test = w.test /\ w.pc \in Asking /\ w'.pc \in Asking
        /\ w'.ret = w.ret
    BY <1>1, <1>9 DEF TargetCheck, TargetCheckUnmount, Asking, Named
  <2> QED BY <1>2, <2>1, KeepsTest
<1>10. CASE TargetCheckMounts
  <2>1. w'.mode = w.mode /\ w'.test = w.test /\ w.pc \in Asking /\ w'.pc = w.ret
    BY <1>1, <1>10 DEF TargetCheckMounts, Asking, Named
  <2> QED BY <1>2, <2>1, KeepsTest
<1>11. CASE TargetCheckFails
  <2>1. w'.mode = w.mode /\ w'.test = w.test /\ w.pc \in Asking /\ w'.pc = "undo" /\ w'.err
    BY <1>1, <1>11 DEF TargetCheckFails, Asking, Named
  <2> QED BY <1>2, <2>1, KeepsTest
<1>12. CASE Refuse
  <2>1. w'.mode = w.mode /\ w'.test = w.test /\ w'.pc = "ended" /\ w'.status = "refused"
    BY <1>1, <1>12 DEF Refuse, Named
  <2>2. w.pc \in Before
    BY <1>2, <1>12 DEF Refuse, Before, During, After, Asking
  <2> QED BY <2>1, <2>2, KeepsTest
<1>13. CASE Return
  <2>1. w'.mode = w.mode /\ w'.test = w.test /\ w.pc = "returned" /\ w'.pc = "ended"
        /\ (w'.status = "ok" => ~w.err)
    <3>1. CASE w.err \/ w.mode = "raw"
      BY <1>1, <1>13, <3>1 DEF Return, End, Named
    <3>2. CASE ~(w.err \/ w.mode = "raw")
      BY <1>1, <1>13, <3>2 DEF Return, Named
    <3> QED BY <3>1, <3>2
  <2> QED BY <2>1, KeepsTest
<1> QED BY <1>4, <1>5, <1>6, <1>7, <1>8, <1>9, <1>10, <1>11, <1>12, <1>13
\* The mode stays.
ModeStays == w'.mode = w.mode

\* No step of MediaSession changes the mode.
LEMMA StepsKeepMode ==
  ASSUME Shape
  PROVE  /\ \A s : Pass(s) \/ Goto(s) => ModeStays
         /\ \A s : AcquireReadLease(s) \/ FinishLease(s) \/ HashFirst(s) => ModeStays
         /\ \A s, message : Recheck(s, message) => ModeStays
         /\ \A s : OpenTarget(s) \/ CloseTarget(s) \/ End(s) => ModeStays
         /\ \A s, contents : Change(s, contents) \/ CopyFiles(s, contents) => ModeStays
         /\ \A s : Wipe(s) \/ WriteTable(s) \/ MakeFilesystem(s) \/ Flush(s) => ModeStays
         /\ \A s : Reread(s) \/ WaitPartition(s) \/ UnmountPartition(s) => ModeStays
         /\ \A s : Observe(s) \/ Stage(s) \/ CleanWork(s) => ModeStays
         /\ \A m : MountShared(m) => ModeStays
         /\ \A m, s : MountOwn(m, s) \/ MountAlone(m, s) \/ UmountOwn(m, s) \/ CleanMount(m, s)
              => ModeStays
         /\ \A m, s, undo : MountUndo(m, s, undo) => ModeStays
         /\ \A strict, ret : Ask(strict, ret) => ModeStays
<1>1. "mode" \in DOMAIN w
  BY FieldsOf DEF Named
<1> USE <1>1 DEF ModeStays
<1>2. \A s : Pass(s) \/ Goto(s) => ModeStays
  BY DEF Pass, Goto
<1>3. \A s : AcquireReadLease(s) \/ FinishLease(s) \/ HashFirst(s) => ModeStays
  BY DEF AcquireReadLease, FinishLease, HashFirst
<1>4. \A s, message : Recheck(s, message) => ModeStays
  BY DEF Recheck, Goto
<1>5. \A s : OpenTarget(s) \/ CloseTarget(s) \/ End(s) => ModeStays
  BY Zenon DEF OpenTarget, CloseTarget, End
<1>6. \A s, contents : Change(s, contents) \/ CopyFiles(s, contents) => ModeStays
  BY DEF Change, CopyFiles
<1>7. \A s : Wipe(s) \/ WriteTable(s) \/ MakeFilesystem(s) \/ Flush(s) => ModeStays
  BY Zenon DEF Wipe, WriteTable, MakeFilesystem, Flush, Change
<1>8. \A s : Reread(s) \/ WaitPartition(s) \/ UnmountPartition(s) => ModeStays
  BY DEF Reread, WaitPartition, UnmountPartition, Goto
<1>9. \A s : Observe(s) \/ Stage(s) \/ CleanWork(s) => ModeStays
  BY DEF Observe, Stage, CleanWork, Goto
<1>10. \A m : MountShared(m) => ModeStays
  BY DEF MountShared
<1>11. \A m, s, undo : MountUndo(m, s, undo) => ModeStays
  BY DEF MountUndo
<1>12. \A m, s : MountOwn(m, s) \/ MountAlone(m, s) \/ UmountOwn(m, s) \/ CleanMount(m, s)
         => ModeStays
  BY <1>11 DEF MountOwn, MountAlone, UmountOwn, CleanMount, Goto
<1>13. \A strict, ret : Ask(strict, ret) => ModeStays
  BY DEF Ask
<1> QED BY <1>2, <1>3, <1>4, <1>5, <1>6, <1>7, <1>8, <1>9, <1>10, <1>11, <1>12, <1>13

\* Nor does a failure, which is one of the writer's own.
LEMMA FailuresKeepMode ==
  ASSUME Shape
  PROVE  /\ \A m, stages, undo : FailTo(m, stages, undo) \/ FailTornTo(m, stages, undo)
              => w.mode = m /\ ModeStays
         /\ \A m, stages : Fail(m, stages) \/ FailTorn(m, stages) => w.mode = m /\ ModeStays
<1>1. "mode" \in DOMAIN w
  BY FieldsOf DEF Named
<1>2. \A m, stages, undo : FailTo(m, stages, undo) \/ FailTornTo(m, stages, undo)
        => w.mode = m /\ ModeStays
  BY <1>1 DEF FailTo, FailTornTo, ModeStays
<1> QED BY <1>2 DEF Fail, FailTorn

\* The raw writer takes its own steps.
LEMMA RawMode ==
  ASSUME Shape, RawNext
  PROVE  w.mode = "raw" /\ ModeStays
<1>1. "mode" \in DOMAIN w
  BY FieldsOf DEF Named
<1> QED BY <1>1, StepsKeepMode, FailuresKeepMode DEF
       RawNext, RawOpen, RawHold, RawSnapshot, RawOpenTarget, RawBeforeWrite, RawFinalCheck,
       RawClearEdges, RawWriteFirst, RawWriteRest, RawSync, RawFail, RawFailWrite,
       RawCloseTarget, RawRelease, RawPostCheck, RawFlush, RawVerify, RawFinish, RawFailAfter,
       At, ModeStays

\* So does the Windows writer.
LEMMA WindowsMode ==
  ASSUME Shape, WindowsNext
  PROVE  w.mode = "windows" /\ ModeStays
<1>1. "mode" \in DOMAIN w
  BY FieldsOf DEF Named
<1> QED BY <1>1, StepsKeepMode, FailuresKeepMode DEF
       WindowsNext, WinHold, WinHash, WinOpenTarget, WinWorkspace, WinMountISO,
       InspectMountedISO, FindExistingSplitFiles, AnalyzeCapabilities, BindBIOSMetadata,
       ResolveWindowsLayout, ScanDBX, ValidateFATCompatibility, InspectWindowsCA2023Capability,
       StageWindowsCA2023, NoWindowsCA2023, InspectDriverFolder, PreparePlanAnswerFile,
       NoAnswerFile, FinalizePlan, TargetFits, PrepareSplitImage, WinRecheck,
       WinBeforeDestructive, VerifyWindowsCA2023Staging, WinWipe, WriteGPT, WriteMBR,
       VerifyGPTMetadata, WriteUEFINTFSPartitionImage, RereadPartitionTable, WaitForPartition,
       VerifyUEFINTFSPartition, UnmountDeviceMounts, ZeroPartition, QuickFormat,
       VerifyZeroPartition, WinFormat, ReadVolumeLabel, InstallLegacyBIOSBoot, NoLegacyBoot,
       WinUnmountAgain, WinMountUSB, CopyTree, CopyImage, ApplyWindowsCA2023, WinUmount,
       WinFlush, WinRemount, VerifyTree, VerifyStagedOnly, VerifyDirectory, VerifyWindowsCA2023,
       WinCheckFilesystem, WinRecheckCopied, WinUmountISO, WinFail, WinFailTorn, WinCleanUSB,
       WinCleanISO, WinCleanWork, FinishWindowsMediaFile, WinRelease, WithExclusiveMount, Win, At, ModeStays

\* And Windows To Go.
LEMMA ToGoMode ==
  ASSUME Shape, ToGoNext
  PROVE  w.mode = "windows-to-go" /\ ModeStays
<1>1. "mode" \in DOMAIN w
  BY FieldsOf DEF Named
<1> QED BY <1>1, StepsKeepMode, FailuresKeepMode DEF
       ToGoNext, ToGoHold, ToGoHash, ToGoOpenTarget, CreateSecureWorkDir, ToGoMountISO,
       VerifyReadOnlyLoopMount, InspectMountedInstallPayload, InspectWIMMetadata, BuildPlan,
       ResolveRequiredTools, LiveLogicalSectorSize, PreflightImage, ToGoRecheck, ReinspectImage,
       ToGoReview, ToGoErase, ToGoWipe, BuildGPT, ToGoWriteGPT, ToGoReread,
       ToGoWaitForPartition, UnmountAll, RequireUnmounted, FormatPartitions,
       NewTargetHealthMonitor, ToGoApply, RunWIMApply, ToGoFlushOS, MountPrivate,
       MaterializeRoots, CopyTreeBounded, CopyFallback, CompareFallback, CreateBCD, VerifyBCD,
       WriteAnswerFile, CompareBootManager, SyncFilesystem, ToGoUmountESP, ToGoUmountOS,
       ToGoFlush, ToGoRecheckApplied, ToGoRemount, CompareTreeBounded, VerifyMaterialization,
       VerifyBCDAgain, ToGoUmountVerified, VerifyFilesystemProbe, VerifyGPTOnDevice, ToGoFail,
       ToGoFailTorn, ToGoCleanESP, ToGoCleanOS, ToGoCleanISO, ToGoCleanWork, ToGoCloseTarget,
       ToGoRelease, ToGo, At, ModeStays

\* And the persistent one.
LEMMA LiveMode ==
  ASSUME Shape, PersistentNext
  PROVE  w.mode = "linux-persistent" /\ ModeStays
<1>1. "mode" \in DOMAIN w
  BY FieldsOf DEF Named
<1> QED BY <1>1, StepsKeepMode, FailuresKeepMode DEF
       PersistentNext, LiveHold, HashPersistentSource, PreparePersistentRuntimeIntegrity,
       LiveOpenTarget, LiveWorkspace, LiveMountISO, DetectPersistence, InspectTree,
       HashStableFile, PlanPersistentLayout, LiveRecheck, LiveReview, LiveErase, LiveWipe,
       WritePersistentGPT, PersistentRereadPartitionTable, WaitPersistentPartition,
       UnmountPersistentDeviceMounts, OpenPersistentPartition, LiveFormat, LiveUnmountAgain,
       LiveMountBoot, ValidateManifestForCopy, CopyEntry, CopyAndVerify, PatchBootTree,
       PatchBootConfig, PatchOneBootFile, DetectActivated, HashPersistentRuntimeFallback,
       WriteRecord, InstallPersistentRuntimeIntegrity, NoRuntimeIntegrity, LiveUmountBoot,
       LiveFlushBoot, VerifyPersistentPartitionFile, VerifyPersistentPartitionGeometry,
       ValidateFilesystemPlan, VerifyPersistencePartition, FormatPersistence, MountPersistence,
       InitializePersistenceRoot, UmountPersistence, LiveFailPersistence, CleanPersistence,
       LiveRecheckCopied, LiveFlush, LiveUmountISO, LiveFail, LiveFailTorn, LiveCleanBoot,
       LiveCleanISO, LiveCleanWork, FinishPersistentFile, LiveRelease, EmitPersistentCompletion,
       Live, At, ModeStays

\* The FreeDOS tool is not the qualification.
LEMMA FreeMode ==
  ASSUME Shape, FreeDOSNext
  PROVE  w'.mode # "qualify"
<1>1. "mode" \in DOMAIN w
  BY FieldsOf DEF Named
<1>2. ASSUME NEW noUnmount \in BOOLEAN, FreeStart(noUnmount)
      PROVE  w'.mode # "qualify"
  BY <1>1, <1>2 DEF FreeStart
<1>3. FreeDiscover \/ BuildDevicePlan \/ FreeBegin => w.mode = "freedos" /\ ModeStays
  BY <1>1 DEF FreeDiscover, BuildDevicePlan, FreeBegin, Free, At, ModeStays
<1>4. FinishExecutionReport => w.mode = "freedos" /\ ModeStays
  BY <1>1 DEF FinishExecutionReport, Free, At, ModeStays
<1>5. WriteHead \/ WriteMediaExtents \/ VerifyMediaExtents => w.mode = "freedos" /\ ModeStays
  BY <1>1 DEF WriteHead, WriteMediaExtents, VerifyMediaExtents, Change, Pass, Goto, Free, At,
              ModeStays
<1>6. FreeOpenTarget \/ FreePrepare \/ FreeBeforeDestructive \/ FreeFlush \/ FreeFinish
      \/ FreeSync \/ FreeClose => w.mode = "freedos" /\ ModeStays
  BY StepsKeepMode DEF FreeOpenTarget, FreePrepare, FreeBeforeDestructive, FreeFlush, FreeFinish,
                       FreeSync, FreeClose, Free, At
<1>7. FreeFail \/ FreeFailTorn => w.mode = "freedos" /\ ModeStays
  BY FailuresKeepMode DEF FreeFail, FreeFailTorn
<1> QED BY <1>2, <1>3, <1>4, <1>5, <1>6, <1>7 DEF FreeDOSNext, ModeStays

\* Nor are the writers of extracted media, nor the choice between them.
LEMMA ExtractedMode ==
  ASSUME Shape, ExtractedNext
  PROVE  w'.mode # "qualify"
<1>1. "mode" \in DOMAIN w
  BY FieldsOf DEF Named
<1>2. ASSUME NEW m \in Chosen, SelectDone(m)
      PROVE  w'.mode # "qualify"
  <2>1. CASE w.err \/ ~LeaseIntact
    BY <1>1, <1>2, <2>1 DEF SelectDone, Dispatch, At, Chosen
  <2>2. CASE ~(w.err \/ ~LeaseIntact)
    BY <1>1, <1>2, <2>2 DEF SelectDone, Dispatch, At, Chosen
  <2> QED BY <2>1, <2>2
<1>3. SelectRemove \/ SelectFail => w.mode = "extracted" /\ ModeStays
  BY <1>1, FailuresKeepMode DEF SelectRemove, SelectFail, Dispatch, At, ModeStays
<1>4. SelectionNext => w'.mode # "qualify"
  BY <1>1, <1>2, <1>3, StepsKeepMode, FailuresKeepMode DEF
         SelectionNext, RequestFilesystem, SelectHold, SelectMount, ResolveExtractedFilesystem,
         SelectUmount, Dispatch, At, Chosen, ModeStays
<1>5. ManifestNext => w'.mode # "qualify"
  BY <1>1, StepsKeepMode, FailuresKeepMode DEF
         ManifestNext, PrepareExtractedManifest, NoOverlay, PlanElToritoUEFIImage,
         ExtractElToritoUEFIImage, MountOverlay, VerifyReadOnlyLoopFilesystemMount,
         MergeManifestOverlay, ManifestSourcePathAllowed, CloseOverlay, Chosen, Iso, ModeStays
<1>6. FatNext => w'.mode # "qualify"
  BY <1>1, StepsKeepMode, FailuresKeepMode DEF
         FatNext, FatHold, FatHash, AcquireExtractedTargetLock, FatWorkspace, FatMountISO,
         EstimateFAT32BytesForCluster, PlanExtractedLayoutForScheme,
         ValidateExtractedFAT32Capacity, FatRecheck, FatReview, FatErase, FatWipe,
         WriteExtractedMBR, WriteExtractedGPT, VerifyExtractedGPT, FatReread, FatPartition,
         FatUnmount, FatBind, FatFormat, FatUnmountAgain, FatMountUSB, FatCopy, FatCopyRest,
         FatUmountUSB, FatFlush, FatCheckFilesystem, FatBound, FatRecheckCopied, FatFlushDisk,
         FatUmountISO, FatComplete, FatCleanUSB, FatCleanISO, FatCleanWork, FatClose,
         FatRelease, Fat, CopyManifestFirst, CopyManifestRest, At, ModeStays
<1>7. NtfsNext => w'.mode # "qualify"
  BY <1>1, StepsKeepMode, FailuresKeepMode DEF
         NtfsNext, NtfsHold, NtfsHash, NtfsOpenTarget, NtfsWorkspace, NtfsMountISO,
         PlanExtractedMedia, Locate, OpenVerifiedAsset, PlanLayoutForProfile, NtfsRecheck,
         NtfsReview, NtfsErase, NtfsWipe, WriteMBRLayout, WriteGPTLayout, WriteAndVerify,
         NtfsReread, NtfsPartition, NtfsUnmount, VerifyPartitionPath, NtfsBind, NtfsFormat,
         NtfsUnmountAgain, NtfsMountUSB, NtfsCopy, NtfsCopyRest, NtfsUmountUSB, NtfsFlush,
         NtfsCheckFilesystem, NtfsBound, NtfsRecheckCopied, NtfsFlushDisk, NtfsUmountISO,
         NtfsComplete, NtfsCleanUSB, NtfsCleanISO, NtfsCleanWork, NtfsClose, NtfsRelease, Ntfs,
         CopyManifestFirst, CopyManifestRest, At, ModeStays
<1>8. IsoFail \/ IsoFailTorn => w'.mode # "qualify"
  BY <1>1, FailuresKeepMode DEF IsoFail, IsoFailTorn, Chosen, ModeStays
<1> QED BY <1>4, <1>5, <1>6, <1>7, <1>8 DEF ExtractedNext

\* The commands do not become the tool.
LEMMA CommandMode ==
  ASSUME Shape, CommandNext, w.mode # "qualify"
  PROVE  w'.mode # "qualify"
<1>1. "mode" \in DOMAIN w
  BY FieldsOf DEF Named
<1> QED BY <1>1, StepsKeepMode, FailuresKeepMode, Zenon DEF
       CommandNext, Start, InspectSource, CliDiscover, HelperDiscover, ProbeInput, PreparePlain,
       PrepareHold, PrepareHash, PrepareDirectory, PrepareOpen, PrepareStream, PrepareZIP,
       PrepareExternalDecompress, PrepareVirtualDisk, PrepareCheck, PrepareBind,
       InspectOpenFile, SelectWriteMode, ValidateOptions, DryRun, ConfirmDestructive,
       RevalidateSelected, UnmountSelected, TargetCheck, TargetCheckUnmount, TargetCheckMounts,
       TargetCheckFails, Refuse, Return, At, Preparing, Expanded, ModeStays
\* Every step keeps it.
LEMMA VerdictNext ==
  ASSUME Inv, VerdictInv, [Next]_session
  PROVE  VerdictInv'
<1>1. Shape /\ SrcType
  BY DEF Inv
<1>2. CASE w' = w
  BY <1>2 DEF VerdictInv
<1>3. CASE Others \/ Stopped \/ UNCHANGED session
  <2>1. w' = w
    BY <1>3, Zenon DEF Others, EditSource, OpenForWriting, AttachDisk, UnplugDisk, MountDisk, RescanDisk,
                Stopped, session
  <2> QED BY <2>1, <1>2
<1>4. CASE CommandNext
  <2>1. CASE w.mode = "qualify"
    BY <1>1, <1>4, <2>1, CommandOnTest
  <2>2. CASE w.mode # "qualify"
    BY <1>1, <1>4, <2>2, CommandMode DEF VerdictInv
  <2> QED BY <2>1, <2>2
<1>5. CASE RawNext \/ WindowsNext \/ ToGoNext \/ PersistentNext \/ ExtractedNext \/ FreeDOSNext
  <2>1. w'.mode # "qualify"
    BY <1>1, <1>5, RawMode, WindowsMode, ToGoMode, LiveMode, ExtractedMode, FreeMode DEF ModeStays
  <2> QED BY <2>1 DEF VerdictInv
<1>6. CASE QualifyNext
  BY <1>1, <1>6, StartsTest, AroundTest, RunsTest, FillsTest, SyncsTest, VerifiesTest,
     MismatchTest, FailsTest, ReportsTest DEF QualifyNext, Profiles
<1> QED BY <1>3, <1>4, <1>5, <1>6 DEF Next

\* A drive that passes keeps each tested region on its own, and aliases are
\* reported only of a drive that has them, whatever is left on it and in
\* whatever order the page cache is written back.
THEOREM VerdictTrueHolds == Spec => []VerdictTrue
<1>1. SessionInit => VerdictInv
  BY DEF SessionInit, Idle, VerdictInv
<1>2. Inv /\ VerdictInv /\ [Next]_session => VerdictInv'
  BY VerdictNext
<1>3. VerdictInv => VerdictTrue
  BY DEF VerdictInv, VerdictTrue, After, Aliased
<1>4. Spec => []VerdictInv
  BY <1>1, <1>2, InvAlways, PTL DEF Spec
<1> QED BY <1>3, <1>4, PTL

-----------------------------------------------------------------------------
(* The FreeDOS layout.  A disk size that is accepted as a plan never fails *)
(* later, when its extents are laid out: the checks at the end of          *)
(* plannedMediaExtents hold for every size.  Each cluster size is a case   *)
(* of its own, in which the arithmetic is linear.                          *)

\* The sizes of a cluster, in sectors.
ClusterSizes == {1, 2, 4, 8, 16, 32, 64}

\* The size table knows seven cluster sizes, and refuses every other disk.
LEMMA ClusterChoice ==
  ASSUME NEW total \in Nat
  PROVE  DefaultClusterSectors(total) \in ClusterSizes \cup {0}
BY DEF DefaultClusterSectors, ClusterSizes, MiB

\* Rounding up to the alignment of the data loses nothing.
LEMMA Aligned ==
  ASSUME NEW value \in Nat
  PROVE  RoundUp(value, DataAlignment) \in Nat /\ RoundUp(value, DataAlignment) >= value
BY DEF RoundUp, DataAlignment

\* Both FATs with at least 32 sectors before them end where the data begins.
LEMMA Geometry ==
  ASSUME NEW total \in Nat, NEW cluster \in ClusterSizes
  PROVE  LET geometry == ExpectedMediaGeometry(total, cluster)
         IN  /\ geometry.fat \in Nat
             /\ geometry.system \in Nat
             /\ geometry.reserved = geometry.system - 2 * geometry.fat
             /\ geometry.reserved \in Nat
             /\ geometry.reserved >= 32
             /\ geometry.clusters = (total - geometry.system) \div cluster
<1> DEFINE fat == (total + 2 * cluster) \div (cluster * 128 + FATCount) + 1
<1>1. fat \in Nat
  BY DEF ClusterSizes, FATCount
<1>2. RoundUp(32 + FATCount * fat, DataAlignment) \in Nat
      /\ RoundUp(32 + FATCount * fat, DataAlignment) >= 32 + 2 * fat
  <2> HIDE DEF fat
  <2> QED BY <1>1, Aligned DEF FATCount
<1> QED BY <1>1, <1>2 DEF ExpectedMediaGeometry, FATCount

\* The two files fill whole clusters, and all that is allocated needs fewer
\* clusters than the smallest plan has.
LEMMA Files ==
  ASSUME NEW cluster \in ClusterSizes
  PROVE  LET bytes == cluster * SectorSize
             command == ClustersForSize(CommandSize, bytes)
             kernel == ClustersForSize(KernelSize, bytes)
         IN  /\ command \in Nat /\ kernel \in Nat
             /\ command * bytes >= CommandSize
             /\ kernel * bytes >= KernelSize
             /\ AllocatedEnd(command, kernel) < 300
BY DEF ClusterSizes, SectorSize, ClustersForSize, CommandSize, KernelSize, AllocatedEnd

\* The clusters of an accepted plan end within its partition.
LEMMA ClustersFit ==
  ASSUME NEW room \in Nat, NEW cluster \in ClusterSizes, NEW count \in Nat,
         count <= room \div cluster
  PROVE  count * cluster <= room
BY DEF ClusterSizes

\* Whatever disk is accepted, its extents are on the disk, in order, without an
\* overlap, and leave the free data space alone: plannedMediaExtents refuses
\* none of the plans that ValidateMediaPlan accepts.
THEOREM ExtentsSound ==
  \A diskSectors \in Nat : MediaPlanAccepted(diskSectors) => ExtentsAccepted(diskSectors)
<1> SUFFICES ASSUME NEW diskSectors \in Nat, MediaPlanAccepted(diskSectors)
             PROVE  ExtentsAccepted(diskSectors)
  OBVIOUS
<1> DEFINE total == diskSectors - 2 * PartitionStart
           cluster == DefaultClusterSectors(total)
           geometry == ExpectedMediaGeometry(total, cluster)
           fat == geometry.fat
           system == geometry.system
           reserved == geometry.reserved
           clusterBytes == cluster * SectorSize
           command == ClustersForSize(CommandSize, clusterBytes)
           kernel == ClustersForSize(KernelSize, clusterBytes)
<1>1. /\ total \in Nat
      /\ diskSectors = total + 4096
      /\ cluster \in ClusterSizes
      /\ system < total
      /\ geometry.clusters >= 65536
      /\ fat * 128 >= geometry.clusters + 2
  <2>1. total \in Nat /\ diskSectors = total + 4096
    BY DEF MediaPlanAccepted, PartitionStart
  <2>2. cluster \in ClusterSizes
    BY <2>1, ClusterChoice DEF MediaPlanAccepted
  <2> QED BY <2>1, <2>2 DEF MediaPlanAccepted, MinimumClusters
<1>2. /\ fat \in Nat /\ system \in Nat /\ reserved \in Nat
      /\ reserved = system - 2 * fat
      /\ reserved >= 32
      /\ geometry.clusters = (total - system) \div cluster
  BY <1>1, Geometry
<1>3. 65536 * cluster <= total - system
  <2>1. total - system \in Nat /\ geometry.clusters \in Nat
    BY <1>1, <1>2 DEF ClusterSizes
  <2> QED BY <1>1, <1>2, <2>1, ClustersFit
<1>4. fat >= 513
  BY <1>1, <1>2 DEF ClusterSizes
<1>5. /\ command \in Nat /\ kernel \in Nat
      /\ command * clusterBytes >= CommandSize
      /\ kernel * clusterBytes >= KernelSize
      /\ AllocatedEnd(command, kernel) < 300
  BY <1>1, Files
<1> DEFINE extents == PlannedMediaExtents(diskSectors)
           clusters == command * clusterBytes
           files == clusters + kernel * clusterBytes
           fat1 == 1048576 + 512 * reserved
           root == 1048576 + 512 * system
           prefix == 4 * AllocatedEnd(command, kernel)
\* Where the extents are, in bytes.
<1>6. /\ extents[1] = [from |-> 0, to |-> 512]
      /\ extents[2] = [from |-> 512, to |-> 1048576]
      /\ extents[3] = [from |-> 1048576, to |-> 1048576 + 4608]
      /\ extents[4] = [from |-> 1048576 + 4608, to |-> fat1]
      /\ extents[5] = [from |-> fat1, to |-> fat1 + prefix]
      /\ extents[6] = [from |-> fat1 + prefix, to |-> fat1 + 512 * fat]
      /\ extents[7] = [from |-> fat1 + 512 * fat, to |-> fat1 + 512 * fat + prefix]
      /\ extents[8] = [from |-> fat1 + 512 * fat + prefix, to |-> fat1 + 1024 * fat]
      /\ extents[9] = [from |-> root, to |-> root + clusterBytes]
      /\ extents[10] = [from |-> root + clusterBytes,
                        to |-> root + clusterBytes + CommandSize]
      /\ extents[11] = [from |-> root + clusterBytes + CommandSize,
                        to |-> root + clusterBytes + clusters]
      /\ extents[12] = [from |-> root + clusterBytes + clusters,
                        to |-> root + clusterBytes + clusters + KernelSize]
      /\ extents[13] = [from |-> root + clusterBytes + clusters + KernelSize,
                        to |-> root + clusterBytes + files]
      /\ extents[14] = [from |-> 1048576 + 512 * total, to |-> 512 * diskSectors]
  <2> DEFINE other == kernel * clusterBytes
             start == PartitionStart * SectorSize
             first == start + reserved * SectorSize
             second == first + fat * SectorSize
             data == start + system * SectorSize
             shell == data + clusterBytes
             end == start + total * SectorSize
  <2>1. extents =
          << [from |-> 0, to |-> SectorSize],
             [from |-> SectorSize, to |-> start],
             [from |-> start, to |-> start + BootBytes],
             [from |-> start + BootBytes, to |-> first],
             [from |-> first, to |-> first + prefix],
             [from |-> first + prefix, to |-> second],
             [from |-> second, to |-> second + prefix],
             [from |-> second + prefix, to |-> second + fat * SectorSize],
             [from |-> data, to |-> data + clusterBytes],
             [from |-> shell, to |-> shell + CommandSize],
             [from |-> shell + CommandSize, to |-> shell + clusters],
             [from |-> shell + clusters, to |-> shell + clusters + KernelSize],
             [from |-> shell + clusters + KernelSize, to |-> shell + clusters + other],
             [from |-> end, to |-> diskSectors * SectorSize] >>
    BY ZenonT(60) DEF PlannedMediaExtents
  <2>2. clusterBytes \in Nat /\ clusters \in Nat /\ other \in Nat /\ prefix \in Nat
    BY <1>1, <1>5 DEF ClusterSizes, SectorSize, AllocatedEnd
  <2>3. files = clusters + other
    OBVIOUS
  <2> HIDE DEF total, cluster, geometry, fat, system, reserved, clusterBytes, command, kernel,
               extents, clusters, files, prefix, other
  <2>4. /\ start = 1048576 /\ first = fat1 /\ second = fat1 + 512 * fat
        /\ second + fat * SectorSize = fat1 + 1024 * fat
        /\ data = root /\ shell = root + clusterBytes
        /\ shell + clusters + other = root + clusterBytes + files
        /\ end = 1048576 + 512 * total
        /\ diskSectors * SectorSize = 512 * diskSectors
    BY <1>1, <1>2, <2>2, <2>3 DEF PartitionStart, SectorSize
  <2>5. SectorSize = 512 /\ BootBytes = 4608
    BY DEF SectorSize, BootBytes
  <2> HIDE DEF start, first, second, data, shell, end, fat1, root
  <2> QED BY <2>1, <2>4, <2>5
<1>7. /\ clusterBytes \in Nat
      /\ clusters \in Nat /\ clusters >= CommandSize
      /\ files \in Nat /\ files >= clusters + KernelSize
      /\ prefix \in Nat /\ prefix < 1200
      /\ clusterBytes + files < 65536 * clusterBytes
      /\ 65536 * clusterBytes <= 512 * (total - system)
  BY <1>1, <1>2, <1>3, <1>5
     DEF ClusterSizes, SectorSize, AllocatedEnd, CommandSize, KernelSize
<1> HIDE DEF total, cluster, geometry, fat, system, reserved, clusterBytes, command, kernel,
             extents, clusters, files, prefix
<1>8. /\ \A i \in 1..14 : extents[i].from <= extents[i].to
      /\ \A i \in 1..13 : extents[i].to <= extents[i + 1].from
      /\ extents[14].to <= diskSectors * SectorSize
      /\ extents[13].to < extents[14].from
  BY <1>1, <1>2, <1>4, <1>6, <1>7 DEF SectorSize, CommandSize, KernelSize
<1> QED
  BY <1>8 DEF ExtentsAccepted, extents
================================================================================

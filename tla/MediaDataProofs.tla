---------------------------- MODULE MediaDataProofs ----------------------------
(***************************************************************************)
(* One source: that what a command announces as done is one version of the *)
(* image, although it may change while it is read.  As long as nobody      *)
(* could have changed it since it was hashed (Steady), everything read,    *)
(* put aside or copied is the hashed version; the last look at the image   *)
(* says that it is so, and from then on the target alone matters.          *)
(*                                                                         *)
(* The inductive invariant, DataInv, rests on Inv of MediaWritersProofs.   *)
(* Each stage of each writer has a level: what has been done to the data   *)
(* by then.  Each kind of step is shown once to keep the invariant from    *)
(* level to level; the proofs about writers are walks through their        *)
(* stages.                                                                 *)
(***************************************************************************)
EXTENDS MediaWritersProofs

-----------------------------------------------------------------------------
(* Levels of the data, and the invariant *)

\* The table is on the target, but no filesystem.
TabledStages ==
  {"table-check", "verify-table", "boot", "reread", "partition", "boot-check", "unmount-new",
   "require", "bind", "zero", "format"}

\* The filesystem is there, and empty.
FormattedStages(m) ==
  IF m = "windows-to-go" THEN {"health", "apply"}
  ELSE {"label", "legacy", "unmount-again", "mount-usb", "mount-boot", "validate", "copy"}

\* Files have been copied to it.
CopiedStages(m) ==
  IF m = "raw" THEN {"write-rest", "sync"}
  ELSE IF m = "windows" THEN {"copy-image", "apply", "sync", "flush"}
  ELSE IF m = "windows-to-go" THEN {"applying", "flush-os"}
  ELSE IF m = "linux-persistent"
  THEN {"copy-rest", "compare", "patch", "patch-config", "patch-file", "activated", "fallback",
        "record", "integrity", "umount-boot", "flush-boot"}
  ELSE IF m = "freedos" THEN {"flush"}
  ELSE {"copy-rest", "umount-usb", "flush"}

\* They have reached the medium.
FlushedStages(m) ==
  IF m = "windows"
  THEN {"remount", "verify", "verify-drivers", "verify-staged", "fsck", "recheck-copied"}
  ELSE IF m = "windows-to-go"
  THEN {"mount-os", "mount-esp", "materialize", "copy-boot", "fallback", "fallback-check", "bcd",
        "bcd-check", "answer", "same-boot", "sync", "umount-esp", "umount-os", "flush",
        "recheck-applied"}
  ELSE IF m = "linux-persistent"
  THEN {"bound", "persist-bind", "persist-plan", "persist-open", "persist-format",
        "persist-mount", "persist-root", "persist-umount", "recheck-copied"}
  ELSE IF m = "freedos" THEN {"readback"}
  ELSE {"check-fs", "bound", "boot-again", "recheck-copied"}

\* The image has been looked at for the last time.
SettledStages(m) ==
  IF m = "raw" THEN {"flush", "verify", "finish"}
  ELSE IF m = "windows" THEN {"umount-iso"}
  ELSE IF m = "windows-to-go"
  THEN {"remount-os", "remount-esp", "verify", "verify-answer", "verify-bcd", "umount-verified",
        "probe", "gpt"}
  ELSE IF m = "linux-persistent" THEN {"flush", "umount-iso"}
  ELSE IF m = "freedos" THEN {"finish", "finished"}
  ELSE {"flush-disk", "umount-iso", "complete"}

\* The image has not been hashed, nor the disk of FreeDOS planned.
UnreadStages(m) ==
  IF m = "freedos" THEN {"discover", "mode"}
  ELSE {"options", "confirm", "revalidate", "unmount", "open", "lease", "hash"}

\* How far a writer has come at a stage.
Level(m, s) ==
  IF m = "qualify" \/ s = "ended" THEN "free"
  ELSE IF m \in {"none", "extracted"} /\ s \notin ClosedStages THEN "unread"
  ELSE IF s \in ClosingStages \cup ClosedStages \cup SettledStages(m) THEN "settled"
  ELSE IF s \in FlushedStages(m) THEN "flushed"
  ELSE IF s \in CopiedStages(m) THEN "copied"
  ELSE IF m = "raw" THEN (IF s \in UnreadStages(m) THEN "unread" ELSE "read")
  ELSE IF s \in FormattedStages(m) THEN "formatted"
  ELSE IF s \in TabledStages \/ (m = "freedos" /\ s = "write-rest") THEN "tabled"
  ELSE IF s \in UnreadStages(m) THEN "unread"
  ELSE "read"

\* The level of the writer.
Reached == Level(w.mode, Place)
\* The levels between hash and last look.
Hashed == {"read", "tabled", "formatted", "copied", "flushed"}
\* Those at which the target is written.
OnTarget == {"tabled", "formatted", "copied", "flushed"}

\* The stages at which a container is read.
Reading == {"prepare-dir", "prepare-read", "prepare-rest", "prepare-check"}
\* The stages of preparing a container.
Containers == {"prepare-hash", "prepare-bind"} \cup Reading
\* Those, and the stages before.
Unprepared == {"start", "source", "discover", "prepare", "probed"} \cup Containers

\* Nothing has been able to change the image since it was hashed.
Steady ==
  \/ w.mode = "freedos"
  \/ w.private
  \/ IF w.held = "lease" THEN src.lease = "held"
     ELSE src.mtime = w.pin.mtime /\ src.ver = w.digest

\* A hash taken under the pinned modification time is of bytes the image had under it.
Traced == src.mtime = w.pin.mtime => w.digest \in src.past

\* A raw writer reads the medium when everything else has been done.
ToVerify == w.mode = "raw" /\ w.verify /\ Place # "finish" /\ w.status = "none"

\* The target holds the hashed image, and so does its medium.
Kept ==
  \A a \in w.changed :
    /\ cache[a.disk] = media[a.disk]
    /\ media[a.disk].table = "plan"
    /\ media[a.disk].fs = w.digest \/ (w.flawed /\ (w.verify => ToVerify))

\* What is digested by a command that is past its hash.
Images == Versions \cup {"plan"}

\* Times only grow, and the bytes are among those of the present one.
HistoryInv ==
  /\ src.ver \in src.past
  /\ src.mtime <= src.ctime
  /\ w.pin.mtime <= src.ctime

\* A container that is expanded while nobody changes it is one version.
PreparedInv ==
  /\ w.private => w.image \in Versions
  /\ w.pc \in Unprepared => ~w.private
  /\ w.pc \in Reading /\ w.held # "lease" => Traced
  /\ w.mode = "none" /\ w.pc \in {"prepare-rest", "prepare-check"} /\ Steady =>
       w.image = src.ver
  /\ w.pc = "prepare-bind" => w.image \in Versions
  /\ w.verify => w.mode \in {"raw", "windows", "freedos", "qualify"}

\* A raw writer, which looks at the medium last of all, at whatever disk is
\* there then, has changed no other.
UntouchedInv ==
  /\ w.mode \in {"none", "raw"} =>
       \A d \in Disks :
         (\A a \in w.changed : a.disk # d) =>
            cache[d] = [table |-> "old", fs |-> "old"] /\ media[d] = cache[d]
  /\ w.mode = "raw" /\ w.pc \in {"write", "write-rest", "sync"} => w.fd \in w.changed

\* The stages at which the choice of a filesystem lets the image go.
Letting == {"undo", "select-remove", "select-release"}

\* What has been read of the image.
ReadInv ==
  /\ Reached = "unread" =>
       /\ w.staged = None
       /\ w.plan = None \/ (w.mode = "extracted" /\ w.pc \in Letting)
  /\ Reached \in Hashed \cup {"settled"} => w.digest \in Images
  /\ Reached \in Hashed /\ w.mode = "freedos" => w.digest = "plan"
  /\ Reached \in Hashed /\ ~w.private /\ w.mode # "freedos" /\ w.held # "lease" => Traced
  /\ Reached \in Hashed /\ Steady =>
       /\ w.mode # "freedos" => Bytes = w.digest
       /\ {w.plan, w.staged} \subseteq {None, w.digest}

\* What was flushed has not been read back.
Rereading == {"remount", "verify", "readback"}

\* What is on the target.
TargetDataInv ==
  /\ Reached \in OnTarget => Held.table = "plan"
  /\ Reached = "formatted" /\ Steady => Held.fs \in {"empty", w.digest}
  /\ Reached \in {"copied", "flushed"} /\ Steady =>
       \/ Held.fs = w.digest
       \/ w.flawed /\ (w.verify => Place \in Rereading)
  /\ Reached = "flushed" => media[w.fd.disk] = Held
  /\ Reached = "settled" => Kept

\* What is announced is so.
DoneInv ==
  (w.announced \/ w.status = "ok") /\ w.mode # "qualify" =>
    /\ w.digest \in Images
    /\ Kept
    /\ w.pc \in ClosingStages \cup ClosedStages
    /\ w.own = w.known

\* A writer that has failed is on its way out.
FailedInv ==
  w.err => \/ w.pc \in ClosingStages \cup ClosedStages
           \/ w.mode = "extracted" /\ w.pc \in Letting

\* The inductive invariant.
DataInv ==
  /\ FailedInv
  /\ HistoryInv
  /\ PreparedInv
  /\ UntouchedInv
  /\ ~w.err => ReadInv /\ TargetDataInv
  /\ DoneInv


-----------------------------------------------------------------------------
(* What a step keeps *)

\* The fields that say what is read and written.
DataFields ==
  {"pc", "ret", "mode", "verify", "pin", "private", "image", "digest", "plan", "staged", "held",
   "fd", "own", "known", "changed", "flawed", "err", "announced", "status"}

\* A writer has them.
LEMMA DataFieldsIn == Shape => DataFields \subseteq DOMAIN w
BY DEF Shape, Writers, DataFields

\* It keeps the image, and which one and what for.
SameImage ==
  /\ w'.mode = w.mode /\ w'.verify = w.verify /\ w'.pin = w.pin
  /\ w'.private = w.private /\ w'.image = w.image
  /\ src' = src

\* At most it reads the image.
Reads ==
  /\ SameImage
  /\ w'.digest = w.digest
  /\ w'.held = w.held
  /\ w'.plan \in {w.plan, Mixed(w.plan, Bytes)}
  /\ w'.staged \in {w.staged, Mixed(w.staged, Bytes)}
  /\ SameEnd

\* It does not read it.
Keeps ==
  /\ Reads
  /\ w'.plan = w.plan
  /\ w'.staged = w.staged

\* It leaves the contents of the target.
Looks ==
  /\ Keeps
  /\ w'.fd = w.fd
  /\ w'.changed = w.changed /\ w'.flawed = w.flawed
  /\ cache' = cache /\ media' = media

\* The whole disk or its filesystem gets new contents.
Puts(contents) ==
  /\ Keeps
  /\ w'.fd = w.fd
  /\ w'.changed = w.changed \cup {w.fd} /\ w'.flawed = w.flawed
  /\ cache' = [cache EXCEPT ![w.fd.disk] = contents]
  /\ media' = media

\* The table does, on the medium too.
Tables ==
  /\ Keeps
  /\ w'.fd = w.fd
  /\ w'.changed = w.changed \cup {w.fd} /\ w'.flawed = w.flawed
  /\ cache' = [cache EXCEPT ![w.fd.disk] = [table |-> "plan", fs |-> "none"]]

\* It reaches the medium, which may keep something else.
Flushes ==
  /\ Keeps
  /\ w'.fd = w.fd
  /\ w'.changed = w.changed
  /\ \E flawed \in BOOLEAN :
       LET kept == IF flawed THEN [Held EXCEPT !.fs = "mixed"] ELSE Held
       IN  /\ media' = [media EXCEPT ![w.fd.disk] = kept]
           /\ cache' = [cache EXCEPT ![w.fd.disk] = kept]
           /\ w'.flawed = (w.flawed \/ flawed)

\* The writer fails.
Fails ==
  /\ SameImage
  /\ w'.err = TRUE
  /\ w'.announced = w.announced
  /\ w'.status = w.status

\* Stages that no writer of media goes to by itself.
Aside == Asking \cup Unprepared \cup {"ended"}

-----------------------------------------------------------------------------
(* What the steps the writers share are of these *)

\* Steps that read, look or ask.
LEMMA LookingSteps ==
  ASSUME Shape
  PROVE  /\ \A s : Pass(s) => w'.pc = s /\ Looks
         /\ \A s : Observe(s) \/ Stage(s) => w'.pc = s /\ Reads
         /\ \A s : Reread(s) \/ WaitPartition(s) \/ UnmountPartition(s) => w'.pc = s /\ Looks
         /\ \A m, s : UmountOwn(m, s) => w'.pc = s /\ Looks
<1>1. DataFields \subseteq DOMAIN w
  BY DataFieldsIn
<1> USE <1>1 DEF DataFields, Looks, Keeps, Reads, SameImage, SameEnd
<1>2. \A s : Goto(s) /\ src' = src /\ cache' = cache /\ media' = media => w'.pc = s /\ Looks
  BY DEF Goto
<1>3. \A s : Pass(s) => w'.pc = s /\ Looks
  BY <1>2 DEF Pass, disk
<1>4. \A s : Observe(s) \/ Stage(s) => w'.pc = s /\ Reads
  BY Zenon DEF Observe, Stage, disk
<1>5. \A s : Reread(s) \/ WaitPartition(s) \/ UnmountPartition(s) => w'.pc = s /\ Looks
  BY <1>2 DEF Reread, WaitPartition, UnmountPartition, disk
<1>6. \A m, s : UmountOwn(m, s) => w'.pc = s /\ Looks
  BY DEF UmountOwn, disk
<1> QED BY <1>3, <1>4, <1>5, <1>6

\* Steps that may fail.
LEMMA FailingSteps ==
  ASSUME Shape
  PROVE  /\ \A m, s, undo : MountUndo(m, s, undo) =>
              (w'.pc = s /\ Looks) \/ (w'.pc = undo /\ Fails)
         /\ \A m, s : MountOwn(m, s) \/ MountAlone(m, s) =>
              (w'.pc = s /\ Looks) \/ (w'.pc = "undo" /\ Fails)
         /\ \A m : MountShared(m) => w'.pc = "undo" /\ Fails
         /\ \A m, stages, undo : FailTo(m, stages, undo) \/ FailTornTo(m, stages, undo) =>
              w.mode = m /\ w.pc \in stages /\ w'.pc = undo /\ Fails
         /\ \A m, stages : Fail(m, stages) \/ FailTorn(m, stages) =>
              w.mode = m /\ w.pc \in stages /\ w'.pc = "undo" /\ Fails
<1>1. DataFields \subseteq DOMAIN w
  BY DataFieldsIn
<1> USE <1>1 DEF DataFields, Looks, Keeps, Reads, Fails, SameImage, SameEnd
<1>2. \A m, s, undo : MountUndo(m, s, undo) => (w'.pc = s /\ Looks) \/ (w'.pc = undo /\ Fails)
  <2>1. SUFFICES ASSUME NEW m, NEW s, NEW undo, MountUndo(m, s, undo)
                 PROVE  (w'.pc = s /\ Looks) \/ (w'.pc = undo /\ Fails)
    OBVIOUS
  <2>2. UNCHANGED <<src, cache, media>>
    BY <2>1 DEF MountUndo, disk
  <2>3. CASE w' = [w EXCEPT !.pc = s, !.own = @ \cup {m}, !.known = @ \cup {m}]
    BY <2>2, <2>3
  <2>4. CASE w' = [w EXCEPT !.pc = undo, !.err = TRUE, !.own = @ \cup {m}]
    BY <2>2, <2>4
  <2> QED BY <2>1, <2>3, <2>4 DEF MountUndo
<1>3. \A m, s : MountOwn(m, s) \/ MountAlone(m, s) =>
        (w'.pc = s /\ Looks) \/ (w'.pc = "undo" /\ Fails)
  BY <1>2 DEF MountOwn, MountAlone
<1>4. \A m : MountShared(m) => w'.pc = "undo" /\ Fails
  BY DEF MountShared
<1>5. \A m, stages, undo : FailTo(m, stages, undo) \/ FailTornTo(m, stages, undo) =>
        w.mode = m /\ w.pc \in stages /\ w'.pc = undo /\ Fails
  BY Zenon DEF FailTo, FailTornTo
<1>6. \A m, stages : Fail(m, stages) \/ FailTorn(m, stages) =>
        w.mode = m /\ w.pc \in stages /\ w'.pc = "undo" /\ Fails
  BY <1>5 DEF Fail, FailTorn
<1> QED BY <1>2, <1>3, <1>4, <1>5, <1>6

\* Steps that change the target.
LEMMA ChangingSteps ==
  ASSUME Shape
  PROVE  /\ \A s, contents : Change(s, contents) => w'.pc = s /\ Puts(contents)
         /\ \A s : Wipe(s) => w'.pc = s /\ Puts([table |-> "none", fs |-> "none"])
         /\ \A s : WriteTable(s) => w'.pc = s /\ Tables
         /\ \A s : MakeFilesystem(s) => w'.pc = s /\ Puts([Held EXCEPT !.fs = "empty"])
         /\ \A s, content : CopyFiles(s, content) =>
              w'.pc = s /\ Puts([Held EXCEPT !.fs = Mixed(@, content)])
         /\ \A s : Flush(s) => w'.pc = s /\ Flushes
<1>1. DataFields \subseteq DOMAIN w
  BY DataFieldsIn
<1> USE <1>1 DEF DataFields, Keeps, Reads, SameImage, SameEnd
<1>2. \A s, contents : Change(s, contents) => w'.pc = s /\ Puts(contents)
  BY DEF Change, Puts
<1>3. \A s : Wipe(s) => w'.pc = s /\ Puts([table |-> "none", fs |-> "none"])
  BY <1>2 DEF Wipe
<1>4. \A s : WriteTable(s) => w'.pc = s /\ Tables
  BY DEF WriteTable, Tables
<1>5. \A s : MakeFilesystem(s) => w'.pc = s /\ Puts([Held EXCEPT !.fs = "empty"])
  BY <1>2 DEF MakeFilesystem
<1>6. \A s, content : CopyFiles(s, content) =>
        w'.pc = s /\ Puts([Held EXCEPT !.fs = Mixed(@, content)])
  BY <1>2 DEF CopyFiles
<1>7. \A s : Flush(s) => w'.pc = s /\ Flushes
  <2>1. SUFFICES ASSUME NEW s, Flush(s)  PROVE  w'.pc = s /\ Flushes
    OBVIOUS
  <2> DEFINE Kept1(flawed) == IF flawed THEN [Held EXCEPT !.fs = "mixed"] ELSE Held
  <2>2. PICK flawed \in BOOLEAN :
          /\ media' = [media EXCEPT ![w.fd.disk] = Kept1(flawed)]
          /\ cache' = [cache EXCEPT ![w.fd.disk] = Kept1(flawed)]
          /\ w' = [w EXCEPT !.pc = s, !.flawed = @ \/ flawed]
    BY <2>1, Zenon DEF Flush
  <2>3. w'.pc = s /\ Keeps /\ w'.changed = w.changed /\ w'.flawed = (w.flawed \/ flawed)
    BY <2>1, <2>2 DEF Flush
  <2> QED BY <2>2, <2>3 DEF Flushes
<1> QED BY <1>2, <1>3, <1>4, <1>5, <1>6, <1>7

-----------------------------------------------------------------------------
(* Levels *)

\* The stages at which a builder has hashed the image and not written the table.
BuilderRead ==
  ReviewStages \cup {"target", "loader", "staging", "erase", "wipe", "table", "write-table"}

\* The levels a builder goes through.
LEMMA BuilderLevels ==
  ASSUME NEW m \in Builders, NEW s
  PROVE  /\ s \in {"open", "hash"} => Level(m, s) = "unread"
         /\ s \in BuilderRead => Level(m, s) = "read"
         /\ s \in TabledStages => Level(m, s) = "tabled"
         /\ s \in FormattedStages(m) => Level(m, s) = "formatted"
         /\ s \in CopiedStages(m) => Level(m, s) = "copied"
         /\ s \in FlushedStages(m) => Level(m, s) = "flushed"
         /\ s \in SettledStages(m) => Level(m, s) = "settled"
         /\ s \in ClosingStages \cup (ClosedStages \ {"ended"}) => Level(m, s) = "settled"
<1> USE DEF Level, Builders, SettledStages, FlushedStages, CopiedStages, FormattedStages, TabledStages,
            UnreadStages, ClosingStages, ClosedStages, BuilderRead, ReviewStages
<1>1. CASE m = "windows"
  BY <1>1
<1>2. CASE m = "windows-to-go"
  BY <1>2
<1>3. CASE m = "linux-persistent"
  BY <1>3
<1>4. CASE m \in {"extracted-fat32", "extracted-ntfs"}
  BY <1>4
<1> QED BY <1>1, <1>2, <1>3, <1>4

\* They are stages of the writer itself.
LEMMA Within ==
  ASSUME NEW m
  PROVE  /\ BuilderRead \cap Aside = {}
         /\ TabledStages \cap Aside = {}
         /\ FormattedStages(m) \cap Aside = {}
         /\ CopiedStages(m) \cap Aside = {}
         /\ FlushedStages(m) \cap Aside = {}
         /\ SettledStages(m) \cap Aside = {}
         /\ ClosingStages \cap Aside = {}
         /\ (ClosedStages \ {"ended"}) \cap Aside = {}
         /\ UnreadStages("raw") \cap Aside = {}
<1> USE DEF Aside, Asking, Unprepared, Containers, Reading
<1>1. BuilderRead \cap Aside = {} /\ TabledStages \cap Aside = {}
  BY DEF BuilderRead, ReviewStages, TabledStages
<1>2. FormattedStages(m) \cap Aside = {} /\ CopiedStages(m) \cap Aside = {}
  BY DEF FormattedStages, CopiedStages
<1>3. FlushedStages(m) \cap Aside = {}
  BY DEF FlushedStages
<1>4. SettledStages(m) \cap Aside = {}
  BY DEF SettledStages
<1>5. ClosingStages \cap Aside = {} /\ (ClosedStages \ {"ended"}) \cap Aside = {}
  BY DEF ClosingStages, ClosedStages
<1>6. UnreadStages("raw") \cap Aside = {}
  BY DEF UnreadStages
<1> QED BY <1>1, <1>2, <1>3, <1>4, <1>5, <1>6

\* Writers of media that look at the target before they close it.
Makers == Builders \cup {"freedos"}

\* What a writer has that is on its way.
LEMMA Going ==
  ASSUME DataInv, w.mode \in Makers \cup {"raw"}, Reached \in Hashed \cup {"unread"}
  PROVE  ~w.announced /\ w.status # "ok" /\ ~w.err /\ ReadInv /\ TargetDataInv
<1>1. w.mode \notin {"qualify", "none", "extracted"}
  BY DEF Makers, Builders
<1>2. w.pc \notin ClosingStages \cup ClosedStages
  <2>1. SUFFICES ASSUME w.pc \in ClosingStages \cup ClosedStages  PROVE FALSE
    OBVIOUS
  <2>2. Place = w.pc
    BY <2>1 DEF Place, Asking, ClosingStages, ClosedStages
  <2> QED BY <1>1, <2>1, <2>2 DEF Reached, Level, Hashed
<1>3. ~w.err
  BY <1>1, <1>2 DEF DataInv, FailedInv
<1> QED BY <1>1, <1>2, <1>3 DEF DataInv, DoneInv

-----------------------------------------------------------------------------
(* What the kinds of steps keep *)

\* Image and container.
LEMMA ImageStays ==
  ASSUME DataInv, SameImage, w'.pc \notin Unprepared
  PROVE  HistoryInv' /\ PreparedInv'
<1>1. HistoryInv'
  BY DEF DataInv, HistoryInv, SameImage
<1>2. PreparedInv'
  BY DEF DataInv, PreparedInv, SameImage, Unprepared, Containers, Reading
<1> QED BY <1>1, <1>2

\* Only a raw writer looks at whatever disk is there.
LEMMA Elsewhere ==
  ASSUME w.mode \in Makers, w'.mode = w.mode
  PROVE  UntouchedInv'
BY DEF UntouchedInv, Makers, Builders

\* A failure before the end leaves nothing to be said.
LEMMA FailsData ==
  ASSUME DataInv, Fails, w.mode \in Makers \cup {"raw"}, Reached \in Hashed \cup {"unread"},
         w'.pc \in ClosingStages, w.mode = "raw" => UntouchedInv'
  PROVE  DataInv'
<1>1. ~w.announced /\ w.status # "ok"
  BY Going
<1>2. DoneInv' /\ w'.err /\ FailedInv'
  BY <1>1 DEF DoneInv, FailedInv, Fails
<1>3. w'.pc \notin Unprepared
  BY DEF ClosingStages, Unprepared, Containers, Reading
<1>4. UntouchedInv'
  BY Elsewhere DEF Fails, SameImage
<1> QED BY <1>2, <1>3, <1>4, ImageStays DEF DataInv, Fails

\* Steps between the hash and the last look.
LEMMA ReadsData ==
  ASSUME DataInv, Reads, w.mode \in Makers \cup {"raw"}, Reached \in Hashed,
         Reached' \in Hashed, w'.pc \notin Unprepared, TargetDataInv',
         w.mode = "freedos" => Keeps, w.mode = "raw" => UntouchedInv'
  PROVE  DataInv'
<1>1. Reached' \notin {"settled", "unread"}
  BY DEF Hashed
<1>2. ~w.announced /\ w.status # "ok" /\ ~w.err /\ ReadInv
  BY Going
<1>3. DoneInv' /\ FailedInv'
  BY <1>2 DEF DoneInv, FailedInv, Reads, SameEnd
<1>4. ReadInv'
  <2>1. (Steady' <=> Steady) /\ Bytes' = Bytes /\ (Traced' <=> Traced)
    BY DEF Steady, Bytes, Traced, Reads, SameImage
  <2>2. Steady => {w'.plan, w'.staged} \subseteq {None, w.digest}
    <3>1. CASE w.mode = "freedos"
      BY <1>2, <3>1 DEF ReadInv, Keeps
    <3>2. CASE w.mode # "freedos"
      BY <1>2, <3>2 DEF ReadInv, Reads, Mixed
    <3> QED BY <3>1, <3>2
  <2> QED BY <1>1, <1>2, <2>1, <2>2 DEF ReadInv, Reads, SameImage
<1>5. UntouchedInv'
  BY Elsewhere DEF Reads, SameImage
<1> QED BY <1>3, <1>4, <1>5, ImageStays DEF DataInv, Reads

-----------------------------------------------------------------------------
(* From level to level *)

\* The stages at which a target is written.
TargetStages(m) ==
  {"wipe", "table", "write-table", "clear", "write", "write-rest", "flush-disk"}
    \cup TabledStages \cup FormattedStages(m) \cup CopiedStages(m) \cup FlushedStages(m)
    \cup (IF m = "raw" THEN {} ELSE {"flush"})

\* The target is one of the disks.
LEMMA TargetIn ==
  ASSUME Inv, w.mode \in Makers \cup {"raw"}, Place \in TargetStages(w.mode)
  PROVE  /\ w.fd # None /\ w.fd.disk \in Disks
         /\ cache \in [Disks -> Cells] /\ media \in [Disks -> Cells]
<1>1. Now \notin {"closed", "unopened", "closing"}
  <2>1. w.mode \notin {"none", "extracted"}
    BY DEF Makers, Builders
  <2> USE DEF TargetStages, TabledStages, FormattedStages, CopiedStages, FlushedStages
  <2>2. Place \notin ClosedStages /\ ~Finishing(w.mode, Place)
    BY <2>1 DEF ClosedStages, Finishing
  <2>3. Place \notin UnopenedStages
    BY <2>1 DEF UnopenedStages, Preparatory
  <2>4. Place \notin ClosingStages
    BY <2>1 DEF ClosingStages
  <2> QED BY <2>1, <2>2, <2>3, <2>4 DEF Now, Phase
<1>2. Now \in {"reviewing", "checked", "writing"}
  BY <1>1 DEF Now, Phase
<1>3. w.fd \in Attachments
  BY <1>2 DEF Inv, TargetInv, PhaseInv, Shape, Writers, Ports
<1>4. w.fd # None /\ w.fd.disk \in Disks
  BY <1>3, NoneAssumption DEF Attachments
<1> QED BY <1>4 DEF Inv, DiskTypeOK, Cells

\* The writer of media reads, checks and asks.
LEMMA ReadOn ==
  ASSUME DataInv, w.mode \in Makers, Reached = "read", Reads, w.mode = "freedos" => Keeps,
         Reached' = "read", w'.pc \notin Unprepared
  PROVE  DataInv'
<1>1. TargetDataInv'
  BY DEF TargetDataInv, OnTarget
<1> QED BY <1>1, ReadsData DEF Hashed, Makers, Builders

\* The contents of the target stay.
Stays ==
  /\ Keeps
  /\ w'.fd = w.fd
  /\ w'.flawed = w.flawed
  /\ cache' = cache
  /\ media' = media

\* Whoever leaves the contents stays at its level.
LEMMA StaysOn ==
  ASSUME DataInv, w.mode \in Makers \cup {"raw"}, Reached \in Hashed,
         Looks \/ Stays, Reached' = Reached, w'.pc \notin Unprepared,
         w.verify /\ Place \in Rereading => Place' \in Rereading,
         w.mode = "raw" => UntouchedInv'
  PROVE  DataInv'
<1>1. Stays
  BY DEF Looks, Stays
<1>2. (Steady' <=> Steady) /\ Held' = Held /\ w'.digest = w.digest /\ w'.verify = w.verify
      /\ w'.fd = w.fd
  BY <1>1 DEF Stays, Keeps, Reads, SameImage, Steady, Held
<1>3. TargetDataInv'
  <2>1. TargetDataInv
    BY Going
  <2> QED BY <1>1, <1>2, <2>1 DEF TargetDataInv, Stays, OnTarget, Hashed
<1> QED BY <1>1, <1>3, ReadsData DEF Stays, Keeps

\* So they do when they are replaced by themselves.
LEMMA SameContents ==
  ASSUME Inv, w.mode \in Makers, Place \in TargetStages(w.mode), Puts(Held)
  PROVE  Stays
BY TargetIn DEF Puts, Stays, Held

\* The table is written.
LEMMA TableOn ==
  ASSUME Inv, DataInv, w.mode \in Makers, Reached = "read", Tables,
         Place \in TargetStages(w.mode), Reached' = "tabled", w'.pc \notin Unprepared
  PROVE  DataInv'
<1>1. Held'.table = "plan"
  BY TargetIn DEF Tables, Keeps, Reads, Held
<1>2. TargetDataInv'
  BY <1>1 DEF TargetDataInv, OnTarget
<1> QED BY <1>2, ReadsData DEF Hashed, Tables, Keeps, Makers, Builders

\* Before there is a filesystem only the table matters.
LEMMA TabledOn ==
  ASSUME Inv, DataInv, w.mode \in Makers, Reached \in {"read", "tabled"},
         NEW contents, Puts(contents), contents.table = "plan",
         Place \in TargetStages(w.mode), Reached' = "tabled", w'.pc \notin Unprepared
  PROVE  DataInv'
<1>1. Held'.table = "plan"
  BY TargetIn DEF Puts, Keeps, Reads, Held
<1>2. TargetDataInv'
  BY <1>1 DEF TargetDataInv, OnTarget
<1> QED BY <1>2, ReadsData DEF Hashed, Puts, Keeps, Makers, Builders

\* The filesystem is made.
LEMMA FormatOn ==
  ASSUME Inv, DataInv, w.mode \in Makers, Reached = "tabled",
         Puts([Held EXCEPT !.fs = "empty"]),
         Place \in TargetStages(w.mode), Reached' = "formatted", w'.pc \notin Unprepared
  PROVE  DataInv'
<1>1. Held' = [Held EXCEPT !.fs = "empty"] /\ Held \in Cells
  BY TargetIn DEF Puts, Keeps, Reads, Held
<1>2. Held'.fs = "empty" /\ Held'.table = Held.table
  BY <1>1 DEF Cells
<1>3. Held.table = "plan"
  BY Going DEF TargetDataInv, OnTarget, Hashed
<1>4. TargetDataInv'
  BY <1>2, <1>3 DEF TargetDataInv, OnTarget
<1> QED BY <1>4, ReadsData DEF Hashed, Puts, Keeps, Makers, Builders

\* What is copied to it is the hashed version as long as nobody could have changed it.
LEMMA CopyOn ==
  ASSUME Inv, DataInv, w.mode \in Makers \cup {"raw"}, Reached \in {"formatted", "copied"},
         NEW content, Puts([Held EXCEPT !.fs = Mixed(@, content)]),
         Steady => content = w.digest, Place \notin Rereading,
         Place \in TargetStages(w.mode), Reached' = "copied", w'.pc \notin Unprepared,
         w.mode = "raw" => UntouchedInv'
  PROVE  DataInv'
<1>1. Held' = [Held EXCEPT !.fs = Mixed(@, content)] /\ Held \in Cells
  BY TargetIn DEF Puts, Keeps, Reads, Held
<1>2. Held'.fs = Mixed(Held.fs, content) /\ Held'.table = Held.table
  BY <1>1 DEF Cells
<1>3. /\ Steady' <=> Steady
      /\ w'.digest = w.digest /\ w'.verify = w.verify /\ w'.flawed = w.flawed
  BY DEF Puts, Keeps, Reads, SameImage, Steady
<1>4. TargetDataInv'
  <2>1. TargetDataInv
    BY Going DEF Hashed
  <2>2. Held.table = "plan"
    BY <2>1 DEF TargetDataInv, OnTarget
  <2>3. Steady => Held.fs \in {"empty", w.digest} \/ (w.flawed /\ ~w.verify)
    BY <2>1 DEF TargetDataInv
  <2>4. Steady => Held'.fs = w.digest \/ (w.flawed /\ ~w.verify)
    BY <1>2, <2>3 DEF Mixed
  <2> QED BY <1>2, <1>3, <2>2, <2>4 DEF TargetDataInv, OnTarget
<1> QED BY <1>4, ReadsData DEF Hashed, Puts, Keeps

\* It is flushed; where it is read back that is still to come.
LEMMA FlushOn ==
  ASSUME Inv, DataInv, w.mode \in Makers, Reached \in {"copied", "flushed"},
         Flushes, Place \in TargetStages(w.mode),
         Reached' = "flushed", w'.pc \notin Unprepared, w.verify => Place' \in Rereading
  PROVE  DataInv'
<1> DEFINE Result(flawed) == IF flawed THEN [Held EXCEPT !.fs = "mixed"] ELSE Held
<1>1. PICK flawed \in BOOLEAN :
        /\ media' = [media EXCEPT ![w.fd.disk] = Result(flawed)]
        /\ cache' = [cache EXCEPT ![w.fd.disk] = Result(flawed)]
        /\ w'.flawed = (w.flawed \/ flawed)
  BY DEF Flushes
<1>2. w'.fd = w.fd /\ w.fd.disk \in Disks /\ Held \in Cells
  BY TargetIn DEF Flushes, Keeps, Reads, Held
<1>3. Held' = Result(flawed) /\ media'[w'.fd.disk] = Held'
  BY <1>1, <1>2, TargetIn DEF Held
<1>4. Held'.table = Held.table /\ (Held'.fs = Held.fs \/ w'.flawed)
  BY <1>1, <1>2, <1>3 DEF Cells
<1>5. /\ Steady' <=> Steady
      /\ w'.digest = w.digest /\ w'.verify = w.verify /\ (w.flawed => w'.flawed)
  BY <1>1 DEF Flushes, Keeps, Reads, SameImage, Steady
<1>6. TargetDataInv'
  <2>1. Held.table = "plan" /\ (Steady => Held.fs = w.digest \/ w.flawed)
    BY Going DEF TargetDataInv, OnTarget, Hashed
  <2> QED BY <1>3, <1>4, <1>5, <2>1 DEF TargetDataInv, OnTarget
<1> QED BY <1>6, ReadsData DEF Hashed, Flushes, Keeps, Makers, Builders

\* It is read back.
LEMMA RereadOn ==
  ASSUME DataInv, w.mode \in Makers, Reached = "flushed", Looks, Reached' = "flushed",
         w'.pc \notin Unprepared, w.verify /\ Steady => Held.fs = w.digest
  PROVE  DataInv'
<1>1. (Steady' <=> Steady) /\ Held' = Held /\ w'.digest = w.digest /\ w'.verify = w.verify
      /\ w'.fd = w.fd /\ w'.flawed = w.flawed
  BY DEF Looks, Keeps, Reads, SameImage, Steady, Held
<1>2. TargetDataInv'
  <2>1. TargetDataInv
    BY Going DEF Hashed
  <2> QED BY <1>1, <2>1 DEF TargetDataInv, Looks, OnTarget
<1> QED BY <1>2, ReadsData DEF Looks, Keeps, Hashed, Makers, Builders

\* What is changed is the target.
LEMMA ChangedTarget ==
  ASSUME Inv, w.fd # None
  PROVE  \A a \in w.changed : a.disk = w.fd.disk
BY DEF Inv, TargetInv, OpenInv

\* The last look at the image finds that nobody could have changed it, or the
\* last look at the target that it is what was hashed.
LEMMA SettleOn ==
  ASSUME Inv, DataInv, w.mode \in Makers, Reached = "flushed",
         Steady \/ Held.fs = w.digest,
         Place \notin Rereading \/ Held.fs = w.digest,
         Place \in TargetStages(w.mode),
         Looks, Reached' = "settled", w'.pc \notin Unprepared
  PROVE  DataInv'
<1>1. ~w.announced /\ w.status # "ok" /\ ~w.err /\ ReadInv /\ TargetDataInv
  BY Going DEF Hashed
<1>2. DoneInv' /\ FailedInv'
  BY <1>1 DEF DoneInv, FailedInv, Looks, Keeps, Reads, SameEnd
<1>3. w.digest \in Images
  BY <1>1 DEF ReadInv, Hashed
<1>4. /\ Held.table = "plan" /\ media[w.fd.disk] = Held
      /\ Held.fs = w.digest \/ (w.flawed /\ ~w.verify)
  BY <1>1 DEF TargetDataInv, OnTarget
<1>5. \A a \in w.changed : a.disk = w.fd.disk
  BY TargetIn, ChangedTarget
<1>6. Kept'
  BY <1>4, <1>5 DEF Kept, Looks, Keeps, Reads, SameImage, Held
<1>7. ReadInv' /\ TargetDataInv'
  BY <1>3, <1>6 DEF ReadInv, TargetDataInv, Hashed, OnTarget, Looks, Keeps, Reads
<1> QED BY <1>2, <1>7, ImageStays, Elsewhere DEF DataInv, Looks, Keeps, Reads, SameImage

-----------------------------------------------------------------------------
(* After the last look *)

\* What is true of a writer that has settled and not failed.
LEMMA Settled ==
  ASSUME Inv, DataInv, w.mode # "qualify", Reached = "settled",
         ~w.err \/ w.announced \/ w.status = "ok"
  PROVE  w.digest \in Images /\ Kept /\ w.own = w.known
<1>1. CASE w.announced \/ w.status = "ok"
  BY <1>1 DEF DataInv, DoneInv
<1>2. CASE ~w.err
  BY <1>2 DEF DataInv, ReadInv, TargetDataInv, Inv, CleanInv
<1> QED BY <1>1, <1>2

\* The writer lets go of what it has, and of the lease.
Lets ==
  /\ w'.mode = w.mode /\ w'.verify = w.verify /\ w'.pin = w.pin
  /\ w'.private = w.private /\ w'.image = w.image
  /\ w'.digest = w.digest
  /\ w'.changed = w.changed /\ w'.flawed = w.flawed
  /\ w'.err \in {w.err, TRUE}
  /\ w'.announced = w.announced /\ w'.status = w.status
  /\ w.own = w.known => w'.own = w'.known /\ cache' = cache
  /\ media' = media
  /\ src'.ver = src.ver /\ src'.mtime = src.mtime /\ src'.ctime = src.ctime
  /\ src'.past = src.past

\* The kinds of steps after the last look: letting go, announcing, returning.
Settles ==
  \/ Lets
  \/ /\ SameImage /\ w'.digest = w.digest
     /\ w'.changed = w.changed /\ w'.flawed = w.flawed
     /\ w'.err = w.err /\ w'.own = w.own /\ w'.known = w.known
     /\ w'.announced \/ w'.status = "ok" => ~w.err \/ w.announced \/ w.status = "ok"
     /\ cache' = cache /\ media' = media

\* A writer that has settled stays so.
LEMMA SettlesOn ==
  ASSUME Inv, DataInv, w.mode # "qualify", Reached = "settled", Settles,
         Reached' \in {"settled", "free"}, w'.pc \notin Unprepared,
         w'.err => w'.pc \in ClosingStages \cup ClosedStages,
         w'.announced \/ w'.status = "ok" => w'.pc \in ClosingStages \cup ClosedStages,
         w.mode \in {"none", "raw"} => UntouchedInv',
         ToVerify => ToVerify' \/ \A a \in w.changed : media[a.disk].fs = w.digest
  PROVE  DataInv'
<1>1. /\ w'.mode = w.mode /\ w'.verify = w.verify /\ w'.pin = w.pin
      /\ w'.private = w.private /\ w'.image = w.image /\ w'.digest = w.digest
      /\ w'.changed = w.changed /\ w'.flawed = w.flawed
      /\ src'.ver = src.ver /\ src'.mtime = src.mtime /\ src'.ctime = src.ctime
      /\ src'.past = src.past
      /\ media' = media
  BY DEF Settles, Lets, SameImage
<1>2. HistoryInv'
  BY <1>1 DEF DataInv, HistoryInv
<1>3. PreparedInv'
  BY <1>1 DEF DataInv, PreparedInv, Unprepared, Containers, Reading
<1>4. UntouchedInv' /\ FailedInv'
  BY <1>1 DEF UntouchedInv, FailedInv
<1>5. ~w'.err \/ w'.announced \/ w'.status = "ok" => ~w.err \/ w.announced \/ w.status = "ok"
  BY DEF Settles, Lets
<1>6. ASSUME ~w'.err \/ w'.announced \/ w'.status = "ok"
      PROVE  w'.digest \in Images' /\ Kept' /\ w'.own = w'.known
  <2>1. w.digest \in Images /\ Kept /\ w.own = w.known
    BY <1>5, <1>6, Settled
  <2>2. cache' = cache /\ w'.own = w'.known
    BY <2>1 DEF Settles, Lets
  <2>3. Kept'
    BY <1>1, <2>1, <2>2 DEF Kept
  <2> QED BY <1>1, <2>1, <2>2, <2>3 DEF Images
<1>7. DoneInv'
  BY <1>6 DEF DoneInv
<1>8. ~w'.err => ReadInv' /\ TargetDataInv'
  BY <1>6 DEF ReadInv, TargetDataInv, Hashed, OnTarget
<1> QED BY <1>2, <1>3, <1>4, <1>7, <1>8 DEF DataInv

\* Closing stages are those of a writer that has settled.
LEMMA Closings ==
  ASSUME w.mode \in Makers \cup {"raw"}, w.pc \in (ClosingStages \cup ClosedStages) \ {"ended"}
  PROVE  Reached = "settled"
<1>1. Place = w.pc
  BY DEF Place, Asking, ClosingStages, ClosedStages
<1>2. w.mode \notin {"qualify", "none", "extracted"}
  BY DEF Makers, Builders
<1> QED BY <1>1, <1>2 DEF Reached, Level

\* From the last error or the end on the writer only lets go.
LEMMA ClosesOn ==
  ASSUME Inv, DataInv, w.mode \in Makers, Settles,
         w.pc \in (ClosingStages \cup ClosedStages) \ {"ended"},
         w'.pc \in ClosingStages \cup ClosedStages
  PROVE  DataInv'
<1>1. Reached = "settled"
  BY Closings
<1>2. w'.mode = w.mode
  BY DEF Settles, Lets, SameImage
<1>3. Reached' \in {"settled", "free"}
  <2>1. Place' = w'.pc
    BY DEF Place, Asking, ClosingStages, ClosedStages
  <2>2. w.mode \notin {"none", "extracted"}
    BY DEF Makers, Builders
  <2> QED BY <1>2, <2>1, <2>2 DEF Reached, Level
<1>4. w'.pc \notin Unprepared
  BY DEF Unprepared, Containers, Reading, ClosingStages, ClosedStages
<1> QED BY <1>1, <1>3, <1>4, SettlesOn DEF ToVerify, Makers, Builders

\* The target is looked at, flushed again, and its mounts taken down.
LEMMA SettledLooks ==
  ASSUME Inv, DataInv, w.mode \in Makers, Reached = "settled", Looks \/ Fails,
         w.pc \notin ClosingStages \cup ClosedStages,
         Reached' = "settled", w'.pc \notin Unprepared,
         Fails => w'.pc \in ClosingStages
  PROVE  DataInv'
<1>1. ~w.err /\ ~w.announced /\ w.status # "ok"
  BY DEF DataInv, FailedInv, DoneInv, Makers, Builders
<1>2. CASE Fails
  <2>1. DoneInv' /\ FailedInv' /\ w'.err
    BY <1>1, <1>2 DEF DoneInv, FailedInv, Fails
  <2> QED BY <1>2, <2>1, ImageStays, Elsewhere DEF DataInv, Fails, SameImage
<1>3. CASE Looks
  <2>1. w.digest \in Images /\ Kept
    BY <1>1, Settled DEF Makers, Builders
  <2>2. w'.err = w.err /\ w'.announced = w.announced /\ w'.status = w.status
    BY <1>3 DEF Looks, Keeps, Reads, SameEnd
  <2>3. ReadInv' /\ w.mode # "raw"
    BY <1>3, <2>1 DEF ReadInv, Hashed, Looks, Keeps, Reads, Makers, Builders
  <2>4. Kept'
    BY <1>3, <2>1, <2>3 DEF Kept, ToVerify, Looks, Keeps, Reads, SameImage
  <2>5. TargetDataInv'
    BY <2>4 DEF TargetDataInv, OnTarget
  <2>6. DoneInv' /\ FailedInv'
    BY <1>1, <2>2 DEF DoneInv, FailedInv
  <2> QED BY <1>3, <2>3, <2>5, <2>6, ImageStays, Elsewhere DEF DataInv, Looks, Keeps, Reads, SameImage
<1> QED BY <1>2, <1>3

\* The target is flushed once more.
LEMMA SettledFlush ==
  ASSUME Inv, DataInv, w.mode \in Makers, Reached = "settled", Flushes,
         w.pc \notin ClosingStages \cup ClosedStages, ~w.verify,
         Place \in TargetStages(w.mode), Reached' = "settled", w'.pc \notin Unprepared
  PROVE  DataInv'
<1>1. ~w.err /\ ~w.announced /\ w.status # "ok"
  BY DEF DataInv, FailedInv, DoneInv, Makers, Builders
<1>2. w.digest \in Images /\ Kept
  BY <1>1, Settled DEF Makers, Builders
<1>3. w'.err = w.err /\ w'.announced = w.announced /\ w'.status = w.status
  BY DEF Flushes, Keeps, Reads, SameEnd
<1>4. ReadInv'
  BY <1>2 DEF ReadInv, Hashed, Flushes, Keeps, Reads
<1>5. Kept'
  <2> DEFINE Result(flawed) == IF flawed THEN [Held EXCEPT !.fs = "mixed"] ELSE Held
  <2>1. PICK flawed \in BOOLEAN :
          /\ media' = [media EXCEPT ![w.fd.disk] = Result(flawed)]
          /\ cache' = [cache EXCEPT ![w.fd.disk] = Result(flawed)]
          /\ w'.flawed = (w.flawed \/ flawed)
    BY DEF Flushes
  <2>2. /\ w.fd.disk \in Disks /\ Held \in Cells
        /\ cache'[w.fd.disk] = Result(flawed) /\ media'[w.fd.disk] = Result(flawed)
    BY <2>1, TargetIn DEF Held
  <2>3. Result(flawed).table = Held.table /\ (Result(flawed).fs = Held.fs \/ w'.flawed)
    BY <2>1, <2>2 DEF Cells
  <2>4. \A a \in w.changed : a.disk = w.fd.disk
    BY TargetIn, ChangedTarget
  <2>5. w'.changed = w.changed /\ w'.digest = w.digest /\ w'.verify = w.verify
        /\ (w.flawed => w'.flawed)
    BY <2>1 DEF Flushes, Keeps, Reads, SameImage
  <2> HIDE DEF Result
  <2> QED BY <1>2, <2>2, <2>3, <2>4, <2>5 DEF Kept, Held
<1>6. TargetDataInv'
  BY <1>5 DEF TargetDataInv, OnTarget
<1>7. DoneInv' /\ FailedInv'
  BY <1>1, <1>3 DEF DoneInv, FailedInv
<1> QED BY <1>4, <1>6, <1>7, ImageStays, Elsewhere DEF DataInv, Flushes, Keeps, Reads, SameImage

\* A writer of files announces before it lets go.
LEMMA AnnouncesOn ==
  ASSUME Inv, DataInv, w.mode \in Makers, Reached = "settled", w.pc \notin ClosingStages \cup ClosedStages,
         w.own = w.known, Settles, w'.pc = "undo"
  PROVE  DataInv'
<1>1. ~w.err
  BY DEF DataInv, FailedInv, Makers, Builders
<1>2. Reached' = "settled" /\ w'.pc \in ClosingStages /\ w'.pc \notin Unprepared
  <2>1. Place' = "undo" /\ w'.mode = w.mode
    BY DEF Place, Asking, Settles, Lets, SameImage
  <2>2. w.mode \notin {"none", "extracted", "qualify"}
    BY DEF Makers, Builders
  <2> QED BY <2>1, <2>2 DEF Reached, Level, ClosingStages, Unprepared, Containers, Reading
<1> QED BY <1>2, SettlesOn DEF ToVerify, Makers, Builders

-----------------------------------------------------------------------------
(* Before the hash *)

\* The image is held.
LEMMA HoldsOn ==
  ASSUME Inv, DataInv, w.mode \in Builders \cup {"raw"}, Reached = "unread", NEW s, AcquireReadLease(s),
         s \notin Aside, Level(w.mode, s) = "unread"
  PROVE  DataInv'
<1>1. Reached \in Hashed \cup {"unread"} /\ w.mode \in Makers \cup {"raw"}
      /\ w.mode \notin {"none", "extracted"}
  BY DEF Hashed, Makers, Builders
<1>2. ~w.announced /\ w.status # "ok" /\ ~w.err /\ ReadInv /\ TargetDataInv
  BY <1>1, Going
<1>3. PICK held \in {"lease", "passes"} :
        /\ w' = [w EXCEPT !.pc = s, !.held = held]
        /\ src' = IF held = "lease" /\ ~w.private THEN [src EXCEPT !.lease = "held"] ELSE src
        /\ UNCHANGED disk
  BY DEF AcquireReadLease
<1>4. /\ w'.pc = s /\ w'.mode = w.mode /\ w'.verify = w.verify /\ w'.pin = w.pin
      /\ w'.private = w.private /\ w'.image = w.image
      /\ w'.plan = w.plan /\ w'.staged = w.staged /\ w'.digest = w.digest
      /\ w'.changed = w.changed
      /\ w'.err = w.err /\ w'.announced = w.announced /\ w'.status = w.status
  BY <1>3, DataFieldsIn DEF Inv, DataFields
<1>5. src'.ver = src.ver /\ src'.mtime = src.mtime /\ src'.ctime = src.ctime
      /\ src'.past = src.past
  <2>1. {"ver", "mtime", "ctime", "lease", "past"} \subseteq DOMAIN src
    BY DEF Inv, SrcType
  <2> QED BY <1>3, <2>1
<1>6. HistoryInv'
  BY <1>4, <1>5 DEF DataInv, HistoryInv
<1>7. PreparedInv'
  BY <1>4, <1>5 DEF DataInv, PreparedInv, Aside, Unprepared, Containers, Reading
<1>8. Reached' = "unread"
  BY <1>4 DEF Reached, Place, Aside
<1>9. ReadInv'
  BY <1>1, <1>2, <1>4, <1>8 DEF ReadInv, Hashed
<1>10. TargetDataInv' /\ DoneInv' /\ FailedInv'
  BY <1>2, <1>4, <1>8 DEF TargetDataInv, OnTarget, DoneInv, FailedInv
<1>11. UntouchedInv'
  <2>1. w.mode = "raw" => w'.pc \notin {"write", "write-rest", "sync"}
    BY <1>4 DEF Level, ClosedStages, ClosingStages, SettledStages, FlushedStages, CopiedStages,
                UnreadStages
  <2> QED BY <1>1, <1>3, <1>4, <2>1 DEF DataInv, UntouchedInv, disk
<1> QED BY <1>6, <1>7, <1>9, <1>10, <1>11 DEF DataInv

\* It is hashed.
LEMMA HashesOn ==
  ASSUME Inv, DataInv, w.mode \in Builders \cup {"raw"}, Reached = "unread", NEW s, HashFirst(s),
         s \notin Aside, Level(w.mode, s) = "read", s # "write"
  PROVE  DataInv'
<1>1. Reached \in Hashed \cup {"unread"} /\ w.mode \in Makers \cup {"raw"}
      /\ w.mode \notin {"none", "extracted", "freedos"}
  BY DEF Hashed, Makers, Builders
<1>2. ~w.announced /\ w.status # "ok" /\ ~w.err /\ ReadInv
  BY <1>1, Going
<1>3. /\ w'.pc = s /\ SameImage /\ w'.held = w.held
      /\ w'.plan = w.plan /\ w'.staged = w.staged /\ w'.digest = Bytes
      /\ w'.changed = w.changed /\ cache' = cache /\ media' = media
      /\ SameEnd
  BY DataFieldsIn DEF Inv, DataFields, HashFirst, SameImage, SameEnd, disk
<1>4. Place' = s /\ Reached' = "read"
  BY <1>3 DEF Reached, Place, Aside, SameImage
<1>5. Bytes \in Versions /\ (~w.private => Bytes \in src.past)
  BY DEF Bytes, DataInv, PreparedInv, HistoryInv, Inv, SrcType
<1>6. Bytes' = w'.digest
  BY <1>3 DEF Bytes, SameImage
<1>7. ReadInv'
  <2>1. w'.staged = None /\ w'.plan = None
    BY <1>1, <1>2, <1>3 DEF ReadInv
  <2>2. w'.digest \in Images' /\ (~w'.private => Traced')
    BY <1>3, <1>5 DEF Images, Traced, SameImage
  <2> QED BY <1>1, <1>3, <1>4, <1>6, <2>1, <2>2 DEF ReadInv, Hashed, SameImage
<1>8. TargetDataInv' /\ DoneInv' /\ FailedInv'
  BY <1>2, <1>3, <1>4 DEF TargetDataInv, OnTarget, DoneInv, FailedInv, SameEnd
<1>9. UntouchedInv'
  <2>1. w.mode = "raw" => s \notin {"write-rest", "sync"}
    BY DEF Level, ClosedStages, ClosingStages, SettledStages, FlushedStages, CopiedStages
  <2>2. UntouchedInv
    BY DEF DataInv
  <2> QED BY <1>1, <1>3, <2>1, <2>2 DEF UntouchedInv, SameImage
<1> QED BY <1>3, <1>7, <1>8, <1>9, ImageStays DEF DataInv, Aside

-----------------------------------------------------------------------------
(* The rest of what the steps are *)

\* Steps that mark the writer, and the one that opens the target.
LEMMA MarkingSteps ==
  ASSUME Shape
  PROVE  /\ \A s : w' = [w EXCEPT !.pc = s, !.work = TRUE] /\ UNCHANGED <<disk, src>> =>
              w'.pc = s /\ Looks
         /\ \A s : w' = [w EXCEPT !.pc = s, !.touched = TRUE] /\ UNCHANGED <<disk, src>> =>
              w'.pc = s /\ Looks
         /\ \A s, boot : w' = [w EXCEPT !.pc = s, !.boot = boot, !.changed = @ \cup {w.fd}]
                           /\ UNCHANGED <<disk, src>> => w'.pc = s /\ Stays
         /\ \A claim : w' = [w EXCEPT !.pc = "undo", !.err = TRUE, !.claim = claim]
                         /\ UNCHANGED <<disk, src>> => w'.pc = "undo" /\ Fails
         /\ w' = [w EXCEPT !.pc = "undo", !.err = TRUE, !.claim = "untouched"]
              /\ UNCHANGED <<disk, src>> => w'.pc = "undo" /\ Fails
         /\ \A s : OpenTarget(s) => w'.pc = s /\ Keeps
         /\ \A ret : (Ask(TRUE, ret) \/ Ask(FALSE, ret)) /\ UNCHANGED <<disk, src>> =>
              w'.pc \in Asking /\ w'.ret = ret /\ Looks
<1>1. DataFields \subseteq DOMAIN w
  BY DataFieldsIn
<1> USE <1>1 DEF DataFields, Looks, Stays, Keeps, Reads, Fails, SameImage, SameEnd, disk
<1>2. \A s : w' = [w EXCEPT !.pc = s, !.work = TRUE] /\ UNCHANGED <<disk, src>> =>
        w'.pc = s /\ Looks
  OBVIOUS
<1>3. \A s : w' = [w EXCEPT !.pc = s, !.touched = TRUE] /\ UNCHANGED <<disk, src>> =>
        w'.pc = s /\ Looks
  OBVIOUS
<1>4. \A s, boot : w' = [w EXCEPT !.pc = s, !.boot = boot, !.changed = @ \cup {w.fd}]
                     /\ UNCHANGED <<disk, src>> => w'.pc = s /\ Stays
  OBVIOUS
<1>5. \A claim : w' = [w EXCEPT !.pc = "undo", !.err = TRUE, !.claim = claim]
                   /\ UNCHANGED <<disk, src>> => w'.pc = "undo" /\ Fails
  OBVIOUS
<1>6. \A s : OpenTarget(s) => w'.pc = s /\ Keeps
  BY DEF OpenTarget
<1>7. \A ret : (Ask(TRUE, ret) \/ Ask(FALSE, ret)) /\ UNCHANGED <<disk, src>> =>
        w'.pc \in Asking /\ w'.ret = ret /\ Looks
  <2>1. ASSUME NEW ret, NEW pc \in Asking, w' = [w EXCEPT !.pc = pc, !.ret = ret],
               UNCHANGED <<disk, src>>
        PROVE  w'.pc \in Asking /\ w'.ret = ret /\ Looks
    BY <2>1
  <2>2. ASSUME NEW ret, NEW strict \in BOOLEAN, Ask(strict, ret)
        PROVE  w' = [w EXCEPT !.pc = "ask-strict", !.ret = ret] \/ w' = [w EXCEPT !.pc = "ask", !.ret = ret]
    <3>1. CASE strict \/ w.front = "helper"
      BY <2>2, <3>1 DEF Ask
    <3>2. CASE ~(strict \/ w.front = "helper")
      BY <2>2, <3>2 DEF Ask
    <3> QED BY <3>1, <3>2
  <2>3. {"ask", "ask-strict"} \subseteq Asking
    BY DEF Asking
  <2> HIDE DEF DataFields, Looks, Stays, Keeps, Reads, Fails, SameImage, SameEnd
  <2> QED BY <2>1, <2>2, <2>3, Zenon
<1> QED BY <1>2, <1>3, <1>4, <1>5, <1>6, <1>7, Zenon

\* A second look at the image lets the writer go on only if nobody could have changed it.
LEMMA RecheckSteps ==
  ASSUME Shape
  PROVE  \A s, message : Recheck(s, message) =>
           \/ w'.pc = s /\ Looks /\ Steady
           \/ w'.pc = "undo" /\ Fails
<1>1. SUFFICES ASSUME NEW s, NEW message, Recheck(s, message)
               PROVE  (w'.pc = s /\ Looks /\ Steady) \/ (w'.pc = "undo" /\ Fails)
  OBVIOUS
<1>2. DataFields \subseteq DOMAIN w
  BY DataFieldsIn
<1>3. Goto(s) => Pass(s)
  BY <1>1 DEF Recheck, Pass
<1>4. CASE Goto(s) /\ (IF w.held = "lease" THEN LeaseIntact ELSE VerifyPinned /\ Bytes = w.digest)
  <2>1. Steady
    BY <1>4 DEF Steady, LeaseIntact, VerifyPinned, Bytes
  <2> QED BY <1>3, <1>4, <2>1, LookingSteps
<1>5. CASE \E claim : w' = [w EXCEPT !.pc = "undo", !.err = TRUE, !.claim = claim]
  BY <1>1, <1>5, MarkingSteps, Zenon DEF Recheck
<1> QED BY <1>1, <1>4, <1>5, Zenon DEF Recheck

\* Steps that let go.
LEMMA ClosingSteps ==
  ASSUME Shape, SrcType
  PROVE  /\ \A s : Pass(s) => w'.pc = s /\ Lets
         /\ \A m, s : CleanMount(m, s) => w'.pc = s /\ Lets
         /\ \A s : CleanWork(s) => w'.pc = s /\ Lets
         /\ \A s : CloseTarget(s) => w'.pc = s /\ Lets
         /\ \A s : FinishLease(s) => w'.pc = s /\ Lets
<1>1. DataFields \subseteq DOMAIN w
  BY DataFieldsIn
<1>2. w.err \in BOOLEAN
  BY DEF Shape, Writers
<1> USE <1>1 DEF DataFields, Lets, disk
<1>3. \A m, s : CleanMount(m, s) => w'.pc = s /\ Lets
  <2>1. SUFFICES ASSUME NEW m, NEW s, CleanMount(m, s)  PROVE  w'.pc = s /\ Lets
    OBVIOUS
  <2>2. UNCHANGED <<src, cache, media>>
    BY <2>1 DEF CleanMount
  <2>3. CASE Goto(s)
    BY <2>2, <2>3 DEF Goto
  <2>4. CASE w' = [w EXCEPT !.pc = s, !.own = @ \ {m}, !.known = @ \ {m}]
    BY <2>2, <2>4
  <2>5. CASE w' = [w EXCEPT !.pc = s, !.err = TRUE]
    BY <2>2, <2>5
  <2> QED BY <2>1, <2>3, <2>4, <2>5 DEF CleanMount
<1>4. \A s : CleanWork(s) => w'.pc = s /\ Lets
  <2>1. SUFFICES ASSUME NEW s, CleanWork(s)  PROVE  w'.pc = s /\ Lets
    OBVIOUS
  <2>2. UNCHANGED <<src, media>>
    BY <2>1 DEF CleanWork
  <2>3. CASE Goto(s) /\ UNCHANGED cache
    BY <2>2, <2>3 DEF Goto
  <2>4. CASE w' = [w EXCEPT !.pc = s, !.work = FALSE] /\ UNCHANGED cache
    BY <2>2, <2>4
  <2>5. CASE w' = [w EXCEPT !.pc = s, !.err = TRUE] /\ w.own # w.known
    BY <2>2, <2>5
  <2> QED BY <2>1, <2>3, <2>4, <2>5 DEF CleanWork
<1>5. \A s : CloseTarget(s) => w'.pc = s /\ Lets
  <2>1. SUFFICES ASSUME NEW s, CloseTarget(s)  PROVE  w'.pc = s /\ Lets
    OBVIOUS
  <2>2. PICK late \in BOOLEAN : w' = [w EXCEPT !.pc = s, !.fd = None, !.err = @ \/ late]
    BY <2>1, Zenon DEF CloseTarget
  <2>3. (w.err \/ late) \in {w.err, TRUE}
    BY <1>2
  <2> QED BY <2>1, <2>2, <2>3 DEF CloseTarget
<1>6. \A s : FinishLease(s) => w'.pc = s /\ Lets
  <2>1. SUFFICES ASSUME NEW s, FinishLease(s)  PROVE  w'.pc = s /\ Lets
    OBVIOUS
  <2>2. {"ver", "mtime", "ctime", "lease", "past"} \subseteq DOMAIN src
    BY DEF SrcType
  <2>3. src'.ver = src.ver /\ src'.mtime = src.mtime /\ src'.ctime = src.ctime
        /\ src'.past = src.past
    BY <2>1, <2>2 DEF FinishLease, Released
  <2>4. (w.err \/ ~LeaseIntact) \in {w.err, TRUE}
    BY <1>2
  <2> QED BY <2>1, <2>3, <2>4 DEF FinishLease
<1>7. \A s : Pass(s) => w'.pc = s /\ Lets
  BY DEF Pass, Goto
<1> QED BY <1>3, <1>4, <1>5, <1>6, <1>7

-----------------------------------------------------------------------------
(* Every builder *)

\* The stages of a builder at which it has not failed.
Busy(m) ==
  {"open", "hash"} \cup BuilderRead \cup TabledStages \cup FormattedStages(m)
    \cup CopiedStages(m) \cup FlushedStages(m) \cup SettledStages(m)

\* A stage of its own is where a builder is.
LEMMA Standing ==
  ASSUME NEW m \in Builders
  PROVE  /\ w.mode = m /\ w.pc \notin Aside => Place = w.pc /\ Reached = Level(m, w.pc)
         /\ w'.mode = m /\ w'.pc \notin Aside => Place' = w'.pc /\ Reached' = Level(m, w'.pc)
         /\ w'.mode = m /\ w'.pc \in Asking => Place' = w'.ret /\ Reached' = Level(m, w'.ret)
         /\ Asking \cap Unprepared = {}
BY DEF Place, Reached, Aside, Asking, Unprepared, Containers, Reading

\* Before the table is written a builder reads the image and looks at the target.
LEMMA BuilderReads ==
  ASSUME DataInv, NEW m \in Builders, w.mode = m, w.pc \in BuilderRead, Reads,
         w'.pc \in BuilderRead \/ (w'.pc \in Asking /\ w'.ret \in BuilderRead)
  PROVE  DataInv'
<1>1. w'.mode = m /\ w.mode # "freedos" /\ w.mode \in Makers
  BY DEF Reads, SameImage, Makers, Builders
<1>2. Reached = "read"
  BY Standing, BuilderLevels, Within
<1>3. Reached' = "read" /\ w'.pc \notin Unprepared
  BY <1>1, Standing, BuilderLevels, Within DEF Aside
<1> QED BY <1>1, <1>2, <1>3, ReadOn

\* It writes the table.
LEMMA BuilderTables ==
  ASSUME Inv, DataInv, NEW m \in Builders, w.mode = m, w.pc \in {"table", "write-table"}, Tables,
         w'.pc \in TabledStages
  PROVE  DataInv'
<1>1. w'.mode = m /\ w.mode \in Makers
  BY DEF Tables, Keeps, Reads, SameImage, Makers
<1>2. w.pc \in BuilderRead
  BY DEF BuilderRead
<1>3. Reached = "read" /\ Place \in TargetStages(w.mode)
  BY <1>2, Standing, BuilderLevels, Within DEF TargetStages
<1>4. Reached' = "tabled" /\ w'.pc \notin Unprepared
  BY <1>1, Standing, BuilderLevels, Within DEF Aside
<1> QED BY <1>1, <1>3, <1>4, TableOn

\* With the table on the target, files on it or everything flushed, it looks at it or changes
\* what is not counted here.
LEMMA BuilderStays ==
  ASSUME DataInv, NEW m \in Builders, w.mode = m, Looks \/ Stays,
         \/ w.pc \in TabledStages /\ w'.pc \in TabledStages
         \/ w.pc \in FormattedStages(m) /\ w'.pc \in FormattedStages(m)
         \/ w.pc \in CopiedStages(m) /\ w'.pc \in CopiedStages(m)
         \/ /\ w.pc \in FlushedStages(m) /\ w'.pc \in FlushedStages(m)
            /\ w.verify /\ w.pc \in Rereading => w'.pc \in Rereading
  PROVE  DataInv'
<1>1. w'.mode = m /\ w.mode \in Makers /\ w.mode # "raw"
  BY DEF Looks, Stays, Keeps, Reads, SameImage, Makers, Builders
<1>2. w.pc \notin Aside /\ w'.pc \notin Aside
  BY Within
<1>3. Reached \in Hashed /\ Reached' = Reached
  BY <1>1, <1>2, Standing, BuilderLevels DEF Hashed
<1>4. w.verify /\ Place \in Rereading => Place' \in Rereading
  <2>1. Place = w.pc /\ Place' = w'.pc
    BY <1>1, <1>2, Standing
  <2>2. TabledStages \cap Rereading = {} /\ FormattedStages(m) \cap Rereading = {}
        /\ CopiedStages(m) \cap Rereading = {}
    BY DEF TabledStages, FormattedStages, CopiedStages, Rereading
  <2> QED BY <2>1, <2>2
<1> QED BY <1>1, <1>2, <1>3, <1>4, StaysOn DEF Aside

\* The partition is zeroed.
LEMMA BuilderZeroes ==
  ASSUME Inv, DataInv, NEW m \in Builders, w.mode = m, w.pc \in TabledStages, w'.pc \in TabledStages,
         Puts([Held EXCEPT !.fs = "none"])
  PROVE  DataInv'
<1>1. w'.mode = m /\ w.mode \in Makers
  BY DEF Puts, Keeps, Reads, SameImage, Makers
<1>2. Reached = "tabled" /\ Place \in TargetStages(w.mode)
  BY Standing, BuilderLevels, Within DEF TargetStages
<1>3. Reached' = "tabled" /\ w'.pc \notin Unprepared
  BY <1>1, Standing, BuilderLevels, Within DEF Aside
<1>4. [Held EXCEPT !.fs = "none"].table = "plan"
  <2>1. Held.table = "plan"
    BY <1>1, <1>2, Going DEF TargetDataInv, OnTarget, Hashed
  <2>2. Held \in Cells
    BY <1>1, <1>2, TargetIn DEF Held
  <2> QED BY <2>1, <2>2 DEF Cells
<1> QED BY <1>1, <1>2, <1>3, <1>4, TabledOn

\* The filesystem is made.
LEMMA BuilderFormats ==
  ASSUME Inv, DataInv, NEW m \in Builders, w.mode = m, w.pc \in TabledStages,
         Puts([Held EXCEPT !.fs = "empty"]), w'.pc \in FormattedStages(m)
  PROVE  DataInv'
<1>1. w'.mode = m /\ w.mode \in Makers
  BY DEF Puts, Keeps, Reads, SameImage, Makers
<1>2. Reached = "tabled" /\ Place \in TargetStages(w.mode)
  BY Standing, BuilderLevels, Within DEF TargetStages
<1>3. Reached' = "formatted" /\ w'.pc \notin Unprepared
  BY <1>1, Standing, BuilderLevels, Within DEF Aside
<1> QED BY <1>1, <1>2, <1>3, FormatOn

\* Files are copied: the image's, or what was put aside.
LEMMA BuilderCopies ==
  ASSUME Inv, DataInv, NEW m \in Builders, w.mode = m,
         w.pc \in FormattedStages(m) \cup CopiedStages(m), w'.pc \in CopiedStages(m),
         NEW content, Puts([Held EXCEPT !.fs = Mixed(@, content)]),
         \/ content \in {Bytes, Mixed(w.staged, Bytes)}
         \/ content = w.staged /\ w.staged # None
  PROVE  DataInv'
<1>1. w'.mode = m /\ w.mode \in Makers /\ w.mode \notin {"raw", "freedos"}
  BY DEF Puts, Keeps, Reads, SameImage, Makers, Builders
<1>2. Reached \in {"formatted", "copied"} /\ Place \in TargetStages(w.mode)
  BY Standing, BuilderLevels, Within DEF TargetStages
<1>3. Reached' = "copied" /\ w'.pc \notin Unprepared
  BY <1>1, Standing, BuilderLevels, Within DEF Aside
<1>4. Steady => content = w.digest
  BY <1>1, <1>2, Going DEF ReadInv, Hashed, Mixed
<1>5. Place \notin Rereading
  <2>1. Place = w.pc
    BY Standing, Within
  <2> QED BY <2>1 DEF FormattedStages, CopiedStages, Rereading
<1> QED BY <1>1, <1>2, <1>3, <1>4, <1>5, CopyOn

\* They are flushed.
LEMMA BuilderFlushes ==
  ASSUME Inv, DataInv, NEW m \in Builders, w.mode = m, Flushes,
         w.pc \in CopiedStages(m) \cup FlushedStages(m), w'.pc \in FlushedStages(m),
         w.verify => w'.pc \in Rereading
  PROVE  DataInv'
<1>1. w'.mode = m /\ w.mode \in Makers
  BY DEF Flushes, Keeps, Reads, SameImage, Makers
<1>2. Reached \in {"copied", "flushed"} /\ Place \in TargetStages(w.mode)
  BY Standing, BuilderLevels, Within DEF TargetStages
<1>3. Reached' = "flushed" /\ w'.pc \notin Unprepared /\ Place' = w'.pc
  BY <1>1, Standing, BuilderLevels, Within DEF Aside
<1> QED BY <1>1, <1>2, <1>3, FlushOn

\* They are read back.
LEMMA BuilderRereads ==
  ASSUME DataInv, NEW m \in Builders, w.mode = m, Looks,
         w.pc \in FlushedStages(m), w'.pc \in FlushedStages(m),
         Held.fs = Mixed(w.staged, Bytes)
  PROVE  DataInv'
<1>1. w'.mode = m /\ w.mode \in Makers /\ w.mode # "freedos"
  BY DEF Looks, Keeps, Reads, SameImage, Makers, Builders
<1>2. Reached = "flushed"
  BY Standing, BuilderLevels, Within
<1>3. Reached' = "flushed" /\ w'.pc \notin Unprepared
  BY <1>1, Standing, BuilderLevels, Within DEF Aside
<1>4. Steady => Held.fs = w.digest
  BY <1>1, <1>2, Going DEF ReadInv, Hashed, Mixed
<1> QED BY <1>1, <1>2, <1>3, <1>4, RereadOn

\* The image is looked at for the last time.
LEMMA BuilderSettles ==
  ASSUME Inv, DataInv, NEW m \in Builders, w.mode = m, Looks, Steady,
         w.pc \in FlushedStages(m) \ Rereading, w'.pc \in SettledStages(m)
  PROVE  DataInv'
<1>1. w'.mode = m /\ w.mode \in Makers
  BY DEF Looks, Keeps, Reads, SameImage, Makers
<1>2. Reached = "flushed" /\ Place = w.pc /\ Place \in TargetStages(w.mode)
  BY Standing, BuilderLevels, Within DEF TargetStages
<1>3. Reached' = "settled" /\ w'.pc \notin Unprepared
  BY <1>1, Standing, BuilderLevels, Within DEF Aside
<1> QED BY <1>1, <1>2, <1>3, SettleOn

\* The settled stages of a builder are not its last ones.
LEMMA NotClosing ==
  ASSUME NEW m \in Builders
  PROVE  SettledStages(m) \cap (ClosingStages \cup ClosedStages) = {}
BY DEF SettledStages, ClosingStages, ClosedStages, Builders

\* After that the target is looked at.
LEMMA BuilderLooks ==
  ASSUME Inv, DataInv, NEW m \in Builders, w.mode = m, w.pc \in SettledStages(m), Looks,
         w'.pc \in SettledStages(m) \cup {"undo"}
  PROVE  DataInv'
<1>1. w'.mode = m /\ w.mode \in Makers
  BY DEF Looks, Keeps, Reads, SameImage, Makers
<1>2. Reached = "settled" /\ w.pc \notin ClosingStages \cup ClosedStages
  BY Standing, BuilderLevels, Within, NotClosing
<1>3. "undo" \in ClosingStages
  BY DEF ClosingStages
<1>4. Reached' = "settled" /\ w'.pc \notin Unprepared
  BY <1>1, <1>3, Standing, BuilderLevels, Within DEF Aside
<1>5. ~w.err
  BY <1>1, <1>2 DEF DataInv, FailedInv, Makers, Builders
<1>6. Fails => w'.pc \in ClosingStages
  <2>1. ~Fails
    BY <1>5 DEF Fails, Looks, Keeps, Reads, SameEnd
  <2> QED BY <2>1
<1> QED BY <1>1, <1>2, <1>4, <1>6, SettledLooks

\* It may be flushed again.
LEMMA BuilderFlushesAgain ==
  ASSUME Inv, DataInv, NEW m \in Builders, w.mode = m, m # "windows", Flushes,
         w.pc \in SettledStages(m) \cap TargetStages(m), w'.pc \in SettledStages(m)
  PROVE  DataInv'
<1>1. w'.mode = m /\ w.mode \in Makers
  BY DEF Flushes, Keeps, Reads, SameImage, Makers
<1>2. Reached = "settled" /\ w.pc \notin ClosingStages \cup ClosedStages /\ Place = w.pc
  BY Standing, BuilderLevels, Within, NotClosing
<1>3. Reached' = "settled" /\ w'.pc \notin Unprepared
  BY <1>1, Standing, BuilderLevels, Within DEF Aside
<1>4. ~w.verify
  BY DEF DataInv, PreparedInv, Builders
<1> QED BY <1>1, <1>2, <1>3, <1>4, SettledFlush

\* It may fail.
LEMMA BuilderFails ==
  ASSUME Inv, DataInv, NEW m \in Builders, w.mode = m, w.pc \in Busy(m), Fails, w'.pc \in ClosingStages
  PROVE  DataInv'
<1>1. w'.mode = m /\ w.mode \in Makers /\ w.mode # "raw"
  BY DEF Fails, SameImage, Makers, Builders
<1>2. Reached' = "settled" /\ w'.pc \notin Unprepared
  BY <1>1, Standing, BuilderLevels, Within DEF Aside
<1>3. CASE w.pc \in SettledStages(m)
  <2>1. Reached = "settled" /\ w.pc \notin ClosingStages \cup ClosedStages
    BY <1>3, Standing, BuilderLevels, Within, NotClosing
  <2> QED BY <1>1, <1>2, <2>1, SettledLooks
<1>4. CASE w.pc \notin SettledStages(m)
  <2>1. w.pc \notin Aside
    BY <1>4, Within DEF Busy, Aside, Asking, Unprepared, Containers, Reading
  <2>2. Reached \in Hashed \cup {"unread"}
    BY <1>4, <2>1, Standing, BuilderLevels DEF Busy, Hashed
  <2> QED BY <1>1, <2>2, FailsData
<1> QED BY <1>3, <1>4

\* It lets go of what it has.
LEMMA BuilderLets ==
  ASSUME Inv, DataInv, NEW m \in Builders, w.mode = m, Lets,
         w.pc \in (ClosingStages \cup ClosedStages) \ {"ended"},
         w'.pc \in ClosingStages \cup ClosedStages
  PROVE  DataInv'
BY ClosesOn DEF Settles, Makers

\* It announces the completion.
LEMMA BuilderAnnounces ==
  ASSUME Inv, DataInv, NEW m \in Builders, w.mode = m, w.pc \in SettledStages(m),
         w' = [w EXCEPT !.pc = "undo", !.announced = TRUE], UNCHANGED <<disk, src>>
  PROVE  DataInv'
<1>1. w.mode \in Makers
  BY DEF Makers
<1>2. Reached = "settled" /\ w.pc \notin ClosingStages \cup ClosedStages
  BY Standing, BuilderLevels, Within, NotClosing
<1>3. ~w.err
  BY <1>1, <1>2 DEF DataInv, FailedInv, Makers, Builders
<1>4. w.own = w.known
  BY <1>3 DEF Inv, CleanInv
<1>5. Settles /\ w'.pc = "undo"
  BY <1>3, DataFieldsIn DEF Inv, DataFields, Settles, SameImage, disk
<1> QED BY <1>1, <1>2, <1>4, <1>5, AnnouncesOn

\* The image is held and hashed.
LEMMA BuilderHashes ==
  ASSUME Inv, DataInv, NEW m \in Builders, w.mode = m,
         \/ w.pc = "open" /\ AcquireReadLease("hash")
         \/ w.pc = "hash" /\ \E s \in BuilderRead : HashFirst(s)
  PROVE  DataInv'
<1>1. {"open", "hash"} \cap Aside = {} /\ "write" \notin BuilderRead
  BY DEF Aside, Asking, Unprepared, Containers, Reading, BuilderRead, ReviewStages
<1>2. Reached = "unread"
  BY <1>1, Standing, BuilderLevels
<1>3. CASE AcquireReadLease("hash")
  <2>1. "hash" \notin Aside /\ Level(w.mode, "hash") = "unread"
    BY <1>1, BuilderLevels
  <2> QED BY <1>2, <1>3, <2>1, HoldsOn
<1>4. CASE \E s \in BuilderRead : HashFirst(s)
  <2>1. PICK s \in BuilderRead : HashFirst(s)
    BY <1>4
  <2>2. s \notin Aside /\ Level(w.mode, s) = "read" /\ s # "write"
    BY <1>1, Within, BuilderLevels
  <2> QED BY <1>2, <2>1, <2>2, HashesOn
<1> QED BY <1>3, <1>4

\* What is put there again is the same.
LEMMA BuilderPutsSame ==
  ASSUME Inv, NEW m \in Builders, w.mode = m, Puts(Held),
         w.pc \in FormattedStages(m) \cup CopiedStages(m) \cup FlushedStages(m)
  PROVE  Stays
<1>1. w.mode \in Makers /\ Place \in TargetStages(w.mode)
  BY Standing, Within DEF Makers, TargetStages
<1> QED BY <1>1, SameContents

-----------------------------------------------------------------------------
(* Windows media *)

\* The plan is made.
LEMMA WindowsPlansData ==
  ASSUME Inv, DataInv,
         \/ InspectMountedISO \/ FindExistingSplitFiles \/ AnalyzeCapabilities
         \/ BindBIOSMetadata \/ ResolveWindowsLayout \/ ValidateFATCompatibility
         \/ InspectWindowsCA2023Capability \/ NoWindowsCA2023 \/ InspectDriverFolder
         \/ PreparePlanAnswerFile \/ NoAnswerFile \/ FinalizePlan
         \/ (\E split \in BOOLEAN : TargetFits(split)) \/ PrepareSplitImage
  PROVE  DataInv'
<1>1. w.mode = "windows" /\ w.pc \in BuilderRead
  BY DEF InspectMountedISO, FindExistingSplitFiles, AnalyzeCapabilities, BindBIOSMetadata,
         ResolveWindowsLayout, ValidateFATCompatibility, InspectWindowsCA2023Capability,
         NoWindowsCA2023, InspectDriverFolder, PreparePlanAnswerFile, NoAnswerFile,
         FinalizePlan, TargetFits, PrepareSplitImage, Win, At, BuilderRead, ReviewStages
<1>2. (\E split \in BOOLEAN : TargetFits(split)) => Pass("split") \/ Pass("recheck")
  BY DEF TargetFits
<1>3. Reads /\ w'.pc \in BuilderRead
  BY <1>2, LookingSteps
     DEF Inv, InspectMountedISO, FindExistingSplitFiles, AnalyzeCapabilities, BindBIOSMetadata,
         ResolveWindowsLayout, ValidateFATCompatibility, InspectWindowsCA2023Capability,
         NoWindowsCA2023, InspectDriverFolder, PreparePlanAnswerFile, NoAnswerFile,
         FinalizePlan, PrepareSplitImage, Looks, Keeps, BuilderRead, ReviewStages
<1> QED BY <1>1, <1>3, BuilderReads DEF Builders

\* The target is opened, the image looked at, and the target for the last time.
LEMMA WindowsReadsData ==
  ASSUME Inv, DataInv,
         \/ WinOpenTarget \/ WinWorkspace \/ WinMountISO \/ ScanDBX \/ StageWindowsCA2023
         \/ WinRecheck \/ WinBeforeDestructive \/ VerifyWindowsCA2023Staging \/ WinWipe
  PROVE  DataInv'
<1>1. w.mode = "windows" /\ w.pc \in BuilderRead
  BY DEF WinOpenTarget, WinWorkspace, WinMountISO, ScanDBX, StageWindowsCA2023, WinRecheck,
         WinBeforeDestructive, VerifyWindowsCA2023Staging, WinWipe, Win, At, BuilderRead,
         ReviewStages
<1>2. CASE WinOpenTarget \/ WinWorkspace \/ WinBeforeDestructive \/ VerifyWindowsCA2023Staging \/ WinWipe
  <2>1. Reads /\ (w'.pc \in BuilderRead \/ (w'.pc \in Asking /\ w'.ret \in BuilderRead))
    BY <1>2, MarkingSteps, ChangingSteps, Zenon
       DEF Inv, WinOpenTarget, WinWorkspace, WinBeforeDestructive, VerifyWindowsCA2023Staging,
           WinWipe, Looks, Keeps, Puts, BuilderRead, ReviewStages
  <2> QED BY <1>1, <2>1, BuilderReads DEF Builders
<1>3. CASE WinMountISO \/ ScanDBX \/ StageWindowsCA2023 \/ WinRecheck
  <2>1. (Reads /\ w'.pc \in BuilderRead) \/ (Fails /\ w'.pc = "undo")
    BY <1>3, LookingSteps, FailingSteps, MarkingSteps, RecheckSteps, Zenon
       DEF Inv, WinMountISO, ScanDBX, StageWindowsCA2023, WinRecheck, Looks, Keeps, BuilderRead,
           ReviewStages
  <2>2. "windows" \in Builders /\ "undo" \in ClosingStages
    BY DEF Builders, ClosingStages
  <2> QED BY <1>1, <2>1, <2>2, BuilderReads, BuilderFails DEF Busy
<1> QED BY <1>2, <1>3

\* The target is partitioned and formatted.
LEMMA WindowsFormatsData ==
  ASSUME Inv, DataInv,
         \/ WriteGPT \/ WriteMBR \/ VerifyGPTMetadata \/ WriteUEFINTFSPartitionImage
         \/ RereadPartitionTable \/ WaitForPartition \/ VerifyUEFINTFSPartition
         \/ UnmountDeviceMounts \/ ZeroPartition \/ QuickFormat \/ VerifyZeroPartition
         \/ WinFormat
  PROVE  DataInv'
<1>1. "windows" \in Builders
  BY DEF Builders
<1>2. CASE WriteGPT \/ WriteMBR
  <2>1. w.mode = "windows" /\ w.pc \in {"table", "write-table"} /\ Tables /\ w'.pc \in TabledStages
    BY <1>2, ChangingSteps DEF Inv, WriteGPT, WriteMBR, Win, At, TabledStages
  <2> QED BY <1>1, <2>1, BuilderTables
<1>3. CASE \/ VerifyGPTMetadata \/ RereadPartitionTable \/ WaitForPartition
           \/ VerifyUEFINTFSPartition \/ UnmountDeviceMounts \/ QuickFormat \/ VerifyZeroPartition
  <2>1. /\ w.mode = "windows" /\ w.pc \in TabledStages /\ w'.pc \in TabledStages
        /\ Looks
    BY <1>3, LookingSteps
       DEF Inv, VerifyGPTMetadata, RereadPartitionTable, WaitForPartition, VerifyUEFINTFSPartition, UnmountDeviceMounts, QuickFormat,
           VerifyZeroPartition, Win, At, TabledStages
  <2> QED BY <1>1, <2>1, BuilderStays
<1>4. CASE ZeroPartition
  <2>1. /\ w.mode = "windows" /\ w.pc \in TabledStages /\ w'.pc \in TabledStages
        /\ Puts([Held EXCEPT !.fs = "none"])
    BY <1>4, ChangingSteps DEF Inv, ZeroPartition, Win, At, TabledStages
  <2> QED BY <1>1, <2>1, BuilderZeroes
<1>5. CASE WinFormat
  <2>1. /\ w.mode = "windows" /\ w.pc \in TabledStages /\ w'.pc \in FormattedStages("windows")
        /\ Puts([Held EXCEPT !.fs = "empty"])
    BY <1>5, ChangingSteps DEF Inv, WinFormat, Win, At, TabledStages, FormattedStages
  <2> QED BY <1>1, <2>1, BuilderFormats
<1>6. CASE WriteUEFINTFSPartitionImage
  <2>1. w.mode = "windows" /\ w.pc \in TabledStages /\ w'.pc \in TabledStages /\ Stays
    BY <1>6, MarkingSteps, Zenon DEF Inv, WriteUEFINTFSPartitionImage, Win, At, TabledStages
  <2> QED BY <1>1, <2>1, BuilderStays
<1> QED BY <1>2, <1>3, <1>4, <1>5, <1>6

\* It is filled.
LEMMA WindowsCopiesData ==
  ASSUME Inv, DataInv,
         \/ ReadVolumeLabel \/ InstallLegacyBIOSBoot \/ NoLegacyBoot \/ WinUnmountAgain
         \/ WinMountUSB \/ CopyTree \/ CopyImage \/ ApplyWindowsCA2023 \/ WinUmount \/ WinFlush
  PROVE  DataInv'
<1>1. "windows" \in Builders /\ "undo" \in ClosingStages
  BY DEF Builders, ClosingStages
<1>2. CASE ReadVolumeLabel \/ NoLegacyBoot \/ WinUnmountAgain \/ WinMountUSB
  <2>1. /\ w.mode = "windows" /\ w.pc \in FormattedStages("windows")
        /\ \/ Looks /\ w'.pc \in FormattedStages("windows")
           \/ Fails /\ w'.pc = "undo"
    BY <1>2, LookingSteps, FailingSteps
       DEF Inv, ReadVolumeLabel, NoLegacyBoot, WinUnmountAgain, WinMountUSB, Win, At,
           FormattedStages
  <2> QED BY <1>1, <2>1, BuilderStays, BuilderFails DEF Busy
<1>3. CASE InstallLegacyBIOSBoot
  <2>1. /\ w.mode = "windows" /\ w.pc \in FormattedStages("windows") /\ Puts(Held)
        /\ w'.pc \in FormattedStages("windows")
    BY <1>3, ChangingSteps DEF Inv, InstallLegacyBIOSBoot, Win, At, FormattedStages
  <2>2. Stays
    BY <1>1, <2>1, BuilderPutsSame
  <2> QED BY <1>1, <2>1, <2>2, BuilderStays
<1>4. CASE CopyTree
  <2>1. /\ w.mode = "windows" /\ w.pc \in FormattedStages("windows")
        /\ w'.pc \in CopiedStages("windows") /\ Puts([Held EXCEPT !.fs = Mixed(@, Bytes)])
    BY <1>4, ChangingSteps DEF Inv, CopyTree, WithExclusiveMount, Win, At, FormattedStages, CopiedStages
  <2> QED BY <1>1, <2>1, BuilderCopies
<1>5. CASE CopyImage
  <2>1. /\ w.mode = "windows" /\ w.pc \in CopiedStages("windows")
        /\ w'.pc \in CopiedStages("windows")
        /\ Puts([Held EXCEPT !.fs = Mixed(@, Mixed(w.staged, Bytes))])
    BY <1>5, ChangingSteps DEF Inv, CopyImage, WithExclusiveMount, Win, At, CopiedStages
  <2> QED BY <1>1, <2>1, BuilderCopies
<1>6. CASE ApplyWindowsCA2023
  <2>1. w.mode = "windows" /\ w.pc \in CopiedStages("windows")
    BY <1>6 DEF ApplyWindowsCA2023, Win, At, CopiedStages
  <2>2. \/ Looks /\ w'.pc = "sync"
        \/ Puts([Held EXCEPT !.fs = Mixed(@, w.staged)]) /\ w.staged # None /\ w'.pc = "sync"
    BY <1>6, LookingSteps, ChangingSteps DEF Inv, ApplyWindowsCA2023, WithExclusiveMount
  <2>3. "sync" \in CopiedStages("windows")
    BY DEF CopiedStages
  <2> QED BY <1>1, <2>1, <2>2, <2>3, BuilderStays, BuilderCopies
<1>7. CASE WinUmount
  <2>1. /\ w.mode = "windows" /\ w.pc \in CopiedStages("windows")
        /\ w'.pc \in CopiedStages("windows") /\ Looks
    BY <1>7, LookingSteps DEF Inv, WinUmount, Win, At, CopiedStages
  <2> QED BY <1>1, <2>1, BuilderStays
<1>8. CASE WinFlush
  <2>1. /\ w.mode = "windows" /\ w.pc \in CopiedStages("windows")
        /\ w'.pc \in FlushedStages("windows") /\ Flushes
        /\ w.verify => w'.pc \in Rereading
    BY <1>8, ChangingSteps DEF Inv, WinFlush, Win, At, CopiedStages, FlushedStages, Rereading
  <2> QED BY <1>1, <2>1, BuilderFlushes
<1> QED BY <1>2, <1>3, <1>4, <1>5, <1>6, <1>7, <1>8

\* It is read back and let go.
LEMMA WindowsEndsData ==
  ASSUME Inv, DataInv,
         \/ WinRemount \/ VerifyTree \/ VerifyStagedOnly \/ VerifyDirectory \/ VerifyWindowsCA2023
         \/ WinCheckFilesystem \/ WinRecheckCopied \/ WinUmountISO \/ WinFail \/ WinFailTorn
         \/ WinCleanUSB \/ WinCleanISO \/ WinCleanWork \/ FinishWindowsMediaFile \/ WinRelease
  PROVE  DataInv'
<1>1. "windows" \in Builders /\ "undo" \in ClosingStages
  BY DEF Builders, ClosingStages
<1>2. CASE WinRemount \/ VerifyStagedOnly \/ VerifyDirectory \/ VerifyWindowsCA2023 \/ WinCheckFilesystem
  <2>1. /\ w.mode = "windows" /\ w.pc \in FlushedStages("windows")
        /\ \/ Looks /\ w'.pc \in FlushedStages("windows")
              /\ (w.verify /\ w.pc \in Rereading => w'.pc \in Rereading)
           \/ Fails /\ w'.pc = "undo"
    BY <1>2, LookingSteps, FailingSteps
       DEF Inv, WinRemount, VerifyStagedOnly, VerifyDirectory, VerifyWindowsCA2023,
           WinCheckFilesystem, WithExclusiveMount, Win, At, FlushedStages, Rereading
  <2> QED BY <1>1, <2>1, BuilderStays, BuilderFails DEF Busy
<1>3. CASE VerifyTree
  <2>1. /\ w.mode = "windows" /\ w.pc \in FlushedStages("windows")
        /\ w'.pc \in FlushedStages("windows") /\ Looks /\ Held.fs = Mixed(w.staged, Bytes)
    BY <1>3, LookingSteps DEF Inv, VerifyTree, WithExclusiveMount, Win, At, FlushedStages
  <2> QED BY <1>1, <2>1, BuilderRereads
<1>4. CASE WinRecheckCopied
  <2>1. /\ w.mode = "windows" /\ w.pc \in FlushedStages("windows") \ Rereading
        /\ \/ Looks /\ Steady /\ w'.pc \in SettledStages("windows")
           \/ Fails /\ w'.pc = "undo"
    BY <1>4, RecheckSteps DEF Inv, WinRecheckCopied, Win, At, FlushedStages, SettledStages, Rereading
  <2> QED BY <1>1, <2>1, BuilderSettles, BuilderFails DEF Busy
<1>5. CASE WinUmountISO
  <2>1. w.mode = "windows" /\ w.pc \in SettledStages("windows") /\ w'.pc = "undo" /\ Looks
    BY <1>5, LookingSteps DEF Inv, WinUmountISO, Win, At, SettledStages
  <2> QED BY <1>1, <2>1, BuilderLooks
<1>6. CASE WinFail \/ WinFailTorn
  <2>1. w.mode = "windows" /\ w.pc \in Busy("windows") /\ w'.pc = "undo" /\ Fails
    BY <1>6, FailingSteps
       DEF Inv, WinFail, WinFailTorn, Busy, BuilderRead, ReviewStages, TabledStages, FormattedStages,
           CopiedStages, FlushedStages, SettledStages
  <2> QED BY <1>1, <2>1, BuilderFails
<1>7. CASE WinCleanUSB \/ WinCleanISO \/ WinCleanWork \/ FinishWindowsMediaFile \/ WinRelease
  <2>1. /\ w.mode = "windows" /\ w.pc \in (ClosingStages \cup ClosedStages) \ {"ended"}
        /\ w'.pc \in ClosingStages \cup ClosedStages /\ Lets
    BY <1>7, ClosingSteps
       DEF Inv, WinCleanUSB, WinCleanISO, WinCleanWork, FinishWindowsMediaFile, WinRelease, Win, At,
           ClosingStages, ClosedStages
  <2> QED BY <1>1, <2>1, BuilderLets
<1> QED BY <1>2, <1>3, <1>4, <1>5, <1>6, <1>7

\* Every step of the writer of Windows media.
LEMMA WindowsData ==
  ASSUME Inv, DataInv, WindowsNext
  PROVE  DataInv'
<1>1. CASE WinHold \/ WinHash
  <2>1. "windows" \in Builders /\ "target" \in BuilderRead
    BY DEF Builders, BuilderRead
  <2> QED BY <1>1, <2>1, BuilderHashes DEF WinHold, WinHash, Win, At
<1>2. CASE ~(WinHold \/ WinHash)
  BY <1>2, WindowsPlansData, WindowsReadsData, WindowsFormatsData, WindowsCopiesData, WindowsEndsData
     DEF WindowsNext
<1> QED BY <1>1, <1>2

-----------------------------------------------------------------------------
(* Windows To Go *)

\* Only Windows media and the raw writer read everything back when asked.
LEMMA NeverAsked == DataInv /\ w.mode \in Builders \ {"windows"} => ~w.verify
BY DEF DataInv, PreparedInv, Builders

\* The plan is made.
LEMMA ToGoReadsData ==
  ASSUME Inv, DataInv,
         \/ ToGoOpenTarget \/ CreateSecureWorkDir \/ ToGoMountISO \/ VerifyReadOnlyLoopMount
         \/ InspectMountedInstallPayload \/ InspectWIMMetadata \/ BuildPlan
         \/ ResolveRequiredTools \/ LiveLogicalSectorSize \/ PreflightImage \/ ToGoRecheck
         \/ ReinspectImage \/ ToGoReview \/ ToGoErase \/ ToGoWipe \/ BuildGPT
  PROVE  DataInv'
<1>1. w.mode = "windows-to-go" /\ w.pc \in BuilderRead
  BY DEF ToGoOpenTarget, CreateSecureWorkDir, ToGoMountISO, VerifyReadOnlyLoopMount,
         InspectMountedInstallPayload, InspectWIMMetadata, BuildPlan, ResolveRequiredTools,
         LiveLogicalSectorSize, PreflightImage, ToGoRecheck, ReinspectImage, ToGoReview,
         ToGoErase, ToGoWipe, BuildGPT, ToGo, At, BuilderRead, ReviewStages
<1>2. "windows-to-go" \in Builders /\ "undo" \in ClosingStages
  BY DEF Builders, ClosingStages
<1>3. CASE ToGoOpenTarget \/ CreateSecureWorkDir \/ ToGoReview \/ ToGoErase \/ ToGoWipe
  <2>1. Reads /\ (w'.pc \in BuilderRead \/ (w'.pc \in Asking /\ w'.ret \in BuilderRead))
    BY <1>3, MarkingSteps, ChangingSteps, Zenon
       DEF Inv, ToGoOpenTarget, CreateSecureWorkDir, ToGoReview, ToGoErase, ToGoWipe, Looks,
           Keeps, Puts, BuilderRead, ReviewStages
  <2> QED BY <1>1, <1>2, <2>1, BuilderReads
<1>4. CASE \/ VerifyReadOnlyLoopMount \/ InspectMountedInstallPayload \/ InspectWIMMetadata
           \/ BuildPlan \/ ResolveRequiredTools \/ LiveLogicalSectorSize \/ PreflightImage
           \/ BuildGPT
  <2>1. Reads /\ w'.pc \in BuilderRead
    BY <1>4, LookingSteps
       DEF Inv, VerifyReadOnlyLoopMount, InspectMountedInstallPayload, InspectWIMMetadata,
           BuildPlan, ResolveRequiredTools, LiveLogicalSectorSize, PreflightImage, BuildGPT,
           Looks, Keeps, BuilderRead, ReviewStages
  <2> QED BY <1>1, <1>2, <2>1, BuilderReads
<1>5. CASE ToGoMountISO \/ ToGoRecheck
  <2>1. (Reads /\ w'.pc \in BuilderRead) \/ (Fails /\ w'.pc = "undo")
    BY <1>5, FailingSteps, RecheckSteps
       DEF Inv, ToGoMountISO, ToGoRecheck, Looks, Keeps, BuilderRead, ReviewStages
  <2> QED BY <1>1, <1>2, <2>1, BuilderReads, BuilderFails DEF Busy
<1>6. CASE ReinspectImage
  <2>1. Pass("review") \/ (Fails /\ w'.pc = "undo")
    BY <1>6, MarkingSteps, Zenon DEF Inv, ReinspectImage, Pass
  <2>2. (Reads /\ w'.pc \in BuilderRead) \/ (Fails /\ w'.pc = "undo")
    BY <2>1, LookingSteps DEF Inv, Looks, Keeps, BuilderRead, ReviewStages
  <2> QED BY <1>1, <1>2, <2>2, BuilderReads, BuilderFails DEF Busy
<1> QED BY <1>3, <1>4, <1>5, <1>6

\* The target is partitioned, formatted, and the image applied.
LEMMA ToGoAppliesData ==
  ASSUME Inv, DataInv,
         \/ ToGoWriteGPT \/ ToGoReread \/ ToGoWaitForPartition \/ UnmountAll \/ RequireUnmounted
         \/ FormatPartitions \/ NewTargetHealthMonitor \/ ToGoApply \/ RunWIMApply \/ ToGoFlushOS
  PROVE  DataInv'
<1>1. "windows-to-go" \in Builders
  BY DEF Builders
<1>2. CASE ToGoWriteGPT
  <2>1. /\ w.mode = "windows-to-go" /\ w.pc \in {"table", "write-table"} /\ Tables
        /\ w'.pc \in TabledStages
    BY <1>2, ChangingSteps DEF Inv, ToGoWriteGPT, ToGo, At, TabledStages
  <2> QED BY <1>1, <2>1, BuilderTables
<1>3. CASE ToGoReread
  <2>1. Goto("partition") /\ src' = src /\ cache' = cache /\ media' = media
    BY <1>3 DEF ToGoReread
  <2>2. w'.pc = "partition" /\ Looks
    BY <2>1, DataFieldsIn DEF Inv, DataFields, Goto, Looks, Keeps, Reads, SameImage, SameEnd
  <2>3. w.mode = "windows-to-go" /\ w.pc \in TabledStages /\ w'.pc \in TabledStages
    BY <1>3, <2>2 DEF ToGoReread, ToGo, At, TabledStages
  <2> QED BY <1>1, <2>2, <2>3, BuilderStays
<1>4. CASE ToGoWaitForPartition \/ UnmountAll \/ RequireUnmounted
  <2>1. /\ w.mode = "windows-to-go" /\ w.pc \in TabledStages /\ w'.pc \in TabledStages /\ Looks
    BY <1>4, LookingSteps
       DEF Inv, ToGoWaitForPartition, UnmountAll, RequireUnmounted, ToGo, At, TabledStages
  <2> QED BY <1>1, <2>1, BuilderStays
<1>5. CASE FormatPartitions
  <2>1. /\ w.mode = "windows-to-go" /\ w.pc \in TabledStages
        /\ w'.pc \in FormattedStages("windows-to-go") /\ Puts([Held EXCEPT !.fs = "empty"])
    BY <1>5, ChangingSteps DEF Inv, FormatPartitions, ToGo, At, TabledStages, FormattedStages
  <2> QED BY <1>1, <2>1, BuilderFormats
<1>6. CASE NewTargetHealthMonitor
  <2>1. /\ w.mode = "windows-to-go" /\ w.pc \in FormattedStages("windows-to-go")
        /\ w'.pc \in FormattedStages("windows-to-go") /\ Looks
    BY <1>6, LookingSteps DEF Inv, NewTargetHealthMonitor, ToGo, At, FormattedStages
  <2> QED BY <1>1, <2>1, BuilderStays
<1>7. CASE ToGoApply \/ RunWIMApply
  <2>1. /\ w.mode = "windows-to-go"
        /\ w.pc \in FormattedStages("windows-to-go") \cup CopiedStages("windows-to-go")
        /\ w'.pc \in CopiedStages("windows-to-go") /\ Puts([Held EXCEPT !.fs = Mixed(@, Bytes)])
    BY <1>7, ChangingSteps DEF Inv, ToGoApply, RunWIMApply, ToGo, At, FormattedStages, CopiedStages
  <2> QED BY <1>1, <2>1, BuilderCopies
<1>8. CASE ToGoFlushOS
  <2>1. /\ w.mode = "windows-to-go" /\ w.pc \in CopiedStages("windows-to-go")
        /\ w'.pc \in FlushedStages("windows-to-go") /\ Flushes
    BY <1>8, ChangingSteps DEF Inv, ToGoFlushOS, ToGo, At, CopiedStages, FlushedStages
  <2> QED BY <1>1, <2>1, BuilderFlushes, NeverAsked
<1> QED BY <1>2, <1>3, <1>4, <1>5, <1>6, <1>7, <1>8

\* The boot partition is filled from the applied volume.
LEMMA ToGoMaterializesData ==
  ASSUME Inv, DataInv,
         \/ MountPrivate \/ MaterializeRoots \/ CopyTreeBounded \/ CopyFallback
         \/ CompareFallback \/ CreateBCD \/ VerifyBCD \/ WriteAnswerFile \/ CompareBootManager
         \/ SyncFilesystem \/ ToGoUmountESP \/ ToGoUmountOS \/ ToGoFlush \/ ToGoRecheckApplied
  PROVE  DataInv'
<1>1. "windows-to-go" \in Builders /\ "undo" \in ClosingStages
  BY DEF Builders, ClosingStages
<1>2. w.mode = "windows-to-go" /\ w.pc \in FlushedStages("windows-to-go") /\ w.pc \notin Rereading
  BY DEF MountPrivate, MaterializeRoots, CopyTreeBounded, CopyFallback, CompareFallback,
         CreateBCD, VerifyBCD, WriteAnswerFile, CompareBootManager, SyncFilesystem,
         ToGoUmountESP, ToGoUmountOS, ToGoFlush, ToGoRecheckApplied, ToGo, At, FlushedStages,
         Rereading
<1>3. CASE MountPrivate
  <2>1. (Looks /\ w'.pc \in FlushedStages("windows-to-go")) \/ (Fails /\ w'.pc = "undo")
    BY <1>3, FailingSteps DEF Inv, MountPrivate, FlushedStages
  <2> QED BY <1>1, <1>2, <2>1, BuilderStays, BuilderFails DEF Busy
<1>4. CASE \/ MaterializeRoots \/ CopyFallback \/ CompareFallback \/ CreateBCD \/ VerifyBCD
           \/ CompareBootManager \/ SyncFilesystem \/ ToGoUmountESP \/ ToGoUmountOS
  <2>1. Looks /\ w'.pc \in FlushedStages("windows-to-go")
    BY <1>4, LookingSteps
       DEF Inv, MaterializeRoots, CopyFallback, CompareFallback, CreateBCD, VerifyBCD,
           CompareBootManager, SyncFilesystem, ToGoUmountESP, ToGoUmountOS, FlushedStages
  <2> QED BY <1>1, <1>2, <2>1, BuilderStays
<1>5. CASE CopyTreeBounded
  <2>1. Stays /\ w'.pc \in FlushedStages("windows-to-go")
    BY <1>5, DataFieldsIn
       DEF Inv, DataFields, CopyTreeBounded, Stays, Keeps, Reads, SameImage, SameEnd, disk,
           FlushedStages
  <2> QED BY <1>1, <1>2, <2>1, BuilderStays
<1>6. CASE WriteAnswerFile
  <2>1. Puts(Held) /\ w'.pc \in FlushedStages("windows-to-go")
    BY <1>6, ChangingSteps DEF Inv, WriteAnswerFile, FlushedStages
  <2> QED BY <1>1, <1>2, <2>1, BuilderPutsSame, BuilderStays
<1>7. CASE ToGoFlush
  <2>1. Flushes /\ w'.pc \in FlushedStages("windows-to-go")
    BY <1>7, ChangingSteps DEF Inv, ToGoFlush, FlushedStages
  <2> QED BY <1>1, <1>2, <2>1, BuilderFlushes, NeverAsked
<1>8. CASE ToGoRecheckApplied
  <2>1. (Looks /\ Steady /\ w'.pc \in SettledStages("windows-to-go")) \/ (Fails /\ w'.pc = "undo")
    BY <1>8, RecheckSteps DEF Inv, ToGoRecheckApplied, SettledStages
  <2> QED BY <1>1, <1>2, <2>1, BuilderSettles, BuilderFails DEF Busy
<1> QED BY <1>3, <1>4, <1>5, <1>6, <1>7, <1>8

\* It is compared, and everything let go.
LEMMA ToGoEndsData ==
  ASSUME Inv, DataInv,
         \/ ToGoRemount \/ CompareTreeBounded \/ VerifyMaterialization \/ VerifyBCDAgain
         \/ ToGoUmountVerified \/ VerifyFilesystemProbe \/ VerifyGPTOnDevice \/ ToGoFail
         \/ ToGoFailTorn \/ ToGoCleanESP \/ ToGoCleanOS \/ ToGoCleanISO \/ ToGoCleanWork
         \/ ToGoCloseTarget \/ ToGoRelease
  PROVE  DataInv'
<1>1. "windows-to-go" \in Builders /\ "undo" \in ClosingStages
  BY DEF Builders, ClosingStages
<1>2. CASE ToGoRemount
  <2>1. /\ w.mode = "windows-to-go" /\ w.pc \in SettledStages("windows-to-go")
        /\ (Looks /\ w'.pc \in SettledStages("windows-to-go")) \/ (Fails /\ w'.pc = "undo")
    BY <1>2, FailingSteps DEF Inv, ToGoRemount, ToGo, At, SettledStages
  <2> QED BY <1>1, <2>1, BuilderLooks, BuilderFails DEF Busy
<1>3. CASE \/ CompareTreeBounded \/ VerifyMaterialization \/ VerifyBCDAgain
           \/ ToGoUmountVerified \/ VerifyFilesystemProbe
  <2>1. /\ w.mode = "windows-to-go" /\ w.pc \in SettledStages("windows-to-go")
        /\ Looks /\ w'.pc \in SettledStages("windows-to-go")
    BY <1>3, LookingSteps
       DEF Inv, CompareTreeBounded, VerifyMaterialization, VerifyBCDAgain, ToGoUmountVerified,
           VerifyFilesystemProbe, ToGo, At, SettledStages
  <2> QED BY <1>1, <2>1, BuilderLooks
<1>4. CASE VerifyGPTOnDevice
  <2>1. w.mode = "windows-to-go" /\ w.pc \in SettledStages("windows-to-go")
    BY <1>4 DEF VerifyGPTOnDevice, ToGo, At, SettledStages
  <2> QED BY <1>1, <1>4, <2>1, BuilderAnnounces DEF VerifyGPTOnDevice
<1>5. CASE ToGoFail \/ ToGoFailTorn
  <2>1. w.mode = "windows-to-go" /\ w.pc \in Busy("windows-to-go") /\ w'.pc = "undo" /\ Fails
    BY <1>5, FailingSteps
       DEF Inv, ToGoFail, ToGoFailTorn, Busy, BuilderRead, ReviewStages, TabledStages,
           FormattedStages, CopiedStages, FlushedStages, SettledStages
  <2> QED BY <1>1, <2>1, BuilderFails
<1>6. CASE \/ ToGoCleanESP \/ ToGoCleanOS \/ ToGoCleanISO \/ ToGoCleanWork \/ ToGoCloseTarget
           \/ ToGoRelease
  <2>1. /\ w.mode = "windows-to-go" /\ w.pc \in (ClosingStages \cup ClosedStages) \ {"ended"}
        /\ w'.pc \in ClosingStages \cup ClosedStages /\ Lets
    BY <1>6, ClosingSteps
       DEF Inv, ToGoCleanESP, ToGoCleanOS, ToGoCleanISO, ToGoCleanWork, ToGoCloseTarget,
           ToGoRelease, ToGo, At, ClosingStages, ClosedStages
  <2> QED BY <1>1, <2>1, BuilderLets
<1> QED BY <1>2, <1>3, <1>4, <1>5, <1>6

\* Every step of the writer of Windows To Go.
LEMMA ToGoData ==
  ASSUME Inv, DataInv, ToGoNext
  PROVE  DataInv'
<1>1. CASE ToGoHold \/ ToGoHash
  <2>1. "windows-to-go" \in Builders /\ "target" \in BuilderRead
    BY DEF Builders, BuilderRead
  <2> QED BY <1>1, <2>1, BuilderHashes DEF ToGoHold, ToGoHash, ToGo, At
<1>2. CASE ~(ToGoHold \/ ToGoHash)
  BY <1>2, ToGoReadsData, ToGoAppliesData, ToGoMaterializesData, ToGoEndsData DEF ToGoNext
<1> QED BY <1>1, <1>2

-----------------------------------------------------------------------------
(* Linux media *)

\* The plan is made.
LEMMA LiveReadsData ==
  ASSUME Inv, DataInv,
         \/ PreparePersistentRuntimeIntegrity \/ LiveOpenTarget \/ LiveWorkspace
         \/ LiveMountISO \/ DetectPersistence \/ InspectTree \/ HashStableFile
         \/ PlanPersistentLayout \/ LiveRecheck \/ LiveReview \/ LiveErase \/ LiveWipe
  PROVE  DataInv'
<1>1. w.mode = "linux-persistent" /\ w.pc \in BuilderRead
  BY DEF PreparePersistentRuntimeIntegrity, LiveOpenTarget, LiveWorkspace, LiveMountISO,
         DetectPersistence, InspectTree, HashStableFile, PlanPersistentLayout, LiveRecheck,
         LiveReview, LiveErase, LiveWipe, Live, At, BuilderRead, ReviewStages
<1>2. "linux-persistent" \in Builders /\ "undo" \in ClosingStages
  BY DEF Builders, ClosingStages
<1>3. CASE LiveOpenTarget \/ LiveWorkspace \/ LiveReview \/ LiveErase \/ LiveWipe
  <2>1. Reads /\ (w'.pc \in BuilderRead \/ (w'.pc \in Asking /\ w'.ret \in BuilderRead))
    BY <1>3, MarkingSteps, ChangingSteps, Zenon
       DEF Inv, LiveOpenTarget, LiveWorkspace, LiveReview, LiveErase, LiveWipe, Looks, Keeps,
           Puts, BuilderRead, ReviewStages
  <2> QED BY <1>1, <1>2, <2>1, BuilderReads
<1>4. CASE \/ PreparePersistentRuntimeIntegrity \/ DetectPersistence \/ InspectTree
           \/ HashStableFile \/ PlanPersistentLayout
  <2>1. Reads /\ w'.pc \in BuilderRead
    BY <1>4, LookingSteps
       DEF Inv, PreparePersistentRuntimeIntegrity, DetectPersistence, InspectTree,
           HashStableFile, PlanPersistentLayout, Looks, Keeps, BuilderRead, ReviewStages
  <2> QED BY <1>1, <1>2, <2>1, BuilderReads
<1>5. CASE LiveMountISO \/ LiveRecheck
  <2>1. (Reads /\ w'.pc \in BuilderRead) \/ (Fails /\ w'.pc = "undo")
    BY <1>5, FailingSteps, RecheckSteps
       DEF Inv, LiveMountISO, LiveRecheck, Looks, Keeps, BuilderRead, ReviewStages
  <2> QED BY <1>1, <1>2, <2>1, BuilderReads, BuilderFails DEF Busy
<1> QED BY <1>3, <1>4, <1>5

\* The target is partitioned, formatted and filled.
LEMMA LiveCopiesData ==
  ASSUME Inv, DataInv,
         \/ WritePersistentGPT \/ PersistentRereadPartitionTable \/ WaitPersistentPartition
         \/ UnmountPersistentDeviceMounts \/ OpenPersistentPartition \/ LiveFormat
         \/ LiveUnmountAgain \/ LiveMountBoot \/ ValidateManifestForCopy \/ CopyEntry
  PROVE  DataInv'
<1>1. "linux-persistent" \in Builders /\ "undo" \in ClosingStages
  BY DEF Builders, ClosingStages
<1>2. CASE WritePersistentGPT
  <2>1. /\ w.mode = "linux-persistent" /\ w.pc \in {"table", "write-table"} /\ Tables
        /\ w'.pc \in TabledStages
    BY <1>2, ChangingSteps DEF Inv, WritePersistentGPT, Live, At, TabledStages
  <2> QED BY <1>1, <2>1, BuilderTables
<1>3. CASE \/ PersistentRereadPartitionTable \/ WaitPersistentPartition
           \/ UnmountPersistentDeviceMounts \/ OpenPersistentPartition
  <2>1. /\ w.mode = "linux-persistent" /\ w.pc \in TabledStages /\ w'.pc \in TabledStages /\ Looks
    BY <1>3, LookingSteps
       DEF Inv, PersistentRereadPartitionTable, WaitPersistentPartition,
           UnmountPersistentDeviceMounts, OpenPersistentPartition, Live, At, TabledStages
  <2> QED BY <1>1, <2>1, BuilderStays
<1>4. CASE LiveFormat
  <2>1. /\ w.mode = "linux-persistent" /\ w.pc \in TabledStages
        /\ w'.pc \in FormattedStages("linux-persistent") /\ Puts([Held EXCEPT !.fs = "empty"])
    BY <1>4, ChangingSteps DEF Inv, LiveFormat, Live, At, TabledStages, FormattedStages
  <2> QED BY <1>1, <2>1, BuilderFormats
<1>5. CASE LiveUnmountAgain \/ LiveMountBoot \/ ValidateManifestForCopy
  <2>1. /\ w.mode = "linux-persistent" /\ w.pc \in FormattedStages("linux-persistent")
        /\ \/ Looks /\ w'.pc \in FormattedStages("linux-persistent")
           \/ Fails /\ w'.pc = "undo"
    BY <1>5, LookingSteps, FailingSteps
       DEF Inv, LiveUnmountAgain, LiveMountBoot, ValidateManifestForCopy, Live, At,
           FormattedStages
  <2> QED BY <1>1, <2>1, BuilderStays, BuilderFails DEF Busy
<1>6. CASE CopyEntry
  <2>1. /\ w.mode = "linux-persistent"
        /\ w.pc \in FormattedStages("linux-persistent") \cup CopiedStages("linux-persistent")
        /\ w'.pc \in CopiedStages("linux-persistent")
        /\ Puts([Held EXCEPT !.fs = Mixed(@, Bytes)])
    BY <1>6, ChangingSteps DEF Inv, CopyEntry, Live, At, FormattedStages, CopiedStages
  <2> QED BY <1>1, <2>1, BuilderCopies
<1> QED BY <1>2, <1>3, <1>4, <1>5, <1>6

\* The copied files are compared, and the boot configuration patched.
LEMMA LivePatchesData ==
  ASSUME Inv, DataInv,
         \/ CopyAndVerify \/ PatchBootTree \/ PatchBootConfig \/ PatchOneBootFile
         \/ DetectActivated \/ HashPersistentRuntimeFallback \/ WriteRecord
         \/ InstallPersistentRuntimeIntegrity \/ NoRuntimeIntegrity \/ LiveUmountBoot
         \/ LiveFlushBoot
  PROVE  DataInv'
<1>1. "linux-persistent" \in Builders
  BY DEF Builders
<1>2. w.mode = "linux-persistent" /\ w.pc \in CopiedStages("linux-persistent")
  BY DEF CopyAndVerify, PatchBootTree, PatchBootConfig, PatchOneBootFile, DetectActivated,
         HashPersistentRuntimeFallback, WriteRecord, InstallPersistentRuntimeIntegrity,
         NoRuntimeIntegrity, LiveUmountBoot, LiveFlushBoot, Live, At, CopiedStages
<1>3. CASE \/ CopyAndVerify \/ PatchBootTree \/ PatchBootConfig \/ DetectActivated
           \/ HashPersistentRuntimeFallback \/ NoRuntimeIntegrity \/ LiveUmountBoot
  <2>1. Looks /\ w'.pc \in CopiedStages("linux-persistent")
    BY <1>3, LookingSteps
       DEF Inv, CopyAndVerify, PatchBootTree, PatchBootConfig, DetectActivated,
           HashPersistentRuntimeFallback, NoRuntimeIntegrity, LiveUmountBoot, CopiedStages
  <2> QED BY <1>1, <1>2, <2>1, BuilderStays
<1>4. CASE PatchOneBootFile
  <2>1. Stays /\ w'.pc \in CopiedStages("linux-persistent")
    BY <1>4, DataFieldsIn
       DEF Inv, DataFields, PatchOneBootFile, Stays, Keeps, Reads, SameImage, SameEnd, disk,
           CopiedStages
  <2> QED BY <1>1, <1>2, <2>1, BuilderStays
<1>5. CASE WriteRecord \/ InstallPersistentRuntimeIntegrity
  <2>1. Puts(Held) /\ w'.pc \in CopiedStages("linux-persistent")
    BY <1>5, ChangingSteps DEF Inv, WriteRecord, InstallPersistentRuntimeIntegrity, CopiedStages
  <2> QED BY <1>1, <1>2, <2>1, BuilderPutsSame, BuilderStays
<1>6. CASE LiveFlushBoot
  <2>1. Flushes /\ w'.pc \in FlushedStages("linux-persistent")
    BY <1>6, ChangingSteps DEF Inv, LiveFlushBoot, FlushedStages
  <2> QED BY <1>1, <1>2, <2>1, BuilderFlushes, NeverAsked
<1> QED BY <1>3, <1>4, <1>5, <1>6

\* The second partition is made.
LEMMA LivePersistsData ==
  ASSUME Inv, DataInv,
         \/ VerifyPersistentPartitionFile \/ VerifyPersistentPartitionGeometry
         \/ ValidateFilesystemPlan \/ VerifyPersistencePartition \/ FormatPersistence
         \/ MountPersistence \/ InitializePersistenceRoot \/ UmountPersistence
         \/ LiveFailPersistence \/ LiveRecheckCopied
  PROVE  DataInv'
<1>1. /\ "linux-persistent" \in Builders
      /\ "undo" \in ClosingStages /\ "undo-persist" \in ClosingStages
  BY DEF Builders, ClosingStages
<1>2. w.mode = "linux-persistent" /\ w.pc \in FlushedStages("linux-persistent") /\ w.pc \notin Rereading
  BY DEF VerifyPersistentPartitionFile, VerifyPersistentPartitionGeometry,
         ValidateFilesystemPlan, VerifyPersistencePartition, FormatPersistence,
         MountPersistence, InitializePersistenceRoot, UmountPersistence, LiveFailPersistence,
         LiveRecheckCopied, FailTo, Live, At, FlushedStages, Rereading
<1>3. CASE \/ VerifyPersistentPartitionFile \/ VerifyPersistentPartitionGeometry
           \/ ValidateFilesystemPlan \/ VerifyPersistencePartition \/ UmountPersistence
  <2>1. Looks /\ w'.pc \in FlushedStages("linux-persistent")
    BY <1>3, LookingSteps
       DEF Inv, VerifyPersistentPartitionFile, VerifyPersistentPartitionGeometry,
           ValidateFilesystemPlan, VerifyPersistencePartition, UmountPersistence, FlushedStages
  <2> QED BY <1>1, <1>2, <2>1, BuilderStays
<1>4. CASE FormatPersistence \/ InitializePersistenceRoot
  <2>1. Puts(Held) /\ w'.pc \in FlushedStages("linux-persistent")
    BY <1>4, ChangingSteps DEF Inv, FormatPersistence, InitializePersistenceRoot, FlushedStages
  <2> QED BY <1>1, <1>2, <2>1, BuilderPutsSame, BuilderStays
<1>5. CASE MountPersistence \/ LiveFailPersistence
  <2>1. (Looks /\ w'.pc \in FlushedStages("linux-persistent")) \/ (Fails /\ w'.pc = "undo-persist")
    BY <1>5, FailingSteps DEF Inv, MountPersistence, LiveFailPersistence, FlushedStages
  <2> QED BY <1>1, <1>2, <2>1, BuilderStays, BuilderFails DEF Busy
<1>6. CASE LiveRecheckCopied
  <2>1. (Looks /\ Steady /\ w'.pc \in SettledStages("linux-persistent")) \/ (Fails /\ w'.pc = "undo")
    BY <1>6, RecheckSteps DEF Inv, LiveRecheckCopied, SettledStages
  <2> QED BY <1>1, <1>2, <2>1, BuilderSettles, BuilderFails DEF Busy
<1> QED BY <1>3, <1>4, <1>5, <1>6

\* The completion is published after every finalizer.
LEMMA LiveEmitsData ==
  ASSUME Inv, DataInv, EmitPersistentCompletion
  PROVE  DataInv'
<1>1. /\ w.mode = "linux-persistent" /\ w.mode \in Makers
      /\ w.pc \in (ClosingStages \cup ClosedStages) \ {"ended"}
  BY DEF EmitPersistentCompletion, Live, At, Makers, Builders, ClosedStages
<1>2. Settles
  BY DataFieldsIn DEF Inv, DataFields, EmitPersistentCompletion, Settles, SameImage, disk, Shape, Writers
<1>3. w'.pc \in ClosingStages \cup ClosedStages
  BY DataFieldsIn DEF Inv, DataFields, EmitPersistentCompletion, ClosedStages
<1> QED BY <1>1, <1>2, <1>3, ClosesOn

\* Everything is let go.
LEMMA LiveEndsData ==
  ASSUME Inv, DataInv,
         \/ CleanPersistence \/ LiveFlush \/ LiveUmountISO \/ LiveFail \/ LiveFailTorn
         \/ LiveCleanBoot \/ LiveCleanISO \/ LiveCleanWork \/ FinishPersistentFile \/ LiveRelease
  PROVE  DataInv'
<1>1. "linux-persistent" \in Builders /\ "undo" \in ClosingStages
  BY DEF Builders, ClosingStages
<1>2. CASE CleanPersistence
  <2>1. w.mode = "linux-persistent" /\ w.pc = "undo-persist"
    BY <1>2 DEF CleanPersistence, Live, At
  <2>2. w'.pc = "undo" /\ Lets
    BY <1>2, ClosingSteps DEF Inv, CleanPersistence
  <2> QED BY <1>1, <2>1, <2>2, BuilderLets DEF ClosingStages, ClosedStages
<1>3. CASE LiveFlush
  <2>1. /\ w.mode = "linux-persistent" /\ w.pc = "flush" /\ Flushes
        /\ w'.pc \in SettledStages("linux-persistent")
    BY <1>3, ChangingSteps DEF Inv, LiveFlush, Live, At, SettledStages
  <2>2. "flush" \in SettledStages("linux-persistent") \cap TargetStages("linux-persistent")
    BY DEF SettledStages, TargetStages
  <2> QED BY <1>1, <2>1, <2>2, BuilderFlushesAgain
<1>4. CASE LiveUmountISO
  <2>1. w.mode = "linux-persistent" /\ w.pc \in SettledStages("linux-persistent") /\ w'.pc = "undo" /\ Looks
    BY <1>4, LookingSteps DEF Inv, LiveUmountISO, Live, At, SettledStages
  <2> QED BY <1>1, <2>1, BuilderLooks
<1>5. CASE LiveFail \/ LiveFailTorn
  <2>1. w.mode = "linux-persistent" /\ w.pc \in Busy("linux-persistent") /\ w'.pc = "undo" /\ Fails
    BY <1>5, FailingSteps
       DEF Inv, LiveFail, LiveFailTorn, Busy, BuilderRead, ReviewStages, TabledStages,
           FormattedStages, CopiedStages, FlushedStages, SettledStages
  <2> QED BY <1>1, <2>1, BuilderFails
<1>6. CASE LiveCleanBoot \/ LiveCleanISO \/ LiveCleanWork \/ FinishPersistentFile \/ LiveRelease
  <2>1. /\ w.mode = "linux-persistent" /\ w.pc \in (ClosingStages \cup ClosedStages) \ {"ended"}
        /\ w'.pc \in ClosingStages \cup ClosedStages /\ Lets
    BY <1>6, ClosingSteps
       DEF Inv, LiveCleanBoot, LiveCleanISO, LiveCleanWork, FinishPersistentFile, LiveRelease, Live, At,
           ClosingStages, ClosedStages
  <2> QED BY <1>1, <2>1, BuilderLets
<1> QED BY <1>2, <1>3, <1>4, <1>5, <1>6

\* Every step of the writer of persistent media.
LEMMA PersistentData ==
  ASSUME Inv, DataInv, PersistentNext
  PROVE  DataInv'
<1>1. CASE LiveHold \/ HashPersistentSource
  <2>1. "linux-persistent" \in Builders /\ "loader" \in BuilderRead
    BY DEF Builders, BuilderRead
  <2> QED BY <1>1, <2>1, BuilderHashes DEF LiveHold, HashPersistentSource, Live, At
<1>2. CASE ~(LiveHold \/ HashPersistentSource)
  BY <1>2, LiveReadsData, LiveCopiesData, LivePatchesData, LivePersistsData, LiveEmitsData,
     LiveEndsData DEF PersistentNext
<1> QED BY <1>1, <1>2

-----------------------------------------------------------------------------
(* Extracted media *)

\* The writers of extracted media, and some of their stages.
LEMMA ChosenBuilders ==
  /\ Chosen \subseteq Builders /\ "windows" \notin Chosen
  /\ "extracted-fat32" \in Chosen /\ "extracted-ntfs" \in Chosen
  /\ "undo" \in ClosingStages
  /\ {"open", "hash", "target"} \cap Aside = {} /\ "target" \in BuilderRead
BY DEF Chosen, Builders, ClosingStages, Aside, Asking, Unprepared, Containers, Reading, BuilderRead

\* The manifest is made.
LEMMA ManifestData ==
  ASSUME Inv, DataInv, ManifestNext
  PROVE  DataInv'
<1>1. PICK m \in Chosen : w.mode = m
  BY DEF ManifestNext, PrepareExtractedManifest, NoOverlay, PlanElToritoUEFIImage,
         ExtractElToritoUEFIImage, MountOverlay, VerifyReadOnlyLoopFilesystemMount,
         MergeManifestOverlay, ManifestSourcePathAllowed, CloseOverlay, Iso
<1>2. m \in Builders /\ "undo" \in ClosingStages
  BY ChosenBuilders
<1>3. CASE \/ PrepareExtractedManifest \/ NoOverlay \/ PlanElToritoUEFIImage
           \/ ExtractElToritoUEFIImage \/ VerifyReadOnlyLoopFilesystemMount
           \/ MergeManifestOverlay
  <2>1. w.pc \in BuilderRead /\ w'.pc \in BuilderRead /\ Reads
    BY <1>3, LookingSteps
       DEF Inv, PrepareExtractedManifest, NoOverlay, PlanElToritoUEFIImage,
           ExtractElToritoUEFIImage, VerifyReadOnlyLoopFilesystemMount, MergeManifestOverlay,
           Iso, Looks, Keeps, BuilderRead, ReviewStages
  <2> QED BY <1>1, <1>2, <2>1, BuilderReads
<1>4. CASE MountOverlay
  <2>1. w.pc \in BuilderRead /\ ((Reads /\ w'.pc \in BuilderRead) \/ (Fails /\ w'.pc = "undo"))
    BY <1>4, FailingSteps DEF Inv, MountOverlay, Iso, Looks, Keeps, BuilderRead, ReviewStages
  <2> QED BY <1>1, <1>2, <2>1, BuilderReads, BuilderFails DEF Busy
<1>5. CASE ManifestSourcePathAllowed
  <2>1. w.pc \in FormattedStages(m) /\ w'.pc \in FormattedStages(m) /\ Looks
    BY <1>1, <1>5, LookingSteps
       DEF Inv, ManifestSourcePathAllowed, Iso, FormattedStages, Chosen
  <2> QED BY <1>1, <1>2, <2>1, BuilderStays
<1>6. CASE CloseOverlay
  <2>1. /\ w.pc \in (ClosingStages \cup ClosedStages) \ {"ended"}
        /\ w'.pc \in ClosingStages \cup ClosedStages /\ Lets
    BY <1>6, ClosingSteps DEF Inv, CloseOverlay, Iso, ClosingStages, ClosedStages
  <2> QED BY <1>1, <1>2, <2>1, BuilderLets
<1> QED BY <1>3, <1>4, <1>5, <1>6 DEF ManifestNext

\* The files go to one partition.
LEMMA FatReadsData ==
  ASSUME Inv, DataInv,
         \/ AcquireExtractedTargetLock \/ FatWorkspace \/ FatReview \/ FatErase \/ FatWipe
         \/ EstimateFAT32BytesForCluster \/ PlanExtractedLayoutForScheme
         \/ ValidateExtractedFAT32Capacity \/ FatMountISO \/ FatRecheck
  PROVE  DataInv'
<1>1. w.mode = "extracted-fat32" /\ w.pc \in BuilderRead
  BY DEF AcquireExtractedTargetLock, FatWorkspace, FatReview, FatErase, FatWipe,
         EstimateFAT32BytesForCluster, PlanExtractedLayoutForScheme,
         ValidateExtractedFAT32Capacity, FatMountISO, FatRecheck,
         Fat, At, BuilderRead, ReviewStages
<1>2. "extracted-fat32" \in Builders /\ "undo" \in ClosingStages
  BY ChosenBuilders
<1>3. CASE \/ AcquireExtractedTargetLock \/ FatWorkspace \/ FatReview \/ FatErase \/ FatWipe
  <2>1. Reads /\ (w'.pc \in BuilderRead \/ (w'.pc \in Asking /\ w'.ret \in BuilderRead))
    BY <1>3, MarkingSteps, ChangingSteps, Zenon
       DEF Inv, AcquireExtractedTargetLock, FatWorkspace, FatReview, FatErase, FatWipe, Looks, Keeps,
           Puts, BuilderRead, ReviewStages
  <2> QED BY <1>1, <1>2, <2>1, BuilderReads
<1>4. CASE \/ EstimateFAT32BytesForCluster \/ PlanExtractedLayoutForScheme
           \/ ValidateExtractedFAT32Capacity
  <2>1. Reads /\ w'.pc \in BuilderRead
    BY <1>4, LookingSteps
       DEF Inv, EstimateFAT32BytesForCluster, PlanExtractedLayoutForScheme,
           ValidateExtractedFAT32Capacity,
           Looks, Keeps, BuilderRead, ReviewStages
  <2> QED BY <1>1, <1>2, <2>1, BuilderReads
<1>5. CASE \/ FatMountISO \/ FatRecheck
  <2>1. (Reads /\ w'.pc \in BuilderRead) \/ (Fails /\ w'.pc = "undo")
    BY <1>5, FailingSteps, RecheckSteps
       DEF Inv, FatMountISO, FatRecheck, Looks, Keeps, BuilderRead, ReviewStages
  <2> QED BY <1>1, <1>2, <2>1, BuilderReads, BuilderFails DEF Busy
<1> QED BY <1>3, <1>4, <1>5

\* The table, the filesystem and the files are written.
LEMMA FatWritesData ==
  ASSUME Inv, DataInv,
         \/ WriteExtractedMBR \/ WriteExtractedGPT \/ VerifyExtractedGPT \/ FatReread
         \/ FatPartition \/ FatUnmount \/ FatBind \/ FatFormat \/ FatUnmountAgain \/ FatMountUSB
         \/ FatCopy \/ FatCopyRest \/ FatUmountUSB \/ FatFlush \/ FatCheckFilesystem \/ FatBound
         \/ FatRecheckCopied
  PROVE  DataInv'
<1>1. "extracted-fat32" \in Builders /\ "undo" \in ClosingStages /\ "windows" # "extracted-fat32"
  BY ChosenBuilders
<1>2. CASE \/ WriteExtractedMBR \/ WriteExtractedGPT
  <2>1. w.mode = "extracted-fat32" /\ w.pc \in {"table", "write-table"} /\ Tables /\ w'.pc \in TabledStages
    BY <1>2, ChangingSteps DEF Inv, WriteExtractedMBR, WriteExtractedGPT, Fat, At, TabledStages
  <2> QED BY <1>1, <2>1, BuilderTables
<1>3. CASE \/ VerifyExtractedGPT \/ FatReread \/ FatPartition \/ FatUnmount \/ FatBind
  <2>1. w.mode = "extracted-fat32" /\ w.pc \in TabledStages /\ w'.pc \in TabledStages /\ Looks
    BY <1>3, LookingSteps
       DEF Inv, VerifyExtractedGPT, FatReread, FatPartition, FatUnmount, FatBind, Fat, At, TabledStages
  <2> QED BY <1>1, <2>1, BuilderStays
<1>4. CASE FatFormat
  <2>1. /\ w.mode = "extracted-fat32" /\ w.pc \in TabledStages
        /\ w'.pc \in FormattedStages("extracted-fat32") /\ Puts([Held EXCEPT !.fs = "empty"])
    BY <1>4, ChangingSteps DEF Inv, FatFormat, Fat, At, TabledStages, FormattedStages
  <2> QED BY <1>1, <2>1, BuilderFormats
<1>5. CASE \/ FatUnmountAgain \/ FatMountUSB
  <2>1. /\ w.mode = "extracted-fat32" /\ w.pc \in FormattedStages("extracted-fat32")
        /\ \/ Looks /\ w'.pc \in FormattedStages("extracted-fat32")
           \/ Fails /\ w'.pc = "undo"
    BY <1>5, LookingSteps, FailingSteps
       DEF Inv, FatUnmountAgain, FatMountUSB, Fat, At, FormattedStages
  <2> QED BY <1>1, <2>1, BuilderStays, BuilderFails DEF Busy
<1>6. CASE FatCopy
  <2>1. /\ w.mode = "extracted-fat32" /\ w.pc \in FormattedStages("extracted-fat32")
        /\ w'.pc \in CopiedStages("extracted-fat32") /\ Puts([Held EXCEPT !.fs = Mixed(@, Bytes)])
    BY <1>6, ChangingSteps
       DEF Inv, FatCopy, CopyManifestFirst, Fat, At, FormattedStages, CopiedStages
  <2> QED BY <1>1, <2>1, BuilderCopies
<1>7. CASE FatCopyRest
  <2>1. /\ w.mode = "extracted-fat32" /\ w.pc \in CopiedStages("extracted-fat32")
        /\ w'.pc \in CopiedStages("extracted-fat32")
        /\ Puts([Held EXCEPT !.fs = Mixed(@, Mixed(w.staged, Bytes))])
    BY <1>7, ChangingSteps DEF Inv, FatCopyRest, CopyManifestRest, Fat, At, CopiedStages
  <2> QED BY <1>1, <2>1, BuilderCopies
<1>8. CASE FatUmountUSB
  <2>1. /\ w.mode = "extracted-fat32" /\ w.pc \in CopiedStages("extracted-fat32")
        /\ w'.pc \in CopiedStages("extracted-fat32") /\ Looks
    BY <1>8, LookingSteps DEF Inv, FatUmountUSB, Fat, At, CopiedStages
  <2> QED BY <1>1, <2>1, BuilderStays
<1>9. CASE FatFlush
  <2>1. /\ w.mode = "extracted-fat32" /\ w.pc \in CopiedStages("extracted-fat32")
        /\ w'.pc \in FlushedStages("extracted-fat32") /\ Flushes
    BY <1>9, ChangingSteps DEF Inv, FatFlush, Fat, At, CopiedStages, FlushedStages
  <2> QED BY <1>1, <2>1, BuilderFlushes, NeverAsked
<1>10. CASE FatCheckFilesystem \/ FatBound
  <2>1. /\ w.mode = "extracted-fat32" /\ w.pc \in FlushedStages("extracted-fat32") \ Rereading
        /\ w'.pc \in FlushedStages("extracted-fat32") /\ Looks
    BY <1>10, LookingSteps
       DEF Inv, FatCheckFilesystem, FatBound, Fat, At, FlushedStages, Rereading
  <2> QED BY <1>1, <2>1, BuilderStays
<1>11. CASE FatRecheckCopied
  <2>1. /\ w.mode = "extracted-fat32" /\ w.pc \in FlushedStages("extracted-fat32") \ Rereading
        /\ \/ Looks /\ Steady /\ w'.pc \in SettledStages("extracted-fat32")
           \/ Fails /\ w'.pc = "undo"
    BY <1>11, RecheckSteps DEF Inv, FatRecheckCopied, Fat, At, FlushedStages, SettledStages, Rereading
  <2> QED BY <1>1, <2>1, BuilderSettles, BuilderFails DEF Busy
<1> QED BY <1>2, <1>3, <1>4, <1>5, <1>6, <1>7, <1>8, <1>9, <1>10, <1>11

\* The completion is announced, and what was opened is let go.
LEMMA FatEndsData ==
  ASSUME Inv, DataInv,
         \/ FatFlushDisk \/ FatUmountISO \/ FatComplete \/ FatCleanUSB \/ FatCleanISO
         \/ FatCleanWork \/ FatClose \/ FatRelease
  PROVE  DataInv'
<1>1. "extracted-fat32" \in Builders /\ "windows" # "extracted-fat32"
  BY ChosenBuilders
<1>2. CASE FatFlushDisk
  <2>1. w.mode = "extracted-fat32" /\ w.pc = "flush-disk" /\ Flushes /\ w'.pc \in SettledStages("extracted-fat32")
    BY <1>2, ChangingSteps DEF Inv, FatFlushDisk, Fat, At, SettledStages
  <2>2. "flush-disk" \in SettledStages("extracted-fat32") \cap TargetStages("extracted-fat32")
    BY DEF SettledStages, TargetStages
  <2> QED BY <1>1, <2>1, <2>2, BuilderFlushesAgain
<1>3. CASE FatUmountISO
  <2>1. /\ w.mode = "extracted-fat32" /\ w.pc \in SettledStages("extracted-fat32")
        /\ w'.pc \in SettledStages("extracted-fat32") /\ Looks
    BY <1>3, LookingSteps DEF Inv, FatUmountISO, Fat, At, SettledStages
  <2> QED BY <1>1, <2>1, BuilderLooks
<1>4. CASE FatComplete
  <2>1. w.mode = "extracted-fat32" /\ w.pc \in SettledStages("extracted-fat32")
    BY <1>4 DEF FatComplete, Fat, At, SettledStages
  <2> QED BY <1>1, <1>4, <2>1, BuilderAnnounces DEF FatComplete
<1>5. CASE \/ FatCleanUSB \/ FatCleanISO \/ FatCleanWork \/ FatClose \/ FatRelease
  <2>1. /\ w.mode = "extracted-fat32" /\ w.pc \in (ClosingStages \cup ClosedStages) \ {"ended"}
        /\ w'.pc \in ClosingStages \cup ClosedStages /\ Lets
    BY <1>5, ClosingSteps
       DEF Inv, FatCleanUSB, FatCleanISO, FatCleanWork, FatClose, FatRelease, Fat, At, ClosingStages,
           ClosedStages
  <2> QED BY <1>1, <2>1, BuilderLets
<1> QED BY <1>2, <1>3, <1>4, <1>5

\* Every step of the writer to FAT32.
LEMMA FatData ==
  ASSUME Inv, DataInv, FatNext
  PROVE  DataInv'
<1>1. CASE FatHold \/ FatHash
  BY <1>1, ChosenBuilders, BuilderHashes DEF FatHold, FatHash, Fat, At
<1>2. CASE ~(FatHold \/ FatHash)
  BY <1>2, FatReadsData, FatWritesData, FatEndsData DEF FatNext
<1> QED BY <1>1, <1>2

\* They go to one beside a boot partition.
LEMMA NtfsReadsData ==
  ASSUME Inv, DataInv,
         \/ NtfsOpenTarget \/ NtfsWorkspace \/ NtfsReview \/ NtfsErase \/ NtfsWipe
         \/ PlanExtractedMedia \/ Locate \/ OpenVerifiedAsset \/ PlanLayoutForProfile
         \/ NtfsMountISO \/ NtfsRecheck
  PROVE  DataInv'
<1>1. w.mode = "extracted-ntfs" /\ w.pc \in BuilderRead
  BY DEF NtfsOpenTarget, NtfsWorkspace, NtfsReview, NtfsErase, NtfsWipe, PlanExtractedMedia,
         Locate, OpenVerifiedAsset, PlanLayoutForProfile, NtfsMountISO, NtfsRecheck,
         Ntfs, At, BuilderRead, ReviewStages
<1>2. "extracted-ntfs" \in Builders /\ "undo" \in ClosingStages
  BY ChosenBuilders
<1>3. CASE \/ NtfsOpenTarget \/ NtfsWorkspace \/ NtfsReview \/ NtfsErase \/ NtfsWipe
  <2>1. Reads /\ (w'.pc \in BuilderRead \/ (w'.pc \in Asking /\ w'.ret \in BuilderRead))
    BY <1>3, MarkingSteps, ChangingSteps, Zenon
       DEF Inv, NtfsOpenTarget, NtfsWorkspace, NtfsReview, NtfsErase, NtfsWipe, Looks, Keeps,
           Puts, BuilderRead, ReviewStages
  <2> QED BY <1>1, <1>2, <2>1, BuilderReads
<1>4. CASE \/ PlanExtractedMedia \/ Locate \/ OpenVerifiedAsset \/ PlanLayoutForProfile
  <2>1. Reads /\ w'.pc \in BuilderRead
    BY <1>4, LookingSteps
       DEF Inv, PlanExtractedMedia, Locate, OpenVerifiedAsset, PlanLayoutForProfile,
           Looks, Keeps, BuilderRead, ReviewStages
  <2> QED BY <1>1, <1>2, <2>1, BuilderReads
<1>5. CASE \/ NtfsMountISO \/ NtfsRecheck
  <2>1. (Reads /\ w'.pc \in BuilderRead) \/ (Fails /\ w'.pc = "undo")
    BY <1>5, FailingSteps, RecheckSteps
       DEF Inv, NtfsMountISO, NtfsRecheck, Looks, Keeps, BuilderRead, ReviewStages
  <2> QED BY <1>1, <1>2, <2>1, BuilderReads, BuilderFails DEF Busy
<1> QED BY <1>3, <1>4, <1>5

\* The table, the boot image, the filesystem and the files are written.
LEMMA NtfsWritesData ==
  ASSUME Inv, DataInv,
         \/ WriteMBRLayout \/ WriteGPTLayout \/ NtfsReread \/ NtfsPartition \/ NtfsUnmount
         \/ NtfsBind \/ WriteAndVerify \/ VerifyPartitionPath \/ NtfsFormat \/ NtfsUnmountAgain
         \/ NtfsMountUSB \/ NtfsCopy \/ NtfsCopyRest \/ NtfsUmountUSB \/ NtfsFlush
         \/ NtfsCheckFilesystem \/ NtfsBound \/ NtfsRecheckCopied
  PROVE  DataInv'
<1>1. "extracted-ntfs" \in Builders /\ "undo" \in ClosingStages /\ "windows" # "extracted-ntfs"
  BY ChosenBuilders
<1>2. CASE \/ WriteMBRLayout \/ WriteGPTLayout
  <2>1. w.mode = "extracted-ntfs" /\ w.pc \in {"table", "write-table"} /\ Tables /\ w'.pc \in TabledStages
    BY <1>2, ChangingSteps DEF Inv, WriteMBRLayout, WriteGPTLayout, Ntfs, At, TabledStages
  <2> QED BY <1>1, <2>1, BuilderTables
<1>3. CASE \/ NtfsReread \/ NtfsPartition \/ NtfsUnmount \/ NtfsBind
  <2>1. w.mode = "extracted-ntfs" /\ w.pc \in TabledStages /\ w'.pc \in TabledStages /\ Looks
    BY <1>3, LookingSteps
       DEF Inv, NtfsReread, NtfsPartition, NtfsUnmount, NtfsBind, Ntfs, At, TabledStages
  <2> QED BY <1>1, <2>1, BuilderStays
<1>4. CASE NtfsFormat
  <2>1. /\ w.mode = "extracted-ntfs" /\ w.pc \in TabledStages
        /\ w'.pc \in FormattedStages("extracted-ntfs") /\ Puts([Held EXCEPT !.fs = "empty"])
    BY <1>4, ChangingSteps DEF Inv, NtfsFormat, Ntfs, At, TabledStages, FormattedStages
  <2> QED BY <1>1, <2>1, BuilderFormats
<1>5. CASE \/ NtfsUnmountAgain \/ NtfsMountUSB
  <2>1. /\ w.mode = "extracted-ntfs" /\ w.pc \in FormattedStages("extracted-ntfs")
        /\ \/ Looks /\ w'.pc \in FormattedStages("extracted-ntfs")
           \/ Fails /\ w'.pc = "undo"
    BY <1>5, LookingSteps, FailingSteps
       DEF Inv, NtfsUnmountAgain, NtfsMountUSB, Ntfs, At, FormattedStages
  <2> QED BY <1>1, <2>1, BuilderStays, BuilderFails DEF Busy
<1>6. CASE NtfsCopy
  <2>1. /\ w.mode = "extracted-ntfs" /\ w.pc \in FormattedStages("extracted-ntfs")
        /\ w'.pc \in CopiedStages("extracted-ntfs") /\ Puts([Held EXCEPT !.fs = Mixed(@, Bytes)])
    BY <1>6, ChangingSteps
       DEF Inv, NtfsCopy, CopyManifestFirst, Ntfs, At, FormattedStages, CopiedStages
  <2> QED BY <1>1, <2>1, BuilderCopies
<1>7. CASE NtfsCopyRest
  <2>1. /\ w.mode = "extracted-ntfs" /\ w.pc \in CopiedStages("extracted-ntfs")
        /\ w'.pc \in CopiedStages("extracted-ntfs")
        /\ Puts([Held EXCEPT !.fs = Mixed(@, Mixed(w.staged, Bytes))])
    BY <1>7, ChangingSteps DEF Inv, NtfsCopyRest, CopyManifestRest, Ntfs, At, CopiedStages
  <2> QED BY <1>1, <2>1, BuilderCopies
<1>8. CASE NtfsUmountUSB
  <2>1. /\ w.mode = "extracted-ntfs" /\ w.pc \in CopiedStages("extracted-ntfs")
        /\ w'.pc \in CopiedStages("extracted-ntfs") /\ Looks
    BY <1>8, LookingSteps DEF Inv, NtfsUmountUSB, Ntfs, At, CopiedStages
  <2> QED BY <1>1, <2>1, BuilderStays
<1>9. CASE NtfsFlush
  <2>1. /\ w.mode = "extracted-ntfs" /\ w.pc \in CopiedStages("extracted-ntfs")
        /\ w'.pc \in FlushedStages("extracted-ntfs") /\ Flushes
    BY <1>9, ChangingSteps DEF Inv, NtfsFlush, Ntfs, At, CopiedStages, FlushedStages
  <2> QED BY <1>1, <2>1, BuilderFlushes, NeverAsked
<1>10. CASE NtfsCheckFilesystem \/ NtfsBound
  <2>1. /\ w.mode = "extracted-ntfs" /\ w.pc \in FlushedStages("extracted-ntfs") \ Rereading
        /\ w'.pc \in FlushedStages("extracted-ntfs") /\ Looks
    BY <1>10, LookingSteps
       DEF Inv, NtfsCheckFilesystem, NtfsBound, Ntfs, At, FlushedStages, Rereading
  <2> QED BY <1>1, <2>1, BuilderStays
<1>11. CASE NtfsRecheckCopied
  <2>1. /\ w.mode = "extracted-ntfs" /\ w.pc \in FlushedStages("extracted-ntfs") \ Rereading
        /\ \/ Looks /\ Steady /\ w'.pc \in SettledStages("extracted-ntfs")
           \/ Fails /\ w'.pc = "undo"
    BY <1>11, RecheckSteps DEF Inv, NtfsRecheckCopied, Ntfs, At, FlushedStages, SettledStages, Rereading
  <2> QED BY <1>1, <2>1, BuilderSettles, BuilderFails DEF Busy
<1>12. CASE WriteAndVerify
  <2>1. w.mode = "extracted-ntfs" /\ w.pc \in TabledStages /\ w'.pc \in TabledStages /\ Stays
    BY <1>12, DataFieldsIn
       DEF Inv, DataFields, WriteAndVerify, Stays, Keeps, Reads, SameImage, SameEnd, disk, Ntfs,
           At, TabledStages
  <2> QED BY <1>1, <2>1, BuilderStays
<1>13. CASE VerifyPartitionPath
  <2>1. /\ w.mode = "extracted-ntfs" /\ Looks
        /\ \/ w.pc \in TabledStages /\ w'.pc \in TabledStages
           \/ w.pc \in FlushedStages("extracted-ntfs") \ Rereading /\ w'.pc \in FlushedStages("extracted-ntfs")
    BY <1>13, LookingSteps
       DEF Inv, VerifyPartitionPath, Ntfs, At, TabledStages, FlushedStages, Rereading
  <2> QED BY <1>1, <2>1, BuilderStays
<1> QED BY <1>2, <1>3, <1>4, <1>5, <1>6, <1>7, <1>8, <1>9, <1>10, <1>11, <1>12, <1>13

\* The completion is announced, and what was opened is let go.
LEMMA NtfsEndsData ==
  ASSUME Inv, DataInv,
         \/ NtfsFlushDisk \/ NtfsUmountISO \/ NtfsComplete \/ NtfsCleanUSB \/ NtfsCleanISO
         \/ NtfsCleanWork \/ NtfsClose \/ NtfsRelease
  PROVE  DataInv'
<1>1. "extracted-ntfs" \in Builders /\ "windows" # "extracted-ntfs"
  BY ChosenBuilders
<1>2. CASE NtfsFlushDisk
  <2>1. w.mode = "extracted-ntfs" /\ w.pc = "flush-disk" /\ Flushes /\ w'.pc \in SettledStages("extracted-ntfs")
    BY <1>2, ChangingSteps DEF Inv, NtfsFlushDisk, Ntfs, At, SettledStages
  <2>2. "flush-disk" \in SettledStages("extracted-ntfs") \cap TargetStages("extracted-ntfs")
    BY DEF SettledStages, TargetStages
  <2> QED BY <1>1, <2>1, <2>2, BuilderFlushesAgain
<1>3. CASE NtfsUmountISO
  <2>1. /\ w.mode = "extracted-ntfs" /\ w.pc \in SettledStages("extracted-ntfs")
        /\ w'.pc \in SettledStages("extracted-ntfs") /\ Looks
    BY <1>3, LookingSteps DEF Inv, NtfsUmountISO, Ntfs, At, SettledStages
  <2> QED BY <1>1, <2>1, BuilderLooks
<1>4. CASE NtfsComplete
  <2>1. w.mode = "extracted-ntfs" /\ w.pc \in SettledStages("extracted-ntfs")
    BY <1>4 DEF NtfsComplete, Ntfs, At, SettledStages
  <2> QED BY <1>1, <1>4, <2>1, BuilderAnnounces DEF NtfsComplete
<1>5. CASE \/ NtfsCleanUSB \/ NtfsCleanISO \/ NtfsCleanWork \/ NtfsClose \/ NtfsRelease
  <2>1. /\ w.mode = "extracted-ntfs" /\ w.pc \in (ClosingStages \cup ClosedStages) \ {"ended"}
        /\ w'.pc \in ClosingStages \cup ClosedStages /\ Lets
    BY <1>5, ClosingSteps
       DEF Inv, NtfsCleanUSB, NtfsCleanISO, NtfsCleanWork, NtfsClose, NtfsRelease, Ntfs, At, ClosingStages,
           ClosedStages
  <2> QED BY <1>1, <2>1, BuilderLets
<1> QED BY <1>2, <1>3, <1>4, <1>5

\* Every step of the writer to NTFS.
LEMMA NtfsData ==
  ASSUME Inv, DataInv, NtfsNext
  PROVE  DataInv'
<1>1. CASE NtfsHold \/ NtfsHash
  BY <1>1, ChosenBuilders, BuilderHashes DEF NtfsHold, NtfsHash, Ntfs, At
<1>2. CASE ~(NtfsHold \/ NtfsHash)
  BY <1>2, NtfsReadsData, NtfsWritesData, NtfsEndsData DEF NtfsNext
<1> QED BY <1>1, <1>2

\* They may fail.
LEMMA IsoFailsData ==
  ASSUME Inv, DataInv, IsoFail \/ IsoFailTorn
  PROVE  DataInv'
<1>1. PICK m \in Chosen : w.mode = m /\ w'.pc = "undo" /\ Fails /\ w.pc \in Busy(m)
  BY FailingSteps
     DEF Inv, IsoFail, IsoFailTorn, Chosen, Busy, BuilderRead, ReviewStages, TabledStages,
         FormattedStages, CopiedStages, FlushedStages, SettledStages
<1> QED BY <1>1, ChosenBuilders, BuilderFails

-----------------------------------------------------------------------------
(* Steps at any level *)

\* A raw writer leaves every disk but the one it has open.
LEMMA UntouchedOn ==
  ASSUME DataInv, w'.mode = w.mode, w.changed \subseteq w'.changed,
         \A d \in Disks :
           \/ cache'[d] = cache[d] /\ media'[d] = media[d]
           \/ \E a \in w'.changed : a.disk = d,
         w.mode = "raw" /\ w'.pc \in {"write", "write-rest", "sync"} => w'.fd \in w'.changed
  PROVE  UntouchedInv'
BY DEF DataInv, UntouchedInv

\* So does one that looks at them.
LEMMA UntouchedStays ==
  ASSUME DataInv, w'.mode = w.mode, w'.changed = w.changed, cache' = cache, media' = media,
         w.mode = "raw" => w'.pc \notin {"write", "write-rest", "sync"}
  PROVE  UntouchedInv'
BY DEF DataInv, UntouchedInv

\* Before its end a writer has neither announced anything nor returned.
LEMMA Silent ==
  ASSUME DataInv, w.mode # "qualify", w.pc \notin ClosingStages \cup ClosedStages
  PROVE  ~w.announced /\ w.status # "ok"
BY DEF DataInv, DoneInv

\* Whoever fails has nothing to say.
LEMMA FailsOn ==
  ASSUME DataInv, Fails, w.mode # "qualify", w.pc \notin ClosingStages \cup ClosedStages,
         w'.pc \in ClosingStages, w.mode \in {"none", "raw"} => UntouchedInv'
  PROVE  DataInv'
<1>1. ~w.announced /\ w.status # "ok"
  BY Silent
<1>2. DoneInv' /\ w'.err /\ FailedInv'
  BY <1>1 DEF DoneInv, FailedInv, Fails
<1>3. w'.pc \notin Unprepared
  BY DEF ClosingStages, Unprepared, Containers, Reading
<1>4. UntouchedInv'
  BY DEF UntouchedInv, Fails, SameImage
<1> QED BY <1>2, <1>3, <1>4, ImageStays DEF DataInv, Fails

\* The test of a drive has no image.
LEMMA QualifyOn ==
  ASSUME DataInv, w'.mode = "qualify", HistoryInv', PreparedInv',
         w'.err => w'.pc \in ClosingStages \cup ClosedStages
  PROVE  DataInv'
<1>1. Reached' = "free"
  BY DEF Reached, Level
<1>2. ReadInv' /\ TargetDataInv'
  BY <1>1 DEF ReadInv, TargetDataInv, Hashed, OnTarget
<1>3. FailedInv' /\ UntouchedInv' /\ DoneInv'
  BY DEF FailedInv, UntouchedInv, DoneInv
<1> QED BY <1>2, <1>3 DEF DataInv

\* A command that ends has done what it says.
LEMMA EndsOn ==
  ASSUME DataInv, w'.pc = "ended", HistoryInv', PreparedInv', UntouchedInv', DoneInv'
  PROVE  DataInv'
<1>1. Reached' = "free"
  BY DEF Reached, Level, Place, Asking
<1>2. ReadInv' /\ TargetDataInv'
  BY <1>1 DEF ReadInv, TargetDataInv, Hashed, OnTarget
<1>3. FailedInv'
  BY DEF FailedInv, ClosedStages
<1> QED BY <1>2, <1>3 DEF DataInv

\* A command that has not read its image stays so.
LEMMA UnreadOn ==
  ASSUME DataInv, Reached' = "unread", HistoryInv', PreparedInv',
         ~w.announced, w.status # "ok", w'.announced = w.announced, w'.status = w.status,
         w'.mode \in {"none", "raw"} => w.mode \in {"none", "raw"},
         w'.changed = w.changed, cache' = cache, media' = media,
         FailedInv',
         ~w'.err => /\ w'.staged = None
                    /\ w'.plan = None \/ (w'.mode = "extracted" /\ w'.pc \in Letting)
  PROVE  DataInv'
<1>1. DoneInv'
  BY DEF DoneInv
<1>2. ~w'.err => ReadInv' /\ TargetDataInv'
  BY DEF ReadInv, TargetDataInv, Hashed, OnTarget
<1>3. w'.mode = "raw" => w'.pc \notin {"write", "write-rest", "sync"}
  <2>1. SUFFICES ASSUME w'.mode = "raw", w'.pc \in {"write", "write-rest", "sync"}  PROVE FALSE
    OBVIOUS
  <2>2. Place' = w'.pc
    BY <2>1 DEF Place, Asking
  <2> QED BY <2>1, <2>2 DEF Reached, Level, ClosedStages, ClosingStages, SettledStages,
             FlushedStages, CopiedStages, UnreadStages
<1>4. UntouchedInv'
  BY <1>3 DEF DataInv, UntouchedInv
<1> QED BY <1>1, <1>2, <1>4 DEF DataInv

\* What is true before the image is read.
LEMMA Unread ==
  ASSUME Inv, DataInv, Reached = "unread"
  PROVE  /\ ~w.announced /\ w.status # "ok" /\ w.mode # "qualify" /\ w.pc # "ended"
         /\ w.err => w.pc \in ClosingStages \/ (w.mode = "extracted" /\ w.pc \in Letting)
         /\ ~w.err => /\ w.staged = None
                      /\ w.plan = None \/ (w.mode = "extracted" /\ w.pc \in Letting)
<1>1. w.mode # "qualify" /\ w.pc # "ended"
  BY DEF Reached, Level, Place, Asking
<1>2. w.mode \notin {"none", "extracted"} => w.pc \notin ClosingStages \cup ClosedStages
  <2>1. SUFFICES ASSUME w.mode \notin {"none", "extracted"}, w.pc \in ClosingStages \cup ClosedStages
                 PROVE  FALSE
    OBVIOUS
  <2>2. Place = w.pc
    BY <2>1 DEF Place, Asking, ClosingStages, ClosedStages
  <2> QED BY <1>1, <2>1, <2>2 DEF Reached, Level
<1>3. w.status = "none"
  BY <1>1 DEF Inv, CleanInv
<1>4. ~w.announced
  <2>1. CASE w.mode \in {"none", "extracted"}
    BY <1>1, <2>1 DEF Inv, CleanInv, Early
  <2>2. CASE w.mode \notin {"none", "extracted"}
    BY <1>1, <1>2, <2>2, Silent
  <2> QED BY <2>1, <2>2
<1>5. w.err => w.pc \in ClosingStages \/ (w.mode = "extracted" /\ w.pc \in Letting)
  <2>1. w.pc \notin ClosedStages
    <3>1. w.pc \in ClosedStages => Place = w.pc
      BY DEF Place, Asking, ClosedStages
    <3> QED BY <1>1, <3>1 DEF Reached, Level
  <2> QED BY <2>1 DEF DataInv, FailedInv
<1> QED BY <1>1, <1>3, <1>4, <1>5 DEF DataInv, ReadInv

-----------------------------------------------------------------------------
(* The FreeDOS tool *)

\* The stages between its plan and its first write.
FreeRead == {"confirm", "revalidate", "unmount", "open", "lock", "prepared", "begin", "write"}

\* The levels of its stages.
LEMMA FreeLevels ==
  /\ \A s \in {"discover", "mode"} : Level("freedos", s) = "unread"
  /\ \A s \in FreeRead : Level("freedos", s) = "read"
  /\ Level("freedos", "write-rest") = "tabled"
  /\ Level("freedos", "flush") = "copied"
  /\ Level("freedos", "readback") = "flushed"
  /\ \A s \in {"finish", "finished"} : Level("freedos", s) = "settled"
  /\ \A s \in ClosingStages \cup (ClosedStages \ {"ended"}) : Level("freedos", s) = "settled"
BY DEF FreeRead, Level, SettledStages, FlushedStages, CopiedStages, FormattedStages, TabledStages,
       UnreadStages, ClosingStages, ClosedStages

\* A stage of its own is where it is.
LEMMA FreeStanding ==
  /\ w.mode = "freedos" /\ w.pc \notin Asking => Place = w.pc /\ Reached = Level("freedos", w.pc)
  /\ w'.mode = "freedos" /\ w'.pc \notin Asking =>
       Place' = w'.pc /\ Reached' = Level("freedos", w'.pc)
  /\ w'.mode = "freedos" /\ w'.pc \in Asking =>
       Place' = w'.ret /\ Reached' = Level("freedos", w'.ret)
  /\ FreeRead \cap (Asking \cup Unprepared) = {}
  /\ {"write-rest", "flush", "readback", "finish", "finished"} \cap (Asking \cup Unprepared) = {}
  /\ (ClosingStages \cup ClosedStages) \cap (Asking \cup Unprepared) = {}
  /\ Asking \cap Unprepared = {}
BY DEF Place, Reached, FreeRead, Asking, Unprepared, Containers, Reading, ClosingStages, ClosedStages

\* It starts and finds its disk.
LEMMA FreeStartsData ==
  ASSUME Inv, DataInv, (\E noUnmount \in BOOLEAN : FreeStart(noUnmount)) \/ FreeDiscover
  PROVE  DataInv'
<1>1. DataFields \subseteq DOMAIN w
  BY DataFieldsIn DEF Inv
<1>2. /\ w'.mode = "freedos" /\ w'.verify \in {TRUE, w.verify} /\ w'.pin = w.pin
      /\ w'.private = w.private /\ w'.image = w.image /\ w'.plan = w.plan /\ w'.staged = w.staged
      /\ w'.changed = w.changed /\ w'.err = w.err /\ w'.announced = w.announced
      /\ w'.status = w.status /\ w'.pc \in {"discover", "mode"} /\ UNCHANGED <<disk, src>>
  BY <1>1, Zenon DEF DataFields, FreeStart, FreeDiscover, Free, At
<1>3. w.pc \in {"start", "discover"} /\ w.mode \in {"none", "freedos"}
  BY Zenon DEF FreeStart, FreeDiscover, Free, At, Inv, ImageInv
<1>4. Reached = "unread" /\ Reached' = "unread"
  <2>1. Place = w.pc /\ Place' = w'.pc
    BY <1>2, <1>3 DEF Place, Asking
  <2>2. "start" \notin ClosedStages /\ "discover" \notin ClosedStages
    BY DEF ClosedStages
  <2>3. Level("none", "start") = "unread" /\ Level("none", "discover") = "unread"
    BY <2>2 DEF Level
  <2>4. w.mode = "none" \/ w.pc = "discover"
    BY Zenon DEF FreeStart, FreeDiscover, Free, At, Inv, ImageInv
  <2> QED BY <1>2, <1>3, <2>1, <2>3, <2>4, FreeLevels DEF Reached
<1>5. ~w.err /\ ~w.announced /\ w.status # "ok" /\ w.staged = None /\ w.plan = None
  <2>1. w.pc \notin ClosingStages
    BY <1>3 DEF ClosingStages
  <2> QED BY <1>3, <1>4, <2>1, Unread
<1>6. HistoryInv'
  BY <1>2 DEF DataInv, HistoryInv
<1>7. PreparedInv'
  <2>1. ~w.private
    BY <1>3 DEF DataInv, PreparedInv, Unprepared
  <2> QED BY <1>2, <2>1 DEF PreparedInv, Reading, Containers, Unprepared
<1> QED BY <1>2, <1>4, <1>5, <1>6, <1>7, UnreadOn DEF disk, FailedInv

\* It plans the disk.
LEMMA FreePlansData ==
  ASSUME Inv, DataInv, BuildDevicePlan
  PROVE  DataInv'
<1>1. DataFields \subseteq DOMAIN w
  BY DataFieldsIn DEF Inv
<1>2. /\ w.mode = "freedos" /\ w.pc = "mode"
      /\ SameImage /\ SameEnd /\ w'.digest = "plan" /\ w'.plan = w.plan /\ w'.staged = w.staged
      /\ w'.changed = w.changed /\ cache' = cache /\ media' = media /\ w'.pc = "confirm"
  BY <1>1 DEF DataFields, BuildDevicePlan, Free, At, SameImage, SameEnd, disk
<1>3. Reached = "unread"
  BY <1>2, FreeLevels, FreeStanding DEF Asking
<1>4. Reached' = "read"
  BY <1>2, FreeLevels, FreeStanding DEF Asking, FreeRead, SameImage
<1>5. ~w.err /\ ~w.announced /\ w.status # "ok" /\ w.staged = None /\ w.plan = None
  BY <1>2, <1>3, Unread DEF ClosingStages
<1>6. ReadInv' /\ TargetDataInv'
  BY <1>2, <1>4, <1>5 DEF ReadInv, TargetDataInv, Hashed, OnTarget, Images, SameImage
<1>7. FailedInv' /\ DoneInv' /\ UntouchedInv'
  BY <1>2, <1>5 DEF FailedInv, DoneInv, UntouchedInv, SameEnd, SameImage
<1>8. w'.pc \notin Unprepared
  BY <1>2 DEF Unprepared, Containers, Reading
<1> QED BY <1>2, <1>6, <1>7, <1>8, ImageStays DEF DataInv

\* It opens the disk and looks at it.
LEMMA FreeReadsData ==
  ASSUME Inv, DataInv, FreeOpenTarget \/ FreePrepare \/ FreeBeforeDestructive \/ FreeBegin
  PROVE  DataInv'
<1>1. w.mode = "freedos" /\ w.pc \in FreeRead
  BY DEF FreeOpenTarget, FreePrepare, FreeBeforeDestructive, FreeBegin, Free, At, FreeRead
<1>2. Keeps /\ (w'.pc \in FreeRead \/ (w'.pc \in Asking /\ w'.ret \in FreeRead))
  BY MarkingSteps, Zenon DEF Inv, FreeOpenTarget, FreePrepare, FreeBeforeDestructive, FreeBegin, Looks, FreeRead
<1>3. Reached = "read" /\ Reached' = "read" /\ w'.pc \notin Unprepared
  BY <1>1, <1>2, FreeLevels, FreeStanding DEF Keeps, Reads, SameImage
<1> QED BY <1>1, <1>2, <1>3, ReadOn DEF Keeps, Makers

\* It writes it.
LEMMA FreeWritesData ==
  ASSUME Inv, DataInv, WriteHead \/ WriteMediaExtents \/ FreeFlush
  PROVE  DataInv'
<1>1. w.mode = "freedos" /\ w.mode \in Makers /\ w.pc \in {"write", "write-rest", "flush"}
  BY DEF WriteHead, WriteMediaExtents, FreeFlush, Free, At, Makers
<1>2. w.pc \notin Asking
  BY <1>1 DEF Asking
<1>3. Place = w.pc /\ Place \in TargetStages(w.mode)
  BY <1>1, <1>2, FreeStanding DEF TargetStages
<1>4. CASE WriteHead
  <2>1. w.pc = "write" /\ w'.pc = "write-rest" /\ Puts([table |-> "plan", fs |-> "none"])
    BY <1>4, ChangingSteps DEF Inv, WriteHead, Free, At
  <2>2. Reached = "read" /\ Reached' = "tabled" /\ w'.pc \notin Unprepared
    BY <1>1, <1>2, <2>1, FreeLevels, FreeStanding DEF FreeRead, Puts, Keeps, Reads, SameImage
  <2> QED BY <1>1, <1>3, <2>1, <2>2, TabledOn
<1>5. CASE WriteMediaExtents
  <2>1. w.pc = "write-rest" /\ w'.pc = "flush" /\ Puts([Held EXCEPT !.fs = "plan"])
    BY <1>5, ChangingSteps DEF Inv, WriteMediaExtents, Free, At
  <2>2. Reached = "tabled" /\ Reached' = "copied" /\ w'.pc \notin Unprepared
    BY <1>1, <1>2, <2>1, FreeLevels, FreeStanding DEF Puts, Keeps, Reads, SameImage
  <2>3. Held' = [Held EXCEPT !.fs = "plan"] /\ Held \in Cells
    BY <1>1, <1>3, <2>1, TargetIn DEF Puts, Keeps, Reads, Held
  <2>4. Held'.fs = "plan" /\ Held'.table = Held.table
    BY <2>3 DEF Cells
  <2>5. Held.table = "plan" /\ w.digest = "plan"
    BY <1>1, <2>2, Going DEF TargetDataInv, ReadInv, OnTarget, Hashed
  <2>6. TargetDataInv'
    BY <2>1, <2>2, <2>4, <2>5 DEF TargetDataInv, OnTarget, Puts, Keeps, Reads
  <2> QED BY <1>1, <2>1, <2>2, <2>6, ReadsData DEF Hashed, Puts, Keeps
<1>6. CASE FreeFlush
  <2>1. w.pc = "flush" /\ w'.pc = "readback" /\ Flushes
    BY <1>6, ChangingSteps DEF Inv, FreeFlush, Free, At
  <2>2. Reached = "copied" /\ Reached' = "flushed" /\ Place' = "readback" /\ w'.pc \notin Unprepared
    BY <1>1, <1>2, <2>1, FreeLevels, FreeStanding DEF Flushes, Keeps, Reads, SameImage
  <2> QED BY <1>1, <1>3, <2>1, <2>2, FlushOn DEF Rereading
<1> QED BY <1>4, <1>5, <1>6

\* It reads it back and looks at it again.
LEMMA FreeVerifiesData ==
  ASSUME Inv, DataInv, VerifyMediaExtents \/ FreeFinish \/ FreeSync
  PROVE  DataInv'
<1>1. w.mode = "freedos" /\ w.mode \in Makers /\ w.pc \in {"readback", "finish", "finished"}
  BY DEF VerifyMediaExtents, FreeFinish, FreeSync, Free, At, Makers
<1>2. w.pc \notin Asking
  BY <1>1 DEF Asking
<1>3. CASE VerifyMediaExtents
  <2>1. w.pc = "readback" /\ w'.pc = "finish" /\ Looks /\ Held.fs = w.digest
    BY <1>3, LookingSteps DEF Inv, VerifyMediaExtents, Free, At
  <2>2. Reached = "flushed" /\ Reached' = "settled" /\ Place = "readback" /\ w'.pc \notin Unprepared
    BY <1>1, <1>2, <2>1, FreeLevels, FreeStanding DEF Looks, Keeps, Reads, SameImage
  <2>3. Place \in TargetStages(w.mode)
    BY <1>1, <2>2 DEF TargetStages, FlushedStages
  <2> QED BY <1>1, <2>1, <2>2, <2>3, SettleOn
<1>4. CASE FreeFinish \/ FreeSync
  <2>1. /\ w.pc \in {"finish", "finished"} /\ Looks
        /\ w'.pc = "undo" \/ (w'.pc \in Asking /\ w'.ret = "finished")
    BY <1>4, LookingSteps, MarkingSteps, Zenon DEF Inv, FreeFinish, FreeSync, Free, At
  <2>2. "undo" \in ClosingStages /\ {"finish", "finished"} \cap (ClosingStages \cup ClosedStages) = {}
    BY DEF ClosingStages, ClosedStages
  <2>3. Reached = "settled" /\ Reached' = "settled" /\ w'.pc \notin Unprepared
    BY <1>1, <1>2, <2>1, <2>2, FreeLevels, FreeStanding DEF Looks, Keeps, Reads, SameImage
  <2>4. ~Fails
    <3>1. ~w.err
      BY <1>1, <2>1, <2>2 DEF DataInv, FailedInv
    <3> QED BY <2>1, <3>1 DEF Fails, Looks, Keeps, Reads, SameEnd
  <2> QED BY <1>1, <2>1, <2>2, <2>3, <2>4, SettledLooks
<1> QED BY <1>3, <1>4

\* It fails, closes the disk and reports.
LEMMA FreeEndsData ==
  ASSUME Inv, DataInv, FreeFail \/ FreeFailTorn \/ FreeClose \/ FinishExecutionReport
  PROVE  DataInv'
<1>1. CASE FreeFail \/ FreeFailTorn
  <2>1. /\ w.mode = "freedos" /\ Fails /\ w'.pc = "undo"
        /\ w.pc \in FreeRead \cup {"write-rest", "flush", "readback", "finish", "finished"}
    BY <1>1, FailingSteps DEF Inv, FreeFail, FreeFailTorn, FreeRead
  <2>2. w.pc \notin ClosingStages \cup ClosedStages /\ w'.pc \in ClosingStages
    BY <2>1 DEF FreeRead, ClosingStages, ClosedStages
  <2> QED BY <2>1, <2>2, FailsOn
<1>2. CASE FreeClose \/ FinishExecutionReport
  <2>1. w.mode = "freedos" /\ w.pc \in {"undo", "report"} /\ w'.pc \in {"report", "returned"} /\ Lets
    <3>1. CASE FreeClose
      BY <3>1, ClosingSteps DEF Inv, FreeClose, Free, At
    <3>2. CASE FinishExecutionReport
      BY <3>2, DataFieldsIn DEF Inv, FinishExecutionReport, Free, At, Lets, DataFields, disk
    <3> QED BY <1>2, <3>1, <3>2
  <2>2. /\ w.pc \in (ClosingStages \cup ClosedStages) \ {"ended"}
        /\ w'.pc \in ClosingStages \cup ClosedStages
    BY <2>1 DEF ClosingStages, ClosedStages
  <2> QED BY <2>1, <2>2, ClosesOn DEF Settles, Makers
<1> QED BY <1>1, <1>2

\* Every step of the FreeDOS tool.
LEMMA FreeDOSData ==
  ASSUME Inv, DataInv, FreeDOSNext
  PROVE  DataInv'
BY FreeStartsData, FreePlansData, FreeReadsData, FreeWritesData, FreeVerifiesData, FreeEndsData
   DEF FreeDOSNext

-----------------------------------------------------------------------------
(* The raw writer *)

\* The stages between its hash and its first write.
RawRead == {"target", "before", "final", "clear", "write"}

\* The levels of its stages.
LEMMA RawLevels ==
  /\ \A s \in {"open", "lease", "hash"} : Level("raw", s) = "unread"
  /\ \A s \in RawRead : Level("raw", s) = "read"
  /\ \A s \in {"write-rest", "sync"} : Level("raw", s) = "copied"
  /\ \A s \in {"flush", "verify", "finish", "undo", "release", "returned"} :
       Level("raw", s) = "settled"
  /\ Level("raw", "ended") = "free"
BY DEF RawRead, Level, SettledStages, FlushedStages, CopiedStages, UnreadStages, ClosingStages,
       ClosedStages

\* Every one but the end.
RawOwn == {"open", "lease", "hash", "write-rest", "sync", "flush", "verify", "finish", "undo",
           "release", "returned", "ended"} \cup RawRead

\* A stage of its own is where it is.
LEMMA RawStanding ==
  /\ w.mode = "raw" /\ w.pc \in RawOwn => Place = w.pc /\ Reached = Level("raw", w.pc)
  /\ w'.mode = "raw" /\ w'.pc \in RawOwn => Place' = w'.pc /\ Reached' = Level("raw", w'.pc)
  /\ w'.mode = "raw" /\ w'.pc \in Asking => Place' = w'.ret /\ Reached' = Level("raw", w'.ret)
  /\ RawOwn \cap Aside = {"ended"} /\ RawOwn \cap Unprepared = {} /\ Asking \cap Unprepared = {}
  /\ Asking \cap {"write", "write-rest", "sync"} = {}
BY DEF Place, Reached, RawRead, RawOwn, Aside, Asking, Unprepared, Containers, Reading

\* It is asked about the target, and holds and hashes the image.
LEMMA RawHashesData ==
  ASSUME Inv, DataInv, RawOpen \/ RawHold \/ RawSnapshot
  PROVE  DataInv'
<1>1. /\ w.mode = "raw" /\ w.pc \in {"open", "lease", "hash"} /\ w.pc \in RawOwn
      /\ w.pc \notin ClosingStages
  BY DEF RawOpen, RawHold, RawSnapshot, At, RawOwn, ClosingStages
<1>2. Reached = "unread"
  BY <1>1, RawStanding, RawLevels
<1>3. CASE RawOpen \/ Pass("hash")
  <2>1. Looks /\ ((w'.pc \in Asking /\ w'.ret = "lease") \/ w'.pc = "hash")
    BY <1>3, LookingSteps, MarkingSteps, Zenon DEF Inv, RawOpen
  <2>2. Reached' = "unread" /\ w'.pc \notin Unprepared
    BY <1>1, <2>1, RawStanding, RawLevels DEF RawOwn, Looks, Keeps, Reads, SameImage
  <2>3. HistoryInv' /\ PreparedInv'
    BY <2>1, <2>2, ImageStays DEF Looks, Keeps, Reads
  <2>4. ~w'.err
    BY <1>1, <1>2, <2>1, Unread DEF Looks, Keeps, Reads, SameEnd
  <2> QED BY <1>1, <1>2, <2>1, <2>2, <2>3, <2>4, UnreadOn, Unread
          DEF Looks, Keeps, Reads, SameImage, SameEnd, FailedInv
<1>4. CASE AcquireReadLease("hash")
  <2>1. "hash" \notin Aside /\ Level(w.mode, "hash") = "unread"
    BY <1>1, RawStanding, RawLevels DEF RawOwn
  <2> QED BY <1>1, <1>2, <1>4, <2>1, HoldsOn
<1>5. CASE HashFirst("target")
  <2>1. "target" \notin Aside /\ Level(w.mode, "target") = "read" /\ "target" # "write"
    BY <1>1, RawStanding, RawLevels DEF RawOwn, RawRead
  <2> QED BY <1>1, <1>2, <1>5, <2>1, HashesOn
<1> QED BY <1>3, <1>4, <1>5 DEF RawHold, RawSnapshot, Pass

\* It opens the target and looks at it.
LEMMA RawReadsData ==
  ASSUME Inv, DataInv, RawOpenTarget \/ RawBeforeWrite \/ RawFinalCheck
  PROVE  DataInv'
<1>1. w.mode = "raw" /\ w.pc \in RawRead /\ w.pc \in RawOwn
  BY DEF RawOpenTarget, RawBeforeWrite, RawFinalCheck, At, RawRead, RawOwn
<1>2. /\ Keeps /\ w'.changed = w.changed /\ cache' = cache /\ media' = media
      /\ w'.pc \in {"before", "clear"} \/ (w'.pc \in Asking /\ w'.ret = "final")
  <2>1. CASE RawOpenTarget
    <3>1. w'.changed = w.changed /\ cache' = cache /\ media' = media
      BY <2>1, DataFieldsIn DEF Inv, DataFields, RawOpenTarget, OpenTarget, disk
    <3> QED BY <2>1, <3>1, MarkingSteps, Zenon DEF Inv, RawOpenTarget
  <2>2. CASE RawBeforeWrite
    BY <2>2, MarkingSteps, Zenon DEF Inv, RawBeforeWrite, Looks
  <2>3. CASE RawFinalCheck
    <3>1. Pass("clear")
      BY <2>3 DEF RawFinalCheck, Pass
    <3> QED BY <3>1, LookingSteps DEF Inv, Looks
  <2> QED BY <2>1, <2>2, <2>3
<1>3. w'.mode = "raw"
  BY <1>1, <1>2 DEF Keeps, Reads, SameImage
<1>4. Reached = "read" /\ Reached' = "read" /\ w'.pc \notin Unprepared
  BY <1>1, <1>2, <1>3, RawStanding, RawLevels DEF RawOwn, RawRead
<1>5. UntouchedInv'
  <2>1. w'.pc \notin {"write", "write-rest", "sync"}
    BY <1>2, RawStanding
  <2> QED BY <1>1, <1>2, <1>3, <2>1, UntouchedStays
<1>6. TargetDataInv'
  BY <1>4 DEF TargetDataInv, OnTarget
<1> QED BY <1>1, <1>2, <1>4, <1>5, <1>6, ReadsData DEF Hashed, Keeps

\* It clears the target and writes the image to it.
LEMMA RawWritesData ==
  ASSUME Inv, DataInv, RawClearEdges \/ RawWriteFirst \/ RawWriteRest
  PROVE  DataInv'
<1>1. /\ w.mode = "raw" /\ w.pc \in {"clear", "write", "write-rest"} /\ w.pc \in RawOwn
      /\ w.mode \notin Makers
  BY DEF RawClearEdges, RawWriteFirst, RawWriteRest, At, RawRead, RawOwn, Makers, Builders
<1>2. Place = w.pc /\ Place \in TargetStages(w.mode)
  BY <1>1, RawStanding DEF TargetStages
<1>3. /\ w.fd # None /\ w.fd.disk \in Disks
      /\ cache \in [Disks -> Cells] /\ media \in [Disks -> Cells]
  BY <1>1, <1>2, TargetIn
<1>4. ASSUME Keeps, w'.changed = w.changed \cup {w.fd}, w'.fd = w.fd,
             \A d \in Disks : d # w.fd.disk => cache'[d] = cache[d] /\ media'[d] = media[d]
      PROVE  UntouchedInv'
  BY <1>3, <1>4, UntouchedOn DEF Keeps, Reads, SameImage
<1>5. CASE RawClearEdges
  <2>1. /\ w.pc = "clear" /\ w'.pc = "write" /\ Keeps
        /\ w'.changed = w.changed \cup {w.fd} /\ w'.fd = w.fd
        /\ \A d \in Disks : d # w.fd.disk => cache'[d] = cache[d] /\ media'[d] = media[d]
    BY <1>3, <1>5, DataFieldsIn
       DEF Inv, DataFields, RawClearEdges, At, Keeps, Reads, SameImage, SameEnd
  <2>2. Reached = "read" /\ Reached' = "read" /\ w'.pc \notin Unprepared
    BY <1>1, <2>1, RawStanding, RawLevels DEF RawOwn, RawRead, Keeps, Reads, SameImage
  <2>3. TargetDataInv'
    BY <2>2 DEF TargetDataInv, OnTarget
  <2> QED BY <1>1, <1>4, <2>1, <2>2, <2>3, ReadsData DEF Hashed, Keeps
<1>6. CASE RawWriteFirst
  <2>1. w.pc = "write" /\ w'.pc = "write-rest" /\ Puts([table |-> "plan", fs |-> Bytes])
    BY <1>6, ChangingSteps DEF Inv, RawWriteFirst, At
  <2>2. Reached = "read" /\ Reached' = "copied" /\ w'.pc \notin Unprepared
    BY <1>1, <2>1, RawStanding, RawLevels DEF RawOwn, RawRead, Puts, Keeps, Reads, SameImage
  <2>3. Held' = [table |-> "plan", fs |-> Bytes]
    BY <1>3, <2>1 DEF Puts, Keeps, Reads, Held
  <2>4. Steady' => Bytes = w.digest
    <3>1. Steady' => Steady
      BY <2>1 DEF Puts, Keeps, Reads, SameImage, Steady
    <3> QED BY <1>1, <2>2, <3>1, Going DEF ReadInv, Hashed
  <2>5. TargetDataInv'
    BY <2>1, <2>2, <2>3, <2>4 DEF TargetDataInv, OnTarget, Puts, Keeps, Reads
  <2>6. UntouchedInv'
    BY <1>3, <1>4, <2>1 DEF Puts
  <2> QED BY <1>1, <2>1, <2>2, <2>5, <2>6, ReadsData DEF Hashed, Puts, Keeps
<1>7. CASE RawWriteRest
  <2>1. w.pc = "write-rest" /\ w'.pc = "sync" /\ Puts([Held EXCEPT !.fs = Mixed(@, Bytes)])
    BY <1>7, ChangingSteps DEF Inv, RawWriteRest, At
  <2>2. Reached = "copied" /\ Reached' = "copied" /\ w'.pc \notin Unprepared
    BY <1>1, <2>1, RawStanding, RawLevels DEF RawOwn, RawRead, Puts, Keeps, Reads, SameImage
  <2>3. Steady => Bytes = w.digest
    BY <1>1, <2>2, Going DEF ReadInv, Hashed
  <2>4. UntouchedInv'
    BY <1>3, <1>4, <2>1 DEF Puts
  <2>5. Place \notin Rereading
    BY <1>1, <1>2 DEF Rereading
  <2> QED BY <1>1, <1>2, <2>1, <2>2, <2>3, <2>4, <2>5, CopyOn
<1> QED BY <1>5, <1>6, <1>7

\* It syncs it, when it is what was hashed; what a medium that lies about its
\* writes keeps is found when it is read back.
LEMMA RawSyncsData ==
  ASSUME Inv, DataInv, RawSync
  PROVE  DataInv'
<1>1. w.mode = "raw" /\ w.pc = "sync" /\ w.pc \in RawOwn /\ w.mode \notin {"none", "qualify"}
  BY DEF RawSync, At, RawOwn
<1>2. Place = w.pc /\ Place \in TargetStages(w.mode) /\ Reached = "copied"
  BY <1>1, RawStanding, RawLevels DEF TargetStages, CopiedStages
<1>3. /\ w.fd # None /\ w.fd.disk \in Disks
      /\ cache \in [Disks -> Cells] /\ media \in [Disks -> Cells]
  BY <1>1, <1>2, TargetIn
<1>4. w.fd \in w.changed
  BY <1>1 DEF DataInv, UntouchedInv
<1>5. "undo" \in ClosingStages /\ w.pc \notin ClosingStages \cup ClosedStages
      /\ "undo" \notin {"write", "write-rest", "sync"}
  BY <1>1 DEF ClosingStages, ClosedStages
<1>6. CASE Flush("undo") /\ Held.fs = w.digest
  <2>1. w'.pc = "undo" /\ Flushes
    BY <1>6, ChangingSteps DEF Inv
  <2>2. ~w.announced /\ w.status # "ok" /\ ~w.err /\ ReadInv /\ TargetDataInv
    BY <1>1, <1>2, Going DEF Hashed
  <2> DEFINE Result(flawed) == IF flawed THEN [Held EXCEPT !.fs = "mixed"] ELSE Held
  <2>3. PICK flawed \in BOOLEAN :
          /\ media' = [media EXCEPT ![w.fd.disk] = Result(flawed)]
          /\ cache' = [cache EXCEPT ![w.fd.disk] = Result(flawed)]
          /\ w'.flawed = (w.flawed \/ flawed)
    BY <2>1 DEF Flushes
  <2>4. /\ Held \in Cells
        /\ cache'[w.fd.disk] = Result(flawed) /\ media'[w.fd.disk] = Result(flawed)
    BY <1>3, <2>3 DEF Held
  <2>5. Result(flawed).table = Held.table /\ (Result(flawed).fs = Held.fs \/ w'.flawed)
    BY <2>3, <2>4 DEF Cells
  <2>6. \A a \in w.changed : a.disk = w.fd.disk
    BY <1>3, ChangedTarget
  <2>7. /\ w'.changed = w.changed /\ w'.digest = w.digest /\ w'.mode = "raw" /\ w'.fd = w.fd
        /\ w'.err = w.err /\ w'.announced = w.announced /\ w'.status = w.status
    BY <1>1, <2>1 DEF Flushes, Keeps, Reads, SameImage, SameEnd
  <2>8. Place' = "undo" /\ Reached' = "settled" /\ w'.pc \notin Unprepared
    BY <2>1, <2>7, RawStanding, RawLevels DEF RawOwn
  <2>9. w'.verify => ToVerify'
    <3>1. w'.status = "none"
      BY <1>5, <2>7 DEF Inv, CleanInv, ClosedStages
    <3> QED BY <2>7, <2>8, <3>1 DEF ToVerify
  <2>10. Held.table = "plan"
    BY <1>2, <2>2 DEF TargetDataInv, OnTarget
  <2>11. Kept'
    <3> HIDE DEF Result
    <3> QED BY <1>6, <2>4, <2>5, <2>6, <2>7, <2>9, <2>10 DEF Kept
  <2>12. w.digest \in Images
    BY <1>2, <2>2 DEF ReadInv, Hashed
  <2>13. ReadInv' /\ TargetDataInv'
    BY <2>7, <2>8, <2>11, <2>12 DEF ReadInv, TargetDataInv, Hashed, OnTarget, Images
  <2>14. FailedInv' /\ DoneInv'
    BY <2>2, <2>7 DEF FailedInv, DoneInv
  <2>15. UntouchedInv'
    <3>1. \A d \in Disks : d # w.fd.disk => cache'[d] = cache[d] /\ media'[d] = media[d]
      BY <1>3, <2>3
    <3> QED BY <1>1, <1>4, <1>5, <2>1, <2>7, <3>1, UntouchedOn
  <2>16. HistoryInv' /\ PreparedInv'
    BY <2>1, <2>8, ImageStays DEF Flushes, Keeps, Reads
  <2> QED BY <2>13, <2>14, <2>15, <2>16 DEF DataInv
<1>7. CASE ~(VerifyPinned /\ Held.fs = w.digest)
  <2>1. /\ Fails /\ w'.pc = "undo" /\ w'.mode = w.mode /\ w'.changed = w.changed
        /\ cache' = cache /\ media' = media
    BY <1>7, DataFieldsIn DEF Inv, DataFields, RawSync, Fails, SameImage, disk
  <2>2. UntouchedInv'
    BY <1>5, <2>1, UntouchedStays
  <2> QED BY <1>1, <1>5, <2>1, <2>2, FailsOn
<1> QED BY <1>6, <1>7 DEF RawSync

\* It may fail.
LEMMA RawFailsData ==
  ASSUME Inv, DataInv, RawFail \/ RawFailWrite
  PROVE  DataInv'
<1>1. DataFields \subseteq DOMAIN w
  BY DataFieldsIn DEF Inv
<1>2. /\ w.mode = "raw" /\ w.pc \in RawRead \cup {"open", "lease", "hash", "write-rest", "sync"}
      /\ w'.pc = "undo" /\ Fails
  <2>1. CASE RawFail
    BY <2>1, FailingSteps DEF Inv, RawFail, RawRead
  <2>2. CASE RawFailWrite
    BY <1>1, <2>2 DEF DataFields, RawFailWrite, Fails, SameImage, RawRead
  <2> QED BY <2>1, <2>2
<1>3. w.pc \notin ClosingStages \cup ClosedStages /\ w'.pc \in ClosingStages
      /\ w'.pc \notin {"write", "write-rest", "sync"}
  BY <1>2 DEF RawRead, ClosingStages, ClosedStages
<1>4. w'.mode = w.mode
  BY <1>2 DEF Fails, SameImage
<1>5. UntouchedInv'
  <2>1. CASE RawFail
    <3>1. w'.changed = w.changed /\ cache' = cache /\ media' = media
      BY <1>1, <2>1 DEF DataFields, RawFail, Fail, FailTo, disk
    <3> QED BY <1>3, <1>4, <3>1, UntouchedStays
  <2>2. CASE RawFailWrite
    <3>1. w.pc \in RawOwn /\ Place = w.pc /\ Place \in TargetStages(w.mode)
      BY <1>2, <2>2, RawStanding DEF RawFailWrite, RawOwn, RawRead, TargetStages, CopiedStages
    <3>2. w.fd.disk \in Disks /\ cache \in [Disks -> Cells]
      BY <1>2, <3>1, TargetIn
    <3>3. /\ w'.changed = w.changed \cup {w.fd}
          /\ \A d \in Disks : d # w.fd.disk => cache'[d] = cache[d] /\ media'[d] = media[d]
      BY <1>1, <2>2, <3>2 DEF DataFields, RawFailWrite
    <3> QED BY <1>3, <1>4, <3>3, UntouchedOn
  <2> QED BY <2>1, <2>2
<1> QED BY <1>2, <1>3, <1>5, FailsOn

\* It closes the target, lets the image go, and is asked about the target once more.
LEMMA RawClosesData ==
  ASSUME Inv, DataInv, RawCloseTarget \/ RawRelease \/ RawPostCheck
  PROVE  DataInv'
<1>1. /\ w.mode = "raw" /\ w.pc \in {"undo", "release", "returned"} /\ w.pc \in RawOwn
      /\ w.mode # "qualify"
  BY DEF RawCloseTarget, RawRelease, RawPostCheck, At, RawOwn
<1>2. Reached = "settled" /\ Place = w.pc
  BY <1>1, RawStanding, RawLevels
<1>3. /\ Settles /\ w'.mode = "raw" /\ w'.changed = w.changed /\ w'.verify = w.verify
      /\ w'.announced = w.announced /\ w'.status = w.status
      /\ w'.err => w'.pc \in {"release", "returned"}
      /\ w'.pc \in {"release", "returned"} \/ (w'.pc \in Asking /\ w'.ret = "flush")
      /\ cache' = cache /\ media' = media
  <2>1. CASE RawCloseTarget
    <3>1. w'.pc = "release" /\ Lets
      BY <2>1, ClosingSteps DEF Inv, RawCloseTarget
    <3> QED BY <1>1, <2>1, <3>1, Zenon DEF Settles, Lets, RawCloseTarget, CloseTarget, disk
  <2>2. CASE RawRelease
    <3>1. w'.pc = "returned" /\ Lets
      BY <2>2, ClosingSteps DEF Inv, RawRelease
    <3> QED BY <1>1, <2>2, <3>1 DEF Settles, Lets, RawRelease, FinishLease, disk
  <2>3. CASE RawPostCheck
    <3>1. w'.pc \in Asking /\ w'.ret = "flush" /\ Looks /\ ~w.err
      BY <2>3, MarkingSteps, Zenon DEF Inv, RawPostCheck
    <3>2. w'.own = w.own /\ w'.known = w.known
      BY <2>3, DataFieldsIn DEF Inv, DataFields, RawPostCheck, Ask
    <3> QED BY <1>1, <3>1, <3>2 DEF Settles, Looks, Keeps, Reads, SameImage, SameEnd
  <2> QED BY <2>1, <2>2, <2>3
<1>4. Reached' = "settled" /\ Place' # "finish" /\ w'.pc \notin Unprepared
      /\ w'.pc \notin {"write", "write-rest", "sync"}
  BY <1>3, RawStanding, RawLevels DEF RawOwn
<1>5. ToVerify => ToVerify'
  BY <1>3, <1>4 DEF ToVerify
<1>6. UntouchedInv'
  BY <1>1, <1>3, <1>4, UntouchedStays
<1>7. ~w.announced /\ w.status # "ok"
  BY <1>1 DEF Inv, CleanInv, Early
<1>8. w'.err => w'.pc \in ClosingStages \cup ClosedStages
  BY <1>3 DEF ClosedStages
<1> QED BY <1>1, <1>2, <1>3, <1>4, <1>5, <1>6, <1>7, <1>8, SettlesOn

\* It flushes whatever is there now, and reads it.
LEMMA RawVerifiesData ==
  ASSUME Inv, DataInv, RawFlush \/ RawVerify
  PROVE  DataInv'
<1>1. /\ w.mode = "raw" /\ w.pc \in {"flush", "verify"} /\ w.pc \in RawOwn
      /\ w.mode # "qualify" /\ w.pc \notin ClosingStages \cup ClosedStages
  BY DEF RawFlush, RawVerify, At, RawOwn, ClosingStages, ClosedStages
<1>2. Reached = "settled" /\ Place = w.pc
  BY <1>1, RawStanding, RawLevels
<1>3. ~w.announced /\ w.status # "ok" /\ ~w.err
  BY <1>1, Silent DEF DataInv, FailedInv
<1>4. w.digest \in Images /\ Kept /\ w.own = w.known
  BY <1>1, <1>2, <1>3, Settled
<1>5. /\ SameImage /\ SameEnd /\ w'.mode = "raw" /\ w'.changed = w.changed
      /\ w'.verify = w.verify /\ w'.digest = w.digest /\ w'.flawed = w.flawed
      /\ w'.own = w.own /\ w'.known = w.known
      /\ w'.pc \in {"verify", "finish"} /\ (w.pc = "verify" \/ ~w.verify <=> w'.pc = "finish")
      /\ media' = media
  BY <1>1, DataFieldsIn
     DEF Inv, DataFields, RawFlush, RawVerify, Goto, At, SameImage, SameEnd, disk
<1>6. Reached' = "settled" /\ Place' = w'.pc /\ w'.pc \notin Unprepared
      /\ w'.pc \notin {"write", "write-rest", "sync"}
  BY <1>5, RawStanding, RawLevels DEF RawOwn
<1>7. \A d \in Disks : cache[d] = media[d] => cache'[d] = cache[d]
  BY <1>5 DEF RawFlush, RawVerify, disk, Inv, DiskTypeOK
<1>8. UntouchedInv'
  BY <1>1, <1>5, <1>6, <1>7 DEF DataInv, UntouchedInv
<1>9. ToVerify => ToVerify' \/ \A a \in w.changed : media[a.disk].fs = w.digest
  <2>1. CASE RawFlush
    <3>1. ToVerify => w'.pc = "verify"
      BY <2>1, <1>5 DEF ToVerify, RawFlush, Goto, At
    <3> QED BY <1>5, <1>6, <3>1 DEF ToVerify, SameEnd
  <2>2. CASE RawVerify
    <3>1. port \in Attachments /\ media[port.disk].fs = w.digest
      BY <2>2 DEF RawVerify, Inv, DiskTypeOK
    <3>2. port.disk \in Disks
      BY <3>1 DEF Attachments
    <3>3. w.digest # "old"
      BY <1>4, ContentAssumption, LayoutAssumption DEF Images
    <3>4. PICK a \in w.changed : a.disk = port.disk
      BY <1>1, <3>1, <3>2, <3>3 DEF DataInv, UntouchedInv
    <3>5. \A b \in w.changed : b = a
      BY DEF Inv, TargetInv, ChangedInv, ErasesReviewed
    <3> QED BY <3>1, <3>4, <3>5
  <2> QED BY <2>1, <2>2
<1>10. Kept'
  <2>1. \A a \in w.changed : a.disk \in Disks
    BY DEF Inv, Shape, Writers, Attachments
  <2> QED BY <1>4, <1>5, <1>7, <1>9, <2>1 DEF Kept
<1>11. ReadInv' /\ TargetDataInv'
  BY <1>4, <1>5, <1>6, <1>10 DEF ReadInv, TargetDataInv, Hashed, OnTarget, Images
<1>12. FailedInv' /\ DoneInv'
  BY <1>3, <1>5 DEF FailedInv, DoneInv, SameEnd
<1> QED BY <1>5, <1>6, <1>8, <1>11, <1>12, ImageStays DEF DataInv

\* It announces the completion, or reports that the medium could not be read.
LEMMA RawEndsData ==
  ASSUME Inv, DataInv, RawFinish \/ RawFailAfter
  PROVE  DataInv'
<1>1. /\ w.mode = "raw" /\ w.pc \in {"flush", "verify", "finish"} /\ w.pc \in RawOwn
      /\ w.mode # "qualify" /\ w.pc \notin ClosingStages \cup ClosedStages
  BY DEF RawFinish, RawFailAfter, At, RawOwn, ClosingStages, ClosedStages
<1>2. Reached = "settled" /\ Place = w.pc
  BY <1>1, RawStanding, RawLevels
<1>3. ~w.announced /\ w.status # "ok" /\ ~w.err
  BY <1>1, Silent DEF DataInv, FailedInv
<1>4. w.digest \in Images /\ Kept /\ w.own = w.known
  BY <1>1, <1>2, <1>3, Settled
<1>5. /\ SameImage /\ w'.changed = w.changed /\ w'.digest = w.digest /\ w'.flawed = w.flawed
      /\ w'.own = w.own /\ w'.known = w.known /\ w'.pc = "ended"
      /\ w'.announced \/ w'.status = "ok" => RawFinish
      /\ cache' = cache /\ media' = media
  BY <1>3, DataFieldsIn DEF Inv, DataFields, RawFinish, RawFailAfter, End, SameImage, disk
<1>6. w'.pc \notin Unprepared /\ w'.pc \notin {"write", "write-rest", "sync"}
      /\ w'.pc \in ClosedStages
  BY <1>5, RawStanding DEF RawOwn, ClosedStages
<1>7. UntouchedInv'
  BY <1>5, <1>6, UntouchedStays DEF SameImage
<1>8. DoneInv'
  <2>1. CASE RawFinish
    <3>1. ~ToVerify
      BY <1>2, <2>1 DEF ToVerify, RawFinish, At
    <3>2. Kept'
      BY <1>4, <1>5, <3>1 DEF Kept, SameImage
    <3> QED BY <1>4, <1>5, <1>6, <3>2 DEF DoneInv, Images
  <2>2. CASE ~RawFinish
    BY <1>5, <2>2 DEF DoneInv
  <2> QED BY <2>1, <2>2
<1> QED BY <1>5, <1>6, <1>7, <1>8, ImageStays, EndsOn

\* Every step of the raw writer.
LEMMA RawData ==
  ASSUME Inv, DataInv, RawNext
  PROVE  DataInv'
BY RawHashesData, RawReadsData, RawWritesData, RawSyncsData, RawFailsData, RawClosesData,
   RawVerifiesData, RawEndsData DEF RawNext

-----------------------------------------------------------------------------
(* The command, before a writer is named *)

\* The stages of a command that has named none.
Unnamed == Unprepared \cup {"select", "mode"}

\* The file is the same, whoever holds it.
SameFile ==
  /\ src'.ver = src.ver /\ src'.mtime = src.mtime /\ src'.ctime = src.ctime
  /\ src'.past = src.past

\* What such a command does not touch.
SameRest ==
  /\ w'.plan = w.plan /\ w'.staged = w.staged
  /\ w'.changed = w.changed
  /\ cache' = cache /\ media' = media
  /\ SameEnd

\* It has read nothing but a container, and has not failed.
LEMMA UnnamedFacts ==
  ASSUME Inv, DataInv, w.mode = "none", w.pc \in Unnamed
  PROVE  /\ Reached = "unread" /\ ~w.err /\ ~w.verify
         /\ ~w.announced /\ w.status # "ok" /\ w.staged = None /\ w.plan = None
<1>1. w.pc \notin Asking \cup ClosedStages \cup ClosingStages
  BY DEF Unnamed, Unprepared, Containers, Reading, Asking, ClosedStages, ClosingStages
<1>2. Reached = "unread"
  BY <1>1 DEF Reached, Place, Level, ClosedStages
<1> QED BY <1>1, <1>2, Unread DEF DataInv, PreparedInv

\* It reads no image but the one that is expanded.
LEMMA UnnamedOn ==
  ASSUME Inv, DataInv, w.mode = "none", w.pc \in Unnamed, w'.mode = "none", w'.pc \in Unnamed,
         SameRest, HistoryInv', PreparedInv'
  PROVE  DataInv'
<1>1. w'.pc \notin Asking \cup ClosedStages
  BY DEF Unnamed, Unprepared, Containers, Reading, Asking, ClosedStages
<1>2. Reached' = "unread"
  BY <1>1 DEF Reached, Place, Level, ClosedStages
<1>3. ~w'.err
  BY UnnamedFacts DEF SameRest, SameEnd
<1> QED BY <1>2, <1>3, UnnamedFacts, UnreadOn DEF SameRest, SameEnd, FailedInv

\* It starts, looks at the image and finds its disk.
LEMMA StartsData ==
  ASSUME Inv, DataInv,
         \/ \E front \in {"cli", "helper"}, noUnmount \in BOOLEAN : Start(front, noUnmount)
         \/ InspectSource \/ CliDiscover \/ ProbeInput \/ PreparePlain \/ InspectOpenFile
  PROVE  DataInv'
<1>1. DataFields \subseteq DOMAIN w
  BY DataFieldsIn DEF Inv
<1>2. /\ w.mode = "none" /\ w'.mode = "none"
      /\ w.pc \in {"start", "source", "discover", "prepare", "probed", "select"}
      /\ w'.pc \in {"source", "discover", "prepare", "probed", "select", "mode"}
      /\ SameRest /\ src' = src
      /\ w'.verify = w.verify /\ w'.private = w.private /\ w'.image = w.image
      /\ w.pc \in Unprepared \/ w'.pc = "mode"
      /\ w'.pin = w.pin \/ w'.pin = [mtime |-> src.mtime, ctime |-> src.ctime]
  BY <1>1, Zenon DEF DataFields, Inv, ImageInv, Start, InspectSource, CliDiscover, ProbeInput,
              PreparePlain, InspectOpenFile, Preparing, At, Pass, Goto, SameRest, SameEnd, disk,
              Unprepared
<1>3. w.pc \in Unnamed /\ w'.pc \in Unnamed
  BY <1>2 DEF Unnamed, Unprepared
<1>4. HistoryInv'
  BY <1>2 DEF DataInv, HistoryInv
<1>5. PreparedInv'
  BY <1>2 DEF DataInv, PreparedInv, Unprepared, Containers, Reading
<1> QED BY <1>2, <1>3, <1>4, <1>5, UnnamedOn

\* It holds a container and hashes it.
LEMMA ContainersData ==
  ASSUME Inv, DataInv,
         PrepareHold \/ (\E sequential \in BOOLEAN : PrepareHash(sequential)) \/ PrepareDirectory
  PROVE  DataInv'
<1>1. DataFields \subseteq DOMAIN w /\ {"ver", "mtime", "ctime", "lease", "past"} \subseteq DOMAIN src
  BY DataFieldsIn DEF Inv, SrcType
<1>2. /\ w.mode = "none" /\ w'.mode = "none"
      /\ w.pc \in {"probed", "prepare-hash", "prepare-dir"}
      /\ w'.pc \in {"prepare-hash", "prepare-dir", "prepare-read"}
      /\ SameRest /\ SameFile
      /\ w'.verify = w.verify /\ w'.private = w.private /\ w'.image = w.image /\ w'.pin = w.pin
      /\ w'.pc = "prepare-dir" => w'.held = "lease" \/ w'.digest = src.ver
      /\ w'.pc = "prepare-read" => /\ w.pc = "prepare-dir" /\ w'.held = w.held
                                   /\ w'.digest = w.digest
  <2>1. CASE PrepareHold
    <3>1. PICK held \in {"lease", "passes"} :
            /\ w' = [w EXCEPT !.pc = "prepare-hash", !.held = held]
            /\ src' = IF held = "lease" /\ ~w.private THEN [src EXCEPT !.lease = "held"] ELSE src
            /\ UNCHANGED disk
      BY <2>1 DEF PrepareHold, AcquireReadLease
    <3>2. SameFile
      BY <1>1, <3>1 DEF SameFile
    <3> QED BY <1>1, <2>1, <3>1, <3>2 DEF DataFields, PrepareHold, Preparing, At, SameRest, SameEnd, disk
  <2>2. CASE \E sequential \in BOOLEAN : PrepareHash(sequential)
    <3>1. /\ w.pc = "prepare-hash" /\ w.mode = "none" /\ UNCHANGED <<disk, src>>
          /\ \/ w.held = "lease" /\ w' = [w EXCEPT !.pc = "prepare-dir"]
             \/ w' = [w EXCEPT !.pc = "prepare-dir", !.digest = src.ver]
      BY <2>2 DEF PrepareHash, Goto, Preparing, At
    <3>2. CASE w.held = "lease" /\ w' = [w EXCEPT !.pc = "prepare-dir"]
      BY <1>1, <3>1, <3>2 DEF DataFields, SameRest, SameEnd, SameFile, disk
    <3>3. CASE w' = [w EXCEPT !.pc = "prepare-dir", !.digest = src.ver]
      BY <1>1, <3>1, <3>3 DEF DataFields, SameRest, SameEnd, SameFile, disk
    <3> QED BY <3>1, <3>2, <3>3
  <2>3. CASE PrepareDirectory
    BY <1>1, <2>3 DEF DataFields, PrepareDirectory, Preparing, At, Pass, Goto, SameRest, SameEnd,
                      SameFile, disk
  <2> QED BY <2>1, <2>2, <2>3
<1>3. w.pc \in Unnamed /\ w'.pc \in Unnamed /\ w.pc \in Unprepared
  BY <1>2 DEF Unnamed, Unprepared, Containers, Reading
<1>4. HistoryInv'
  BY <1>2 DEF DataInv, HistoryInv, SameFile
<1>5. PreparedInv'
  <2>1. ~w.private /\ ~w.verify
    BY <1>2, <1>3, UnnamedFacts DEF DataInv, PreparedInv
  <2>2. w'.pc \in Reading /\ w'.held # "lease" => Traced'
    <3>1. CASE w'.pc = "prepare-dir"
      BY <1>2, <3>1 DEF Traced, DataInv, HistoryInv, SameFile
    <3>2. CASE w'.pc = "prepare-read"
      BY <1>2, <3>2 DEF Traced, DataInv, PreparedInv, Reading, SameFile
    <3>3. "prepare-hash" \notin Reading
      BY DEF Reading
    <3> QED BY <1>2, <3>1, <3>2, <3>3
  <2> QED BY <1>2, <2>1, <2>2 DEF PreparedInv
<1> QED BY <1>2, <1>3, <1>4, <1>5, UnnamedOn

\* It expands it.
LEMMA ExpandsData ==
  ASSUME Inv, DataInv, PrepareOpen \/ Expanded
  PROVE  DataInv'
<1>1. DataFields \subseteq DOMAIN w
  BY DataFieldsIn DEF Inv
<1>2. /\ w.mode = "none" /\ w'.mode = "none"
      /\ SameRest /\ src' = src /\ w'.held = w.held /\ w'.digest = w.digest
      /\ w'.verify = w.verify /\ w'.private = w.private /\ w'.pin = w.pin
      /\ \/ w.pc = "prepare-read" /\ w'.pc = "prepare-rest" /\ w'.image = src.ver
         \/ w.pc = "prepare-rest" /\ w'.pc = "prepare-check" /\ w'.image = Mixed(w.image, src.ver)
  BY <1>1 DEF DataFields, PrepareOpen, Expanded, Preparing, At, SameRest, SameEnd, disk
<1>3. w.pc \in Unnamed /\ w'.pc \in Unnamed /\ w.pc \in Unprepared /\ w.pc \in Reading
      /\ w'.pc # "prepare-bind"
  BY <1>2 DEF Unnamed, Unprepared, Containers, Reading
<1>4. HistoryInv'
  BY <1>2 DEF DataInv, HistoryInv
<1>5. PreparedInv'
  <2>1. ~w.private /\ ~w.verify
    BY <1>2, <1>3, UnnamedFacts DEF DataInv, PreparedInv
  <2>2. (Steady' <=> Steady) /\ (Traced' <=> Traced)
    BY <1>2 DEF Steady, Traced
  <2>3. Steady => w'.image = src.ver
    BY <1>2 DEF DataInv, PreparedInv, Mixed
  <2>4. w.held # "lease" => Traced
    BY <1>3 DEF DataInv, PreparedInv
  <2> QED BY <1>2, <1>3, <2>1, <2>2, <2>3, <2>4 DEF PreparedInv
<1> QED BY <1>2, <1>3, <1>4, <1>5, UnnamedOn

\* It finds that nobody has changed the container, and binds what was expanded.
LEMMA BindsData ==
  ASSUME Inv, DataInv, PrepareCheck \/ PrepareBind
  PROVE  DataInv'
<1>1. DataFields \subseteq DOMAIN w /\ {"ver", "mtime", "ctime", "lease", "past"} \subseteq DOMAIN src
  BY DataFieldsIn DEF Inv, SrcType
<1>2. w.mode = "none" /\ w.pc \in {"prepare-check", "prepare-bind"} /\ w.pc \in Unprepared
      /\ w.pc \in Unnamed
  BY DEF PrepareCheck, PrepareBind, Preparing, At, Unprepared, Containers, Reading, Unnamed
<1>3. ~w.private /\ ~w.verify
  BY <1>2, UnnamedFacts DEF DataInv, PreparedInv
<1>4. w.image \in Versions
  <2>1. CASE PrepareCheck
    <3>1. Steady /\ w.pc = "prepare-check"
      BY <1>3, <2>1 DEF PrepareCheck, Preparing, At, Steady, VerifyPinned, LeaseIntact
    <3> QED BY <1>2, <2>1, <3>1 DEF DataInv, PreparedInv, Inv, SrcType, PrepareCheck, Preparing, At
  <2>2. CASE PrepareBind
    BY <2>2 DEF PrepareBind, Preparing, At, DataInv, PreparedInv
  <2> QED BY <2>1, <2>2
<1>5. /\ w'.mode = "none" /\ SameRest /\ SameFile /\ w'.verify = w.verify /\ w'.image = w.image
      /\ w'.pin = w.pin
      /\ \/ w'.pc = "prepare-bind" /\ w'.private = w.private
         \/ w'.pc = "select"
  <2>1. CASE PrepareCheck
    BY <1>1, <1>2, <2>1 DEF DataFields, PrepareCheck, Goto, SameRest, SameEnd, SameFile, disk
  <2>2. CASE PrepareBind
    <3>1. SameFile
      BY <1>1, <2>2 DEF PrepareBind, Released, SameFile
    <3> QED BY <1>1, <1>2, <2>2, <3>1 DEF DataFields, PrepareBind, SameRest, SameEnd, disk
  <2> QED BY <2>1, <2>2
<1>6. w'.pc \in Unnamed /\ w'.pc \notin Reading /\ (w'.pc = "select" => w'.pc \notin Unprepared)
  BY <1>5 DEF Unnamed, Unprepared, Containers, Reading
<1>7. HistoryInv'
  BY <1>5 DEF DataInv, HistoryInv, SameFile
<1>8. PreparedInv'
  <2>1. w'.pc \notin {"prepare-rest", "prepare-check"}
    BY <1>5
  <2> QED BY <1>3, <1>4, <1>5, <1>6, <2>1 DEF PreparedInv
<1> QED BY <1>2, <1>5, <1>6, <1>7, <1>8, UnnamedOn

-----------------------------------------------------------------------------
(* The command, once a writer is named *)

\* Its stages up to the writer's first step.
Named4 == {"options", "confirm", "revalidate", "unmount", "open"}

\* The levels of these stages.
LEMMA NamedLevels ==
  ASSUME NEW m \in Kinds, NEW s \in Named4
  PROVE  /\ m \notin {"qualify", "freedos"} => Level(m, s) = "unread"
         /\ s \notin Asking \cup Unprepared \cup ClosingStages \cup ClosedStages
<1>1. s \notin Asking \cup Unprepared \cup ClosingStages \cup ClosedStages /\ s # "ended"
  BY DEF Named4, Asking, Unprepared, Containers, Reading, ClosingStages, ClosedStages
<1>2. s \notin SettledStages(m) \cup FlushedStages(m) \cup CopiedStages(m) \cup FormattedStages(m)
                \cup TabledStages
  BY DEF Named4, SettledStages, FlushedStages, CopiedStages, FormattedStages, TabledStages
<1>3. m \notin {"qualify", "freedos"} => s \in UnreadStages(m)
  BY DEF Named4, UnreadStages
<1>4. s # "write-rest"
  BY DEF Named4
<1> QED BY <1>1, <1>2, <1>3, <1>4 DEF Level

\* A writer is named.
LEMMA NamesData ==
  ASSUME Inv, DataInv, NEW m \in Kinds \ {"none", "qualify", "freedos"},
         \/ HelperDiscover(m)
         \/ SelectWriteMode(m, FALSE)
         \/ m \in {"raw", "windows"} /\ \E verify \in BOOLEAN : SelectWriteMode(m, verify)
  PROVE  DataInv'
<1>1. DataFields \subseteq DOMAIN w
  BY DataFieldsIn DEF Inv
<1>2. /\ w.mode = "none" /\ w.pc \in {"discover", "mode"} /\ w'.mode = m
      /\ w'.pc \in {"options", "revalidate"}
      /\ SameRest /\ src' = src
      /\ w'.private = w.private /\ w'.image = w.image /\ w'.pin = w.pin
      /\ w'.verify \in {w.verify, FALSE} \/ m \in {"raw", "windows"}
  BY <1>1, Zenon DEF DataFields, HelperDiscover, SelectWriteMode, At, SameRest, SameEnd, disk
<1>3. w.pc \in Unnamed /\ w'.pc \in Named4
  BY <1>2 DEF Unnamed, Unprepared, Named4
<1>4. Reached' = "unread" /\ w'.pc \notin Unprepared
  BY <1>2, <1>3, NamedLevels DEF Reached, Place
<1>5. HistoryInv'
  BY <1>2 DEF DataInv, HistoryInv
<1>6. PreparedInv'
  <2>1. ~w.verify
    BY <1>2, <1>3, UnnamedFacts
  <2> QED BY <1>2, <1>4, <2>1 DEF DataInv, PreparedInv, Unprepared, Containers, Reading
<1>7. ~w'.err
  BY <1>2, <1>3, UnnamedFacts DEF SameRest, SameEnd
<1> QED BY <1>2, <1>3, <1>4, <1>5, <1>6, <1>7, UnnamedFacts, UnreadOn DEF SameRest, SameEnd, FailedInv

\* The user confirms, and the target is found and its mounts are taken down.
LEMMA ConfirmsData ==
  ASSUME Inv, DataInv,
         ValidateOptions \/ ConfirmDestructive \/ RevalidateSelected \/ UnmountSelected
  PROVE  DataInv'
<1>1. /\ Looks /\ w'.pc \in {"confirm", "revalidate", "unmount", "open"} /\ w'.pc \in Named4
      /\ w.pc \in {"options", "confirm", "revalidate", "unmount"} /\ w.pc \in Named4
      /\ w.pc = "options" => w'.pc = "confirm"
  BY DataFieldsIn
     DEF Inv, DataFields, ValidateOptions, ConfirmDestructive, RevalidateSelected, UnmountSelected,
         Pass, Goto, Looks, Keeps, Reads, SameImage, SameEnd, disk, Named4
<1>2. w.mode \in Kinds /\ w'.mode = w.mode
  BY <1>1 DEF Inv, Shape, Writers, Looks, Keeps, Reads, SameImage
<1>3. w.pc \notin Asking \cup Unprepared \cup ClosingStages \cup ClosedStages
      /\ w'.pc \notin Asking \cup Unprepared \cup ClosingStages \cup ClosedStages
  BY <1>1, <1>2, NamedLevels
<1>4. Place = w.pc /\ Place' = w'.pc
  BY <1>3 DEF Place
<1>5. HistoryInv' /\ PreparedInv'
  BY <1>1, <1>3, ImageStays DEF Looks, Keeps, Reads
<1>6. CASE w.mode = "qualify"
  <2>1. ~w.err
    BY <1>3, <1>6 DEF DataInv, FailedInv
  <2> QED BY <1>1, <1>2, <1>5, <1>6, <2>1, QualifyOn DEF Looks, Keeps, Reads, SameEnd
<1>7. CASE w.mode = "freedos"
  <2>1. Reached' = "read"
    BY <1>1, <1>2, <1>3, <1>7, FreeLevels, FreeStanding DEF FreeRead
  <2>2. Reached = "read"
    <3>1. Level("freedos", "options") = "read"
      BY DEF Level, SettledStages, FlushedStages, CopiedStages, FormattedStages, TabledStages,
             UnreadStages, ClosingStages, ClosedStages
    <3> QED BY <1>1, <1>3, <1>7, <3>1, FreeLevels, FreeStanding DEF FreeRead
  <2> QED BY <1>1, <1>3, <1>7, <2>1, <2>2, ReadOn DEF Looks, Keeps, Makers
<1>8. CASE w.mode \notin {"qualify", "freedos"}
  <2>1. Reached = "unread" /\ Reached' = "unread"
    BY <1>1, <1>2, <1>4, <1>8, NamedLevels DEF Reached
  <2>2. ~w'.err /\ w.staged = None /\ w.plan = None
    <3>1. w.pc \notin Letting
      BY <1>1 DEF Named4, Letting
    <3> QED BY <1>1, <1>3, <2>1, <3>1, Unread DEF Looks, Keeps, Reads, SameEnd
  <2> QED BY <1>1, <1>2, <1>5, <2>1, <2>2, Unread, UnreadOn DEF Looks, Keeps, Reads, SameEnd, FailedInv
<1> QED BY <1>6, <1>7, <1>8

-----------------------------------------------------------------------------
(* The look at the target, and the end of the command *)

\* A look at the target returns to the stage that asked for it.
LEMMA AsksData ==
  ASSUME Inv, DataInv, TargetCheck \/ TargetCheckUnmount \/ TargetCheckMounts
  PROVE  DataInv'
<1>1. DataFields \subseteq DOMAIN w
  BY DataFieldsIn DEF Inv
<1>2. /\ Looks /\ w.pc \in Asking
      /\ (w'.pc \in Asking /\ w'.ret = w.ret) \/ w'.pc = w.ret
  BY <1>1, Zenon DEF DataFields, TargetCheck, TargetCheckUnmount, TargetCheckMounts, Asking, Looks, Keeps,
              Reads, SameImage, SameEnd, disk
<1>3. w.ret \in Answers
  BY <1>2 DEF Inv, TargetInv, PhaseInv
<1>4. w.ret \notin Asking /\ w'.pc \notin Unprepared \cup {"write", "write-rest", "sync"}
      /\ w.pc \notin ClosingStages \cup ClosedStages \cup Letting
  BY <1>2, <1>3 DEF Answers, Asking, Unprepared, Containers, Reading, ClosingStages, ClosedStages,
                    Letting
<1>5. w'.mode = w.mode
  BY <1>2 DEF Looks, Keeps, Reads, SameImage
<1>6. Place' = Place /\ Reached' = Reached
  BY <1>2, <1>4, <1>5 DEF Place, Reached
<1>7. HistoryInv' /\ PreparedInv'
  BY <1>2, <1>4, ImageStays DEF Looks, Keeps, Reads
<1>8. CASE w.mode = "qualify"
  <2>1. ~w'.err
    BY <1>2, <1>4, <1>8 DEF DataInv, FailedInv, Looks, Keeps, Reads, SameEnd
  <2> QED BY <1>5, <1>7, <1>8, <2>1, QualifyOn
<1>9. CASE w.mode # "qualify"
  <2>1. UntouchedInv'
    BY <1>2, <1>4, <1>5, UntouchedStays DEF Looks
  <2>2. DoneInv' /\ FailedInv'
    BY <1>2, <1>4, <1>5, <1>9, Silent
       DEF DataInv, DoneInv, FailedInv, Looks, Keeps, Reads, SameEnd
  <2>3. /\ Steady' <=> Steady
        /\ Bytes' = Bytes /\ (Traced' <=> Traced) /\ Held' = Held
        /\ ToVerify' <=> ToVerify
    BY <1>2, <1>6 DEF Steady, Bytes, Traced, Held, ToVerify, Looks, Keeps, Reads, SameImage, SameEnd
  <2>4. ReadInv => ReadInv'
    BY <1>2, <1>4, <1>6, <2>3 DEF ReadInv, Images, Looks, Keeps, Reads, SameImage
  <2>5. Kept => Kept'
    BY <1>2, <2>3 DEF Kept, Looks, Keeps, Reads, SameImage
  <2>6. TargetDataInv => TargetDataInv'
    BY <1>2, <1>6, <2>3, <2>5 DEF TargetDataInv, Looks, Keeps, Reads, SameImage
  <2>7. w'.err = w.err
    BY <1>2 DEF Looks, Keeps, Reads, SameEnd
  <2> QED BY <1>7, <2>1, <2>2, <2>4, <2>6, <2>7 DEF DataInv
<1> QED BY <1>8, <1>9

\* A refused look is an error.
LEMMA AnswersFailData ==
  ASSUME Inv, DataInv, TargetCheckFails
  PROVE  DataInv'
<1>1. DataFields \subseteq DOMAIN w
  BY DataFieldsIn DEF Inv
<1>2. /\ Fails /\ w.pc \in Asking /\ w'.pc = "undo"
      /\ w'.changed = w.changed /\ cache' = cache /\ media' = media
  BY <1>1 DEF DataFields, TargetCheckFails, Asking, Fails, SameImage, disk
<1>3. w.pc \notin ClosingStages \cup ClosedStages /\ w'.pc \in ClosingStages
      /\ w'.pc \notin Unprepared \cup {"write", "write-rest", "sync"}
  BY <1>2 DEF Asking, ClosingStages, ClosedStages, Unprepared, Containers, Reading
<1>4. w'.mode = w.mode
  BY <1>2 DEF Fails, SameImage
<1>5. UntouchedInv'
  BY <1>2, <1>3, <1>4, UntouchedStays
<1>6. HistoryInv' /\ PreparedInv'
  BY <1>2, <1>3, ImageStays DEF Fails
<1> QED BY <1>2, <1>3, <1>4, <1>5, <1>6, FailsOn, QualifyOn

\* The command ends before the writer has run.
LEMMA RefusesData ==
  ASSUME Inv, DataInv, DryRun \/ Refuse
  PROVE  DataInv'
<1>1. DataFields \subseteq DOMAIN w /\ {"ver", "mtime", "ctime", "lease", "past"} \subseteq DOMAIN src
  BY DataFieldsIn DEF Inv, SrcType
<1>2. SameFile
  <2>1. CASE DryRun
    BY <2>1 DEF DryRun, End, SameFile
  <2>2. CASE Refuse
    BY <1>1, <2>2 DEF Refuse, Released, SameFile
  <2> QED BY <2>1, <2>2
<1>3. /\ w.pc \in Unnamed \cup Named4
      /\ w'.pc = "ended" /\ w'.status \in {"planned", "refused"}
      /\ w'.mode = w.mode /\ w'.verify = w.verify /\ w'.pin = w.pin
      /\ w'.private = w.private /\ w'.image = w.image
      /\ w'.announced = w.announced /\ w'.changed = w.changed /\ cache' = cache /\ media' = media
  <2>1. CASE DryRun
    BY <1>1, <2>1 DEF DataFields, DryRun, End, Named4, disk
  <2>2. CASE Refuse
    BY <1>1, <2>2 DEF DataFields, Refuse, Unnamed, Unprepared, Containers, Reading, Named4, disk
  <2> QED BY <2>1, <2>2
<1>4. w.pc \notin ClosingStages \cup ClosedStages
  BY <1>3 DEF Unnamed, Unprepared, Containers, Reading, Named4, ClosingStages, ClosedStages
<1>5. w'.pc \notin Unprepared \cup Reading \cup {"prepare-bind", "write", "write-rest", "sync"}
  BY <1>3 DEF Unprepared, Containers, Reading
<1>6. HistoryInv'
  BY <1>2, <1>3 DEF DataInv, HistoryInv, SameFile
<1>7. PreparedInv'
  BY <1>3, <1>5 DEF DataInv, PreparedInv, Reading
<1>8. UntouchedInv'
  BY <1>3, <1>5, UntouchedStays
<1>9. DoneInv'
  BY <1>3, <1>4, Silent DEF DoneInv
<1> QED BY <1>3, <1>6, <1>7, <1>8, <1>9, EndsOn

\* It returns what the writer did.
LEMMA ReturnsData ==
  ASSUME Inv, DataInv, Return
  PROVE  DataInv'
<1>1. DataFields \subseteq DOMAIN w
  BY DataFieldsIn DEF Inv
<1>2. /\ w.pc = "returned" /\ w'.pc = "ended" /\ SameImage /\ w'.digest = w.digest
      /\ w'.changed = w.changed /\ w'.flawed = w.flawed /\ cache' = cache /\ media' = media
      /\ w'.err = w.err /\ w'.own = w.own /\ w'.known = w.known
      /\ \/ w'.announced = w.announced /\ w'.status = "failed"
         \/ w.mode # "raw" /\ ~w.err
  BY <1>1 DEF DataFields, Return, End, SameImage, disk
<1>3. /\ w.pc \notin Asking /\ w.pc \in ClosedStages
      /\ w'.pc \notin Asking \cup Unprepared \cup {"write", "write-rest", "sync"}
      /\ w'.pc \in ClosedStages
  BY <1>2 DEF Asking, ClosedStages, Unprepared, Containers, Reading
<1>4. w'.mode = w.mode
  BY <1>2 DEF SameImage
<1>5. HistoryInv' /\ PreparedInv'
  BY <1>2, <1>3, ImageStays
<1>6. UntouchedInv'
  BY <1>2, <1>3, <1>4, UntouchedStays
<1>7. CASE w.mode = "qualify"
  BY <1>3, <1>4, <1>5, <1>7, QualifyOn
<1>8. CASE w.mode = "raw"
  <2>1. ~w.announced
    BY <1>2, <1>8 DEF Inv, CleanInv, Early
  <2>2. DoneInv'
    BY <1>2, <1>8, <2>1 DEF DoneInv
  <2> QED BY <1>2, <1>5, <1>6, <2>2, EndsOn
<1>9. CASE w.mode \notin {"qualify", "raw"}
  <2>1. Reached = "settled"
    BY <1>2, <1>3, <1>9 DEF Reached, Place, Level
  <2>2. Reached' = "free"
    BY <1>2, <1>3 DEF Reached, Place, Level
  <2>3. Settles
    BY <1>2 DEF Settles
  <2>4. ~ToVerify
    BY <1>9 DEF ToVerify
  <2> QED BY <1>3, <1>6, <1>9, <2>1, <2>2, <2>3, <2>4, SettlesOn
<1> QED BY <1>7, <1>8, <1>9

\* Every step of the command.
LEMMA CommandData ==
  ASSUME Inv, DataInv, CommandNext
  PROVE  DataInv'
<1>1. CASE \E m \in {"linux-persistent", "extracted"} : HelperDiscover(m)
  BY <1>1, NamesData DEF Kinds, Modes
<1>2. CASE \E m \in {"raw", "windows"}, verify \in BOOLEAN : SelectWriteMode(m, verify)
  BY <1>2, NamesData DEF Kinds, Modes
<1>3. CASE \E m \in {"windows-to-go", "linux-persistent"} : SelectWriteMode(m, FALSE)
  BY <1>3, NamesData DEF Kinds, Modes
<1>4. CASE PrepareOpen \/ PrepareStream \/ PrepareZIP \/ PrepareExternalDecompress
           \/ PrepareVirtualDisk
  BY <1>4, ExpandsData DEF PrepareStream, PrepareZIP, PrepareExternalDecompress, PrepareVirtualDisk
<1> QED BY <1>1, <1>2, <1>3, <1>4, StartsData, ContainersData, BindsData, ConfirmsData, AsksData,
           AnswersFailData, RefusesData, ReturnsData
        DEF CommandNext

-----------------------------------------------------------------------------
(* The choice of a filesystem *)

\* The stages of the choice.
InChoice == {"open", "select-mount", "select-inspect"} \cup Letting

\* What has been read for it is forgotten.
LEMMA ChoosingFacts ==
  ASSUME Inv, DataInv, w.mode = "extracted", w.pc \in InChoice
  PROVE  /\ ~w.announced /\ w.status # "ok" /\ ~w.verify
         /\ w.err => w.pc \in Letting
         /\ ~w.err => w.staged = None /\ (w.plan = None \/ w.pc \in Letting)
<1>1. w.pc \notin Asking \cup ClosedStages
  BY DEF InChoice, Letting, Asking, ClosedStages
<1>2. Reached = "unread"
  BY <1>1 DEF Reached, Place, Level, ClosedStages
<1>3. w.pc \in ClosingStages => w.pc \in Letting
  BY DEF InChoice, Letting, ClosingStages
<1> QED BY <1>2, <1>3, Unread DEF DataInv, PreparedInv

\* A step of it.
ChoiceStep ==
  /\ w'.mode = "extracted" /\ w'.pc \in InChoice
  /\ w.pc \in Letting => w'.pc \in Letting
  /\ w'.verify = w.verify /\ w'.pin = w.pin /\ w'.private = w.private /\ w'.image = w.image
  /\ w'.staged = w.staged /\ (w'.plan = w.plan \/ w'.pc \in Letting)
  /\ w'.err = w.err \/ (w'.err /\ w'.pc \in Letting)
  /\ w'.announced = w.announced /\ w'.status = w.status
  /\ w'.changed = w.changed /\ cache' = cache /\ media' = media
  /\ SameFile

\* Such a step keeps what is known.
LEMMA ChoosesOn ==
  ASSUME Inv, DataInv, w.mode = "extracted", w.pc \in InChoice, ChoiceStep
  PROVE  DataInv'
<1>1. w'.pc \notin Asking \cup ClosedStages \cup Unprepared
  BY DEF ChoiceStep, InChoice, Letting, Asking, ClosedStages, Unprepared, Containers, Reading
<1>2. Reached' = "unread"
  BY <1>1 DEF ChoiceStep, Reached, Place, Level, ClosedStages
<1>3. HistoryInv'
  BY DEF DataInv, HistoryInv, ChoiceStep, SameFile
<1>4. PreparedInv'
  BY <1>1, ChoosingFacts DEF DataInv, PreparedInv, ChoiceStep, Unprepared, Containers, Reading
<1>5. FailedInv'
  BY ChoosingFacts DEF FailedInv, ChoiceStep
<1> QED BY <1>2, <1>3, <1>4, <1>5, ChoosingFacts, UnreadOn DEF ChoiceStep

\* The image is held, looked at and let go again.
LEMMA SelectsData ==
  ASSUME Inv, DataInv,
         \/ SelectHold \/ SelectMount \/ ResolveExtractedFilesystem \/ SelectFail
         \/ SelectUmount \/ SelectRemove
  PROVE  DataInv'
<1>1. DataFields \subseteq DOMAIN w /\ {"ver", "mtime", "ctime", "lease", "past"} \subseteq DOMAIN src
  BY DataFieldsIn DEF Inv, SrcType
<1>2. w.mode = "extracted" /\ w.pc \in InChoice
  BY DEF SelectHold, SelectMount, ResolveExtractedFilesystem, SelectFail, SelectUmount,
         SelectRemove, Dispatch, At, Fail, FailTo, InChoice, Letting
<1>3. CASE SelectHold
  <2>1. PICK held \in {"lease", "passes"} :
          /\ w' = [w EXCEPT !.pc = "select-mount", !.held = held]
          /\ src' = IF held = "lease" /\ ~w.private THEN [src EXCEPT !.lease = "held"] ELSE src
          /\ UNCHANGED disk
    BY <1>3 DEF SelectHold, AcquireReadLease
  <2>2. SameFile /\ w.pc \notin Letting
    BY <1>1, <1>3, <2>1 DEF SameFile, SelectHold, Dispatch, At, Letting
  <2>3. ChoiceStep
    BY <1>1, <1>2, <2>1, <2>2 DEF DataFields, ChoiceStep, InChoice, disk
  <2> QED BY <1>2, <2>3, ChoosesOn
<1>4. CASE SelectMount
  <2>1. w.pc \notin Letting /\ ((w'.pc = "select-inspect" /\ Looks) \/ (w'.pc = "undo" /\ Fails))
    BY <1>4, FailingSteps DEF Inv, SelectMount, Dispatch, At, Letting
  <2>2. /\ w'.staged = w.staged /\ w'.plan = w.plan /\ w'.changed = w.changed
        /\ cache' = cache /\ media' = media
    BY <1>1, <1>4 DEF DataFields, SelectMount, MountOwn, MountUndo, disk
  <2>3. ChoiceStep
    BY <1>2, <2>1, <2>2
       DEF ChoiceStep, InChoice, Letting, Looks, Keeps, Reads, Fails, SameImage, SameEnd, SameFile
  <2> QED BY <1>2, <2>3, ChoosesOn
<1>5. CASE ResolveExtractedFilesystem
  <2>1. ChoiceStep
    BY <1>1, <1>2, <1>5
       DEF DataFields, ResolveExtractedFilesystem, Observe, Dispatch, At, ChoiceStep, InChoice,
           Letting, SameFile, disk
  <2> QED BY <1>2, <2>1, ChoosesOn
<1>6. CASE SelectFail
  <2>1. ChoiceStep
    BY <1>1, <1>2, <1>6
       DEF DataFields, SelectFail, Fail, FailTo, ChoiceStep, InChoice, Letting, SameFile, disk
  <2> QED BY <1>2, <2>1, ChoosesOn
<1>7. CASE SelectUmount
  <2>1. w.pc \in Letting /\ w'.pc = "select-remove" /\ Lets
    BY <1>7, ClosingSteps DEF Inv, SelectUmount, Dispatch, At, Letting
  <2>2. w'.staged = w.staged /\ cache' = cache
    BY <1>1, <1>7 DEF DataFields, SelectUmount, CleanMount, Goto, disk
  <2>3. ChoiceStep
    BY <1>2, <2>1, <2>2 DEF ChoiceStep, InChoice, Letting, Lets, SameFile
  <2> QED BY <1>2, <2>3, ChoosesOn
<1>8. CASE SelectRemove
  <2>1. w.err \in BOOLEAN
    BY DEF Inv, Shape, Writers
  <2>2. ChoiceStep
    BY <1>1, <1>2, <1>8, <2>1
       DEF DataFields, SelectRemove, Dispatch, At, ChoiceStep, InChoice, Letting, SameFile, disk
  <2> QED BY <1>2, <2>2, ChoosesOn
<1> QED BY <1>3, <1>4, <1>5, <1>6, <1>7, <1>8

\* The writer starts, with nothing read.
LEMMA SelectedData ==
  ASSUME Inv, DataInv, NEW m \in Chosen, RequestFilesystem(m) \/ SelectDone(m)
  PROVE  DataInv'
<1>1. DataFields \subseteq DOMAIN w /\ {"ver", "mtime", "ctime", "lease", "past"} \subseteq DOMAIN src
  BY DataFieldsIn DEF Inv, SrcType
<1>2. w.mode = "extracted" /\ w.pc \in InChoice
  BY DEF RequestFilesystem, SelectDone, Dispatch, At, InChoice, Letting
<1>3. /\ ~w.announced /\ w.status # "ok" /\ ~w.verify
      /\ w.err => w.pc \in Letting
      /\ ~w.err => w.staged = None /\ (w.plan = None \/ w.pc \in Letting)
  BY <1>2, ChoosingFacts
<1>4. SameFile
  <2>1. CASE RequestFilesystem(m)
    BY <2>1 DEF RequestFilesystem, SameFile
  <2>2. CASE SelectDone(m)
    BY <1>1, <2>2 DEF SelectDone, Released, SameFile
  <2> QED BY <2>1, <2>2
<1>5. /\ w'.verify = w.verify /\ w'.pin = w.pin /\ w'.private = w.private /\ w'.image = w.image
      /\ w'.announced = w.announced /\ w'.status = w.status
      /\ w'.changed = w.changed /\ cache' = cache /\ media' = media
      /\ \/ w'.mode = m /\ w'.pc = "open" /\ ~w'.err /\ w'.staged = None /\ w'.plan = None
         \/ w'.mode = "extracted" /\ w'.pc = "returned" /\ w'.err
  <2>1. CASE RequestFilesystem(m)
    <3>1. w.pc \notin Letting /\ w.pc = "open"
      BY <2>1 DEF RequestFilesystem, Dispatch, At, Letting
    <3> QED BY <1>1, <1>3, <2>1, <3>1 DEF DataFields, RequestFilesystem, disk
  <2>2. CASE SelectDone(m)
    BY <1>1, <1>2, <1>3, <2>2 DEF DataFields, SelectDone, disk
  <2> QED BY <2>1, <2>2
<1>6. HistoryInv'
  BY <1>4, <1>5 DEF DataInv, HistoryInv, SameFile
<1>7. PreparedInv'
  BY <1>3, <1>5 DEF DataInv, PreparedInv, Unprepared, Containers, Reading
<1>8. CASE w'.mode = m /\ w'.pc = "open" /\ ~w'.err /\ w'.staged = None /\ w'.plan = None
  <2>1. Reached' = "unread"
    BY <1>8, ChosenBuilders, BuilderLevels DEF Reached, Place, Asking
  <2>2. m \notin {"none", "raw"}
    BY DEF Chosen
  <2> QED BY <1>3, <1>5, <1>6, <1>7, <1>8, <2>1, <2>2, UnreadOn DEF FailedInv
<1>9. CASE w'.mode = "extracted" /\ w'.pc = "returned" /\ w'.err
  BY <1>3, <1>5, <1>6, <1>7, <1>9 DEF DataInv, FailedInv, ClosedStages, UntouchedInv, DoneInv
<1> QED BY <1>5, <1>8, <1>9

\* Every step of the writers of files.
LEMMA ExtractedData ==
  ASSUME Inv, DataInv, ExtractedNext
  PROVE  DataInv'
BY SelectsData, SelectedData, ManifestData, FatData, NtfsData, IsoFailsData
   DEF ExtractedNext, SelectionNext

-----------------------------------------------------------------------------
(* The test of a drive *)

\* It starts.
LEMMA QualifyStartsData ==
  ASSUME Inv, DataInv,
         \E profile \in {"quick", "full"}, noUnmount \in BOOLEAN : QualifyStart(profile, noUnmount)
  PROVE  DataInv'
<1>1. DataFields \subseteq DOMAIN w
  BY DataFieldsIn DEF Inv
<1>2. /\ w.pc = "start" /\ w'.mode = "qualify" /\ w'.pc = "discover" /\ w'.err = w.err
      /\ w'.verify = w.verify /\ w'.pin = w.pin /\ w'.private = w.private /\ w'.image = w.image
      /\ src' = src
  BY <1>1 DEF DataFields, QualifyStart
<1>3. w.mode = "none" /\ ~w.private /\ ~w.err
  <2>1. w.mode = "none"
    BY <1>2 DEF Inv, ImageInv
  <2>2. w.pc \in Unprepared /\ w.pc \in Unnamed
    BY <1>2 DEF Unprepared, Unnamed
  <2> QED BY <2>1, <2>2, UnnamedFacts DEF DataInv, PreparedInv
<1>4. HistoryInv'
  BY <1>2 DEF DataInv, HistoryInv
<1>5. PreparedInv'
  BY <1>2, <1>3 DEF PreparedInv, Unprepared, Containers, Reading
<1> QED BY <1>2, <1>3, <1>4, <1>5, QualifyOn

\* A step of it.
Examines ==
  /\ w.mode = "qualify" /\ SameImage
  /\ w'.pc \notin Unprepared
  /\ \/ w'.err = w.err /\ w.pc \notin ClosingStages \cup ClosedStages
     \/ w'.pc \in ClosingStages \cup ClosedStages

\* Such a step keeps what is known.
LEMMA ExaminesOn ==
  ASSUME DataInv, Examines
  PROVE  DataInv'
<1>1. w'.mode = "qualify"
  BY DEF Examines, SameImage
<1>2. w'.err => w'.pc \in ClosingStages \cup ClosedStages
  BY DEF Examines, DataInv, FailedInv
<1> QED BY <1>1, <1>2, ImageStays, QualifyOn DEF Examines

\* It goes on and reports.
LEMMA QualifiesData ==
  ASSUME Inv, DataInv,
         \/ QualifyDiscover \/ QualifyOpen \/ BeforeWrite \/ QualifyRun \/ WriteRegion
         \/ SyncRegions \/ VerifyRegion \/ Mismatch \/ QualifyFinalCheck \/ QualifyRefuse
         \/ (\E verdict \in {"failed", "cancelled"} : QualifyFail(verdict))
         \/ QualifyFinalFails \/ QualifyClose \/ FinishDeviceRun
  PROVE  DataInv'
<1>1. DataFields \subseteq DOMAIN w
  BY DataFieldsIn DEF Inv
<1>2. /\ \A s \in Asking \cup {"confirm", "before", "write", "sync", "verify", "final"} :
           s \notin Unprepared
      /\ \A s \in {"discover", "open", "before", "ready", "write", "sync", "verify", "final"} :
           s \notin ClosingStages \cup ClosedStages
      /\ \A s \in {"undo", "report", "returned"} :
           s \in ClosingStages \cup ClosedStages /\ s \notin Unprepared
  BY DEF Asking, Unprepared, Containers, Reading, ClosingStages, ClosedStages
<1>3. CASE QualifyDiscover \/ QualifyOpen \/ BeforeWrite \/ QualifyFinalCheck
  <2>1. CASE QualifyDiscover
    <3>1. /\ w.mode = "qualify" /\ w.pc = "discover" /\ w'.pc = "confirm"
          /\ w'.err = w.err /\ SameImage
      BY <1>1, <2>1 DEF DataFields, QualifyDiscover, Qual, At, SameImage
    <3> QED BY <1>2, <3>1, ExaminesOn DEF Examines
  <2>2. CASE QualifyOpen \/ BeforeWrite \/ QualifyFinalCheck
    <3>1. /\ w.mode = "qualify" /\ w.pc \in {"open", "before", "final"} /\ Keeps
          /\ w'.pc \in Asking \cup {"before", "undo"}
      BY <2>2, LookingSteps, MarkingSteps, Zenon
         DEF Inv, QualifyOpen, BeforeWrite, QualifyFinalCheck, Qual, At, Looks
    <3> QED BY <1>2, <3>1, ExaminesOn DEF Examines, Keeps, Reads, SameEnd
  <2> QED BY <1>3, <2>1, <2>2
<1>4. CASE QualifyRun
  <2>1. PICK test : w' = [w EXCEPT !.pc = "write", !.test = test]
    BY <1>4, Zenon DEF QualifyRun
  <2>2. w.mode = "qualify" /\ w.pc = "ready" /\ w'.pc = "write" /\ w'.err = w.err /\ SameImage
    BY <1>1, <1>4, <2>1, Zenon DEF DataFields, QualifyRun, Qual, At, SameImage
  <2> QED BY <1>2, <2>2, ExaminesOn DEF Examines
<1>5. CASE WriteRegion
  <2> DEFINE a == Lowest(w.test.left)
             cached == [b \in DOMAIN w.test.cached \cup {a} |->
                          IF b = a THEN Pattern(a) ELSE w.test.cached[b]]
             left == w.test.left \ {a}
             stage == IF left = {} THEN "sync" ELSE "write"
  <2>1. /\ w' = [w EXCEPT !.pc = stage, !.changed = @ \cup {w.fd}, !.test.cached = cached,
                          !.test.left = left]
        /\ stage \in {"sync", "write"}
    BY <1>5 DEF WriteRegion
  <2> HIDE DEF cached, left, stage
  <2>2. w.mode = "qualify" /\ w.pc = "write" /\ w'.pc \in {"sync", "write"} /\ w'.err = w.err
        /\ SameImage
    BY <1>1, <1>5, <2>1 DEF DataFields, WriteRegion, Qual, At, SameImage
  <2> QED BY <1>2, <2>2, ExaminesOn DEF Examines
<1>6. CASE SyncRegions
  <2> DEFINE left == RegionIndices(w.test.profile)
             cached == [a \in {} |-> None]
  <2>1. PICK cells \in WrittenBack(w.test) :
          w' = [w EXCEPT !.pc = "verify", !.test.left = left, !.test.cells = cells,
                         !.test.cached = cached]
    BY <1>6, Zenon DEF SyncRegions
  <2> HIDE DEF left, cached
  <2>2. w.mode = "qualify" /\ w.pc = "sync" /\ w'.pc = "verify" /\ w'.err = w.err /\ SameImage
    BY <1>1, <1>6, <2>1, Zenon DEF DataFields, SyncRegions, Qual, At, SameImage
  <2> QED BY <1>2, <2>2, ExaminesOn DEF Examines
<1>7. CASE VerifyRegion
  <2> DEFINE left == w.test.left \ {Verifying}
             next == w.test.pass + 1
             all == RegionIndices(w.test.profile)
             none == {}
  <2>1. /\ w.mode = "qualify" /\ w.pc = "verify" /\ UNCHANGED src
        /\ \/ w' = [w EXCEPT !.test.left = left]
           \/ w' = [w EXCEPT !.pc = "write", !.test.pass = next, !.test.left = all]
           \/ w' = [w EXCEPT !.pc = "final", !.test.left = none]
    BY <1>1, <1>7 DEF VerifyRegion, Qual, At, DataFields
  <2> HIDE DEF left, next, all, none
  <2>2. w'.pc \in {"verify", "write", "final"} /\ w'.err = w.err /\ SameImage
    <3>1. CASE w' = [w EXCEPT !.test.left = left]
      BY <1>1, <2>1, <3>1 DEF DataFields, SameImage
    <3>2. CASE w' = [w EXCEPT !.pc = "write", !.test.pass = next, !.test.left = all]
      BY <1>1, <2>1, <3>2 DEF DataFields, SameImage
    <3>3. CASE w' = [w EXCEPT !.pc = "final", !.test.left = none]
      BY <1>1, <2>1, <3>3 DEF DataFields, SameImage
    <3> QED BY <2>1, <3>1, <3>2, <3>3
  <2> QED BY <1>2, <2>1, <2>2, ExaminesOn DEF Examines
<1>8. ASSUME NEW verdict, w.mode = "qualify", UNCHANGED <<disk, src>>,
             w' = [w EXCEPT !.pc = "undo", !.err = TRUE, !.test.verdict = verdict]
      PROVE  DataInv'
  <2>1. w'.pc = "undo" /\ SameImage
    BY <1>1, <1>8 DEF DataFields, SameImage
  <2> QED BY <1>2, <1>8, <2>1, ExaminesOn DEF Examines
<1>9. CASE Mismatch
  <2> DEFINE verdict == IF \E b \in RegionIndices(w.test.profile) : Read(Verifying) = Pattern(b)
                        THEN "alias" ELSE "failed"
  <2>1. /\ w.mode = "qualify" /\ UNCHANGED <<disk, src>>
        /\ w' = [w EXCEPT !.pc = "undo", !.err = TRUE, !.test.verdict = verdict]
    BY <1>9 DEF Mismatch, Qual, At
  <2> HIDE DEF verdict
  <2> QED BY <1>8, <2>1, Zenon
<1>10. CASE \E verdict \in {"failed", "cancelled"} : QualifyFail(verdict)
  BY <1>8, <1>10, Zenon DEF QualifyFail, Qual, At
<1>11. CASE QualifyRefuse \/ QualifyFinalFails
  <2>1. w.mode = "qualify" /\ w'.pc = "undo" /\ Fails
    BY <1>11, FailingSteps DEF Inv, QualifyRefuse, QualifyFinalFails
  <2> QED BY <1>2, <2>1, ExaminesOn DEF Examines, Fails
<1>12. CASE QualifyClose
  <2>1. w.mode = "qualify" /\ w'.pc = "report" /\ SameImage
    BY <1>1, <1>12, Zenon DEF DataFields, QualifyClose, CloseTarget, Qual, At, SameImage
  <2> QED BY <1>2, <2>1, ExaminesOn DEF Examines
<1>13. CASE FinishDeviceRun
  <2> DEFINE verdict == IF w.err /\ w.test.verdict = "passed" THEN "failed" ELSE w.test.verdict
  <2>1. w.mode = "qualify" /\ UNCHANGED src
        /\ w' = [w EXCEPT !.pc = "returned", !.test.verdict = verdict]
    BY <1>13 DEF FinishDeviceRun, Qual, At
  <2> HIDE DEF verdict
  <2>2. w'.pc = "returned" /\ SameImage
    BY <1>1, <2>1 DEF DataFields, SameImage
  <2> QED BY <1>2, <2>1, <2>2, ExaminesOn DEF Examines
<1> QED BY <1>3, <1>4, <1>5, <1>6, <1>7, <1>9, <1>10, <1>11, <1>12, <1>13

\* Every step of the test.
LEMMA QualifyData ==
  ASSUME Inv, DataInv, QualifyNext
  PROVE  DataInv'
BY QualifyStartsData, QualifiesData DEF QualifyNext

-----------------------------------------------------------------------------
(* The others *)

\* A level of the target is that of a writer that has it open.
LEMMA OpenOnTarget ==
  ASSUME Inv, Reached \in OnTarget
  PROVE  w.fd # None
<1>1. w.mode \in Makers \cup {"raw"}
  BY DEF Inv, Shape, Writers, Kinds, Modes, Reached, Level, OnTarget, Makers, Builders
<1>2. Place \in TargetStages(w.mode)
  BY <1>1 DEF Reached, Level, OnTarget, TargetStages, CopiedStages, FlushedStages, Makers, Builders
<1> QED BY <1>1, <1>2, TargetIn

\* The writer stands still.  Who edits the image without a lease leaves a trace,
\* and what has reached a medium stays there.
LEMMA StandsStill ==
  ASSUME Inv, DataInv, w' = w, HistoryInv',
         Traced => Traced',
         w.private \/ w.mode = "freedos" \/ w.held = "lease" \/ Traced =>
           (Steady' => Steady /\ (w.private \/ w.mode = "freedos" \/ src'.ver = src.ver)),
         \A d \in Disks : cache[d] = media[d] => cache'[d] = cache[d] /\ media'[d] = media[d],
         w.fd # None => cache' = cache
  PROVE  DataInv'
<1>1. Place' = Place /\ Reached' = Reached /\ (ToVerify' <=> ToVerify)
  BY DEF Place, Reached, ToVerify
<1>2. FailedInv'
  BY DEF DataInv, FailedInv
<1>3. PreparedInv'
  <2>1. w.mode = "none" /\ w.pc \in {"prepare-rest", "prepare-check"} /\ Steady' =>
          w.image = src'.ver
    <3>1. SUFFICES ASSUME w.mode = "none", w.pc \in {"prepare-rest", "prepare-check"}, Steady'
                   PROVE  w.image = src'.ver
      OBVIOUS
    <3>2. w.pc \in Reading /\ w.pc \in Unprepared
      BY <3>1 DEF Reading, Unprepared, Containers
    <3> QED BY <3>1, <3>2 DEF DataInv, PreparedInv
  <2> QED BY <2>1 DEF DataInv, PreparedInv
<1>4. UntouchedInv'
  BY DEF DataInv, UntouchedInv
<1>5. Kept => Kept'
  <2>1. \A a \in w.changed : a.disk \in Disks
    BY DEF Inv, Shape, Writers, Attachments
  <2> QED BY <1>1, <2>1 DEF Kept
<1>6. DoneInv'
  BY <1>5 DEF DataInv, DoneInv, Images
<1>7. ReadInv => ReadInv'
  <2>1. SUFFICES ASSUME ReadInv  PROVE ReadInv'
    OBVIOUS
  <2>2. Reached \in Hashed /\ Steady' =>
          /\ Steady
          /\ w.mode # "freedos" => Bytes' = Bytes
    BY <2>1 DEF ReadInv, Bytes
  <2> QED BY <1>1, <2>1, <2>2 DEF ReadInv, Images
<1>8. ReadInv /\ TargetDataInv => TargetDataInv'
  <2>1. SUFFICES ASSUME ReadInv, TargetDataInv  PROVE TargetDataInv'
    OBVIOUS
  <2>2. Reached \in OnTarget => Held' = Held
    BY OpenOnTarget DEF Held
  <2>3. Reached \in OnTarget /\ Steady' => Steady
    BY <2>1 DEF ReadInv, OnTarget, Hashed
  <2>4. Reached = "flushed" => media'[w.fd.disk] = media[w.fd.disk]
    <3>1. Reached = "flushed" => w.fd.disk \in Disks
      BY OpenOnTarget DEF Inv, Shape, Writers, Ports, Attachments, OnTarget
    <3> QED BY <2>1, <3>1 DEF TargetDataInv, Held
  <2> QED BY <1>1, <1>5, <2>1, <2>2, <2>3, <2>4 DEF TargetDataInv, OnTarget
<1> QED BY <1>2, <1>3, <1>4, <1>6, <1>7, <1>8 DEF DataInv

\* The image is edited.
LEMMA EditsData ==
  ASSUME EditsLeaveTrace, Inv, DataInv, NEW v \in Versions, NEW trace \in {"mtime", "ctime"},
         EditSource(v, trace)
  PROVE  DataInv'
<1>1. /\ w' = w /\ cache' = cache /\ media' = media
      /\ src.lease # "held" /\ src'.ver = v /\ v # src.ver /\ src'.lease = src.lease
      /\ src'.ctime = src.ctime + 1
      /\ \/ src'.mtime = src.ctime + 1 /\ src'.past = {v}
         \/ src'.mtime = src.mtime /\ src'.past = src.past \cup {v} /\ v \notin src.past
  BY DEF EditSource, Counted, disk, Inv, SrcType
<1>2. src.ctime \in Nat /\ src.mtime \in Nat /\ w.pin.mtime \in Nat
  BY BoundAssumption DEF Inv, SrcType, Shape, Writers, Pins
<1>3. src.mtime <= src.ctime /\ w.pin.mtime <= src.ctime
  BY DEF DataInv, HistoryInv
<1>4. HistoryInv'
  BY <1>1, <1>2, <1>3 DEF HistoryInv
<1>5. src'.mtime = w.pin.mtime =>
        src'.mtime = src.mtime /\ src'.past = src.past \cup {v} /\ v \notin src.past
  BY <1>1, <1>2, <1>3
<1>6. Traced => Traced'
  BY <1>1, <1>5 DEF Traced
<1>7. w.private \/ w.mode = "freedos" \/ w.held = "lease" \/ Traced =>
        (Steady' => Steady /\ (w.private \/ w.mode = "freedos" \/ src'.ver = src.ver))
  BY <1>1, <1>5 DEF Traced, Steady
<1> QED BY <1>1, <1>4, <1>6, <1>7, StandsStill

\* The lease is broken.
LEMMA BreaksData ==
  ASSUME Inv, DataInv, OpenForWriting
  PROVE  DataInv'
<1>1. /\ w' = w /\ cache' = cache /\ media' = media
      /\ src'.ver = src.ver /\ src'.mtime = src.mtime /\ src'.ctime = src.ctime
      /\ src'.past = src.past /\ src'.lease = "broken"
  BY DEF OpenForWriting, Counted, disk, Inv, SrcType
<1>2. HistoryInv'
  BY <1>1 DEF DataInv, HistoryInv
<1>3. (Traced' <=> Traced) /\ (Steady' => Steady)
  BY <1>1 DEF Traced, Steady
<1> QED BY <1>1, <1>2, <1>3, StandsStill

\* A disk comes or goes, or is mounted.
LEMMA DisksData ==
  ASSUME Inv, DataInv,
         \/ (\E d \in Disks : AttachDisk(d)) \/ UnplugDisk
         \/ (\E root \in MountRoots : MountDisk(root)) \/ RescanDisk
  PROVE  DataInv'
<1>1. w' = w /\ src' = Counted
  BY DEF AttachDisk, UnplugDisk, MountDisk, RescanDisk
<1>2. /\ src'.ver = src.ver /\ src'.mtime = src.mtime /\ src'.ctime = src.ctime
      /\ src'.past = src.past /\ src'.lease = src.lease
  BY <1>1 DEF Counted, Inv, SrcType
<1>3. cache \in [Disks -> Cells] /\ media \in [Disks -> Cells]
  BY DEF Inv, DiskTypeOK, Cells
<1>4. /\ \A d \in Disks : cache[d] = media[d] => cache'[d] = cache[d] /\ media'[d] = media[d]
      /\ w.fd # None => cache' = cache
  <2>1. CASE \E d \in Disks : AttachDisk(d)
    <3>1. PICK d \in Disks : AttachDisk(d)
      BY <2>1
    <3>2. w.fd = None /\ cache' = [cache EXCEPT ![d] = media[d]] /\ media' = media
      BY <3>1 DEF AttachDisk, Attach
    <3> QED BY <1>3, <3>2
  <2>2. CASE UnplugDisk
    <3>1. cache' = cache /\ port.disk \in Disks
      BY <2>2 DEF UnplugDisk, Unplug, Inv, DiskTypeOK, Attachments
    <3>2. PICK table \in {media[port.disk].table, cache[port.disk].table},
               fs \in {media[port.disk].fs, cache[port.disk].fs} :
            media' = [media EXCEPT ![port.disk] = [table |-> table, fs |-> fs]]
      BY <2>2 DEF UnplugDisk, Unplug
    <3>3. cache[port.disk] = media[port.disk] =>
            media[port.disk] = [table |-> table, fs |-> fs]
      BY <1>3, <3>1, <3>2 DEF Cells
    <3> QED BY <1>3, <3>1, <3>2, <3>3
  <2>3. CASE (\E root \in MountRoots : MountDisk(root)) \/ RescanDisk
    BY <2>3 DEF MountDisk, Mount, RescanDisk, Rescan
  <2> QED BY <2>1, <2>2, <2>3
<1>5. HistoryInv'
  BY <1>1, <1>2 DEF DataInv, HistoryInv
<1>6. (Traced' <=> Traced) /\ (Steady' <=> Steady)
  BY <1>1, <1>2 DEF Traced, Steady
<1> QED BY <1>1, <1>2, <1>4, <1>5, <1>6, StandsStill

\* Nothing happens.
LEMMA DataQuiet ==
  ASSUME Inv, DataInv, UNCHANGED session
  PROVE  DataInv'
<1>1. w' = w /\ src' = src /\ cache' = cache /\ media' = media
  BY DEF session, disk
<1>2. HistoryInv'
  BY <1>1 DEF DataInv, HistoryInv
<1>3. (Traced' <=> Traced) /\ (Steady' <=> Steady)
  BY <1>1 DEF Traced, Steady
<1> QED BY <1>1, <1>2, <1>3, StandsStill

-----------------------------------------------------------------------------
(* The theorem *)

\* Before the start nothing has been read or written.
LEMMA DataInit == SessionInit => DataInv
<1>1. SUFFICES ASSUME SessionInit  PROVE DataInv
  OBVIOUS
<1>2. /\ w = Idle /\ media = cache /\ cache = [d \in Disks |-> [table |-> "old", fs |-> "old"]]
      /\ src.ver \in src.past /\ src.mtime = 0 /\ src.ctime = 0
  BY <1>1 DEF SessionInit, DiskInit
<1>3. /\ w.pc = "start" /\ w.mode = "none" /\ ~w.err /\ ~w.private /\ ~w.verify
      /\ w.staged = None /\ w.plan = None /\ w.pin.mtime = 0
      /\ ~w.announced /\ w.status = "none"
  BY <1>2 DEF Idle
<1>4. Reached = "unread"
  BY <1>3 DEF Reached, Place, Level, Asking, ClosedStages
<1>5. FailedInv /\ HistoryInv /\ DoneInv
  BY <1>2, <1>3 DEF FailedInv, HistoryInv, DoneInv
<1>6. PreparedInv
  BY <1>3 DEF PreparedInv, Reading
<1>7. UntouchedInv
  BY <1>2, <1>3 DEF UntouchedInv
<1>8. ReadInv /\ TargetDataInv
  BY <1>3, <1>4 DEF ReadInv, TargetDataInv, Hashed, OnTarget
<1> QED BY <1>5, <1>6, <1>7, <1>8 DEF DataInv

\* Every step keeps it, if whoever edits the image leaves a trace.
LEMMA DataNext ==
  ASSUME EditsLeaveTrace, Inv, DataInv, [Next]_session
  PROVE  DataInv'
<1>1. CASE Others
  BY <1>1, EditsData, BreaksData, DisksData DEF Others
<1>2. CASE Stopped \/ UNCHANGED session
  BY <1>2, DataQuiet DEF Stopped
<1> QED BY <1>1, <1>2, CommandData, RawData, WindowsData, ToGoData, PersistentData, ExtractedData,
           FreeDOSData, QualifyData DEF Next

\* What is announced is on the medium.
LEMMA DataOneSource == Inv /\ DataInv => OneSource
<1>1. SUFFICES ASSUME Inv, DataInv, w.announced \/ w.status = "ok", w.mode # "qualify"
               PROVE  \A a \in w.changed :
                        /\ media[a.disk].table = "plan"
                        /\ \/ media[a.disk].fs = w.digest /\ w.digest \in Versions \cup {"plan"}
                           \/ w.flawed /\ ~w.verify
  BY DEF OneSource
<1>2. Kept /\ w.digest \in Versions \cup {"plan"}
  BY <1>1 DEF DataInv, DoneInv, Images
<1>3. ~ToVerify
  BY <1>1 DEF ToVerify, Inv, CleanInv, Early
<1>4. w.verify \in BOOLEAN
  BY <1>1 DEF Inv, Shape, Writers
<1> QED BY <1>2, <1>3, <1>4 DEF Kept

\* What a command announces as done is the image as it was hashed, on the
\* medium, if bytes do not come back under a modification time they had: all
\* steps between the hash and the last look at the image, of every writer, read
\* that version or end in an error.
THEOREM OneSourceHolds ==
  ASSUME EditsLeaveTrace
  PROVE  Spec => []OneSource
<1>1. SessionInit => DataInv
  BY DataInit
<1>2. Inv /\ DataInv /\ [Next]_session => DataInv'
  BY DataNext
<1>3. Inv /\ DataInv => OneSource
  BY DataOneSource
<1>4. Spec => []Inv
  BY InvAlways
<1> QED BY <1>1, <1>2, <1>3, <1>4, PTL DEF Spec
================================================================================

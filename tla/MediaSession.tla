------------------------------ MODULE MediaSession -----------------------------
(***************************************************************************)
(* What the writers of bootable media share: one selected image, which     *)
(* other programs may edit, one target disk, which may be swapped, and one *)
(* writer between them.  The writers themselves are in the modules that    *)
(* extend this one; each of them is a sequence of the steps below.  Two    *)
(* tools, front "tool", write without an image.                            *)
(*                                                                         *)
(* The image is its bytes (a version), its modification and change times,  *)
(* and the state of a kernel read lease on it.  The target's filesystem    *)
(* holds the version it was copied from; "mixed" is what two versions      *)
(* leave.                                                                  *)
(***************************************************************************)
EXTENDS TargetDisk

CONSTANTS
  Versions,         \* contents the image file may have
  Selected,         \* the one it has when it is selected
  MaxEdits,         \* bound on edits of the image
  EditsLeaveTrace,  \* bytes do not come back under the modification time they had
  MaxOthers,        \* bound on what the others do
  AllOptions        \* modes in which every option of the command line is followed

ASSUME VersionAssumption == Selected \in Versions
ASSUME BoundAssumption == MaxEdits \in Nat /\ MaxOthers \in Nat
ASSUME TraceAssumption == EditsLeaveTrace \in BOOLEAN
ASSUME ContentAssumption == Versions \cup {"plan", "empty", "mixed"} \subseteq Layouts

VARIABLES
  src,   \* the image file, [ver, mtime, ctime, lease], how often others acted, and
         \* the contents it has had under its present modification time (past)
  w      \* the writer

session == <<disk, src, w>>

Digests == Versions \cup {"plan", "mixed"}
Modes == {"raw", "windows", "windows-to-go", "linux-persistent", "extracted-fat32",
          "extracted-ntfs", "freedos", "qualify"}

\* A writer before it has started.
Idle == [pc |-> "start", ret |-> "none", front |-> "none", mode |-> "none",
         verify |-> FALSE, noUnmount |-> FALSE, pin |-> [mtime |-> 0, ctime |-> 0],
         private |-> FALSE, image |-> None, digest |-> None, plan |-> None, staged |-> None,
         held |-> "no", identity |-> None, listed |-> {}, fd |-> None,
         work |-> FALSE, own |-> {}, known |-> {}, boot |-> "none",
         touched |-> FALSE, changed |-> {}, swapped |-> FALSE, flawed |-> FALSE,
         err |-> FALSE, claim |-> "none", announced |-> FALSE, status |-> "none",
         test |-> None]

At(m, stage) == w.mode = m /\ w.pc = stage
Goto(stage) == w' = [w EXCEPT !.pc = stage]
Pass(stage) == Goto(stage) /\ UNCHANGED <<disk, src>>

-----------------------------------------------------------------------------
(* Package sourcefile.  A prepared image is private to the writer. *)

Bytes == IF w.private THEN w.image ELSE src.ver

\* Verify compares the change time too.
Verify == w.private \/ (src.mtime = w.pin.mtime /\ src.ctime = w.pin.ctime)

\* VerifyPinned leaves it out: it moves when the file is renamed.
VerifyPinned == w.private \/ src.mtime = w.pin.mtime

\* ReadLease.Check.
LeaseIntact == (w.held = "lease" /\ ~w.private) => src.lease = "held"

\* AcquireReadLease: the lease, or the fallback to hashing several times when
\* the filesystem has none or a writer has the file open.
AcquireReadLease(stage) ==
  /\ Verify
  /\ \E held \in {"lease", "passes"} :
       /\ w' = [w EXCEPT !.pc = stage, !.held = held]
       /\ src' = IF held = "lease" /\ ~w.private THEN [src EXCEPT !.lease = "held"] ELSE src
  /\ UNCHANGED disk

\* ReadLease.Close.
Released == IF w.held = "lease" /\ ~w.private THEN [src EXCEPT !.lease = "none"] ELSE src

\* The deferred Check and Close: what a broken lease is reported as depends on
\* whether the target has been changed.
FinishLease(stage) ==
  /\ w' = [w EXCEPT !.pc = stage, !.held = "no", !.err = w.err \/ ~LeaseIntact,
                    !.claim = IF LeaseIntact THEN w.claim
                              ELSE IF w.touched THEN "incomplete" ELSE "untouched"]
  /\ src' = Released
  /\ UNCHANGED disk

\* hashPinnedISO: all bytes, then VerifyPinned.
HashFirst(stage) ==
  /\ VerifyPinned
  /\ w' = [w EXCEPT !.pc = stage, !.digest = Bytes]
  /\ UNCHANGED <<disk, src>>

\* Under a lease one Check, without it another pass that must agree; the
\* message of the disagreement is the caller's.
Recheck(stage, message) ==
  /\ IF w.held = "lease"
     THEN LeaseIntact /\ Goto(stage)
     ELSE IF VerifyPinned /\ Bytes = w.digest
          THEN Goto(stage)
          ELSE w' = [w EXCEPT !.pc = "undo", !.err = TRUE,
                              !.claim = IF VerifyPinned THEN message ELSE w.claim]
  /\ UNCHANGED <<disk, src>>

-----------------------------------------------------------------------------
(* The target *)

Bound == VerifyOpenDevice(w.fd, Size[w.identity.disk])

\* checkTarget, before every change.
CheckTarget == LeaseIntact /\ VerifyPinned /\ Bound

\* Open the path, compare number and capacity, flock without waiting.
OpenTarget(stage) ==
  /\ port # None
  /\ Size[port.disk] = Size[w.identity.disk]
  /\ w' = [w EXCEPT !.pc = stage, !.fd = port, !.swapped = (port # w.identity)]
  /\ UNCHANGED <<disk, src>>

\* The whole disk or its filesystem gets new contents through the descriptor
\* or the path, which name the same disk while the descriptor is open.
Change(stage, contents) ==
  /\ cache' = [cache EXCEPT ![w.fd.disk] = contents]
  /\ w' = [w EXCEPT !.pc = stage, !.changed = @ \cup {w.fd}]
  /\ UNCHANGED <<port, attached, mounts, parts, media, src>>

Held == cache[w.fd.disk]

Wipe(stage) == port = w.fd /\ Change(stage, [table |-> "none", fs |-> "none"])

\* A table written through the descriptor, synced and read back.
WriteTable(stage) ==
  /\ port = w.fd
  /\ cache' = [cache EXCEPT ![w.fd.disk] = [table |-> "plan", fs |-> "none"]]
  /\ media' = [media EXCEPT ![w.fd.disk] = [table |-> "plan", fs |-> "none"]]
  /\ w' = [w EXCEPT !.pc = stage, !.changed = @ \cup {w.fd}]
  /\ UNCHANGED <<port, attached, mounts, parts, src>>

\* The kernel is asked to read the table; the answer may be a refusal that is
\* only warned about.
Reread(stage) ==
  /\ port = w.fd
  /\ parts' \in {parts, (mounts = {} /\ Held.table = "plan")}
  /\ Goto(stage)
  /\ UNCHANGED <<port, attached, mounts, cache, media, src>>

\* The partitions appear with the planned geometry.
WaitPartition(stage) ==
  /\ port = w.fd
  /\ parts
  /\ Goto(stage)
  /\ UNCHANGED <<disk, src>>

\* Every mount of the partition goes, wherever it is.
UnmountPartition(stage) ==
  /\ port = w.fd
  /\ mounts' = {}
  /\ Goto(stage)
  /\ UNCHANGED <<port, attached, parts, cache, media, src>>

\* mkfs refuses a mounted partition.
MakeFilesystem(stage) ==
  /\ port = w.fd
  /\ parts
  /\ mounts = {}
  /\ Change(stage, [Held EXCEPT !.fs = "empty"])

TargetMounts == {"target", "esp", "persistence"}

\* mount(8) at the workspace.  A mount that is cut off after the kernel has
\* made it is reported as failed, and nobody remembers it.
MountUndo(m, stage, undo) ==
  /\ m \in TargetMounts => port = w.fd /\ Held.fs \notin {"none", "torn"}
  /\ \/ w' = [w EXCEPT !.pc = stage, !.own = @ \cup {m}, !.known = @ \cup {m}]
     \/ w' = [w EXCEPT !.pc = undo, !.err = TRUE, !.own = @ \cup {m}]
  /\ UNCHANGED <<disk, src>>

MountOwn(m, stage) == MountUndo(m, stage, "undo")

\* The same, and then a look for other mounts of the partition, whose failure
\* is not remembered as a mount either.
MountAlone(m, stage) ==
  /\ mounts = {}
  /\ MountOwn(m, stage)

MountShared(m) ==
  /\ port = w.fd
  /\ mounts # {}
  /\ w' = [w EXCEPT !.pc = "undo", !.err = TRUE, !.own = @ \cup {m}]
  /\ UNCHANGED <<disk, src>>

\* Contents of which one part came with each of two versions.
Mixed(old, new) == IF old \in {None, "empty", new} THEN new ELSE "mixed"

\* What the mounted image says goes into the plan.
Observe(stage) ==
  /\ "iso" \in w.own
  /\ w' = [w EXCEPT !.pc = stage, !.plan = Mixed(@, Bytes)]
  /\ UNCHANGED <<disk, src>>

\* A part of it that will be written later is put aside in the workspace.
Stage(stage) ==
  /\ "iso" \in w.own
  /\ w' = [w EXCEPT !.pc = stage, !.staged = Mixed(@, Bytes)]
  /\ UNCHANGED <<disk, src>>

\* Some of the files are copied to the mounted target.
CopyFiles(stage, content) ==
  /\ port = w.fd
  /\ "target" \in w.own
  /\ Change(stage, [Held EXCEPT !.fs = Mixed(@, content)])

\* Mutant: the flag that the mount is there stays set.
UmountForgotten(m, stage) ==
  /\ m \in w.own
  /\ w' = [w EXCEPT !.pc = stage, !.own = @ \ {m}]
  /\ UNCHANGED <<disk, src>>

\* umount of the writer's own mount at the end of a phase.
UmountOwn(m, stage) ==
  /\ m \in w.own
  /\ w' = [w EXCEPT !.pc = stage, !.own = @ \ {m}, !.known = @ \ {m}]
  /\ UNCHANGED <<disk, src>>

\* Everything reaches the medium, and the cache is dropped.  A medium that
\* lies about its writes keeps something else.
Flush(stage) ==
  /\ port = w.fd
  /\ \E flawed \in BOOLEAN :
       LET kept == IF flawed THEN [Held EXCEPT !.fs = "mixed"] ELSE Held
       IN  /\ media' = [media EXCEPT ![w.fd.disk] = kept]
           /\ cache' = [cache EXCEPT ![w.fd.disk] = kept]
           /\ w' = [w EXCEPT !.pc = stage, !.flawed = @ \/ flawed]
  /\ UNCHANGED <<port, attached, mounts, parts, src>>

-----------------------------------------------------------------------------
(* Errors and the deferred cleanup: last opened, first closed *)

\* A program is missing, fails or times out, a check refuses, or a signal, the
\* cancel file or a broken lease ends the context.
FailTo(m, stages, undo) ==
  /\ w.mode = m
  /\ w.pc \in stages
  /\ w' = [w EXCEPT !.pc = undo, !.err = TRUE]
  /\ UNCHANGED <<disk, src>>

Fail(m, stages) == FailTo(m, stages, "undo")

\* The same in the middle of a change.
FailTornTo(m, stages, undo) ==
  /\ w.mode = m
  /\ w.pc \in stages
  /\ port = w.fd
  /\ \E part \in {"table", "fs"} :
       cache' = [cache EXCEPT ![w.fd.disk][part] = "torn"]
  /\ w' = [w EXCEPT !.pc = undo, !.err = TRUE, !.changed = @ \cup {w.fd}]
  /\ UNCHANGED <<port, attached, mounts, parts, media, src>>

FailTorn(m, stages) == FailTornTo(m, stages, "undo")

\* The mounts the writer knows of are taken down; a failure is an error and
\* leaves the mount.
CleanMount(m, stage) ==
  /\ \/ m \notin w.known /\ Goto(stage)
     \/ m \in w.known /\ w' = [w EXCEPT !.pc = stage, !.own = @ \ {m}, !.known = @ \ {m}]
     \/ m \in w.known /\ w' = [w EXCEPT !.pc = stage, !.err = TRUE]
  /\ UNCHANGED <<disk, src>>

\* The workspace is removed when no known mount is left in it.  A target
\* mount nobody knows of loses its files to the removal, which then fails: the
\* applied volume that Windows To Go mounts writable (the other mounts that can
\* be forgotten are still empty or read-only, and losing them is the cautious
\* reading).
CleanWork(stage) ==
  /\ IF ~w.work \/ w.known # {}
     THEN Goto(stage) /\ UNCHANGED cache
     ELSE IF w.own = {}
     THEN w' = [w EXCEPT !.pc = stage, !.work = FALSE] /\ UNCHANGED cache
     ELSE /\ w' = [w EXCEPT !.pc = stage, !.err = TRUE]
          /\ IF w.own \cap TargetMounts # {} /\ port = w.fd
             THEN cache' = [cache EXCEPT ![w.fd.disk].fs = "torn"]
             ELSE UNCHANGED cache
  /\ UNCHANGED <<port, attached, mounts, parts, media, src>>

\* Unlock and close; a close may surface a late error.
CloseTarget(stage) ==
  /\ \E late \in (IF w.fd = None THEN {FALSE} ELSE BOOLEAN) :
       w' = [w EXCEPT !.pc = stage, !.fd = None, !.err = @ \/ late]
  /\ UNCHANGED <<disk, src>>

\* What the command returns.
End(status) ==
  /\ w' = [w EXCEPT !.pc = "ended", !.status = status]
  /\ UNCHANGED <<disk, src>>

-----------------------------------------------------------------------------
(* The others: whoever edits the image, pulls the disk or mounts it.  What   *)
(* they do is counted with the image, and once the writer has failed only   *)
(* a broken lease can still make a difference to what it says.              *)

Running == w.status = "none"
Acting == Running /\ ~w.err /\ src.others < MaxOthers
Counted == [src EXCEPT !.others = @ + 1]

\* The change time always moves, the modification time can be put back.  The
\* tools that read no image do not notice.
EditSource(v, trace) ==
  /\ Acting
  /\ w.front # "tool"
  /\ src.lease # "held"
  /\ v # src.ver
  /\ v \in src.past /\ EditsLeaveTrace => trace = "mtime"
  /\ src.ctime < MaxEdits
  /\ src' = [Counted EXCEPT !.ver = v,
                            !.mtime = IF trace = "mtime" THEN src.ctime + 1 ELSE @,
                            !.ctime = @ + 1,
                            !.past = IF trace = "mtime" THEN {v} ELSE @ \cup {v}]
  /\ UNCHANGED <<disk, w>>

\* Opening the image for writing breaks the lease; the writer is told at once,
\* the other program has to wait, but not for ever.
OpenForWriting ==
  /\ Running
  /\ src.lease = "held"
  /\ \/ Acting /\ src' = [Counted EXCEPT !.lease = "broken"]
     \/ w.err /\ src' = [src EXCEPT !.lease = "broken"]
  /\ UNCHANGED <<disk, w>>

AttachDisk(d) ==
  /\ Acting
  /\ Attach(d, IF w.fd = None THEN {} ELSE {w.fd})
  /\ src' = Counted
  /\ UNCHANGED w

UnplugDisk == Acting /\ Unplug /\ src' = Counted /\ UNCHANGED w

MountDisk(root) ==
  /\ Acting
  /\ Mount(root)
  /\ src' = Counted
  /\ UNCHANGED w

RescanDisk == Acting /\ ~parts /\ Rescan /\ src' = Counted /\ UNCHANGED w

Others ==
  \/ \E v \in Versions, trace \in {"mtime", "ctime"} : EditSource(v, trace)
  \/ OpenForWriting
  \/ \E d \in Disks : AttachDisk(d)
  \/ UnplugDisk
  \/ \E root \in MountRoots : MountDisk(root)
  \/ RescanDisk

Stopped == w.status # "none" /\ UNCHANGED session

SessionInit ==
  /\ DiskInit
  /\ src = [ver |-> Selected, mtime |-> 0, ctime |-> 0, lease |-> "none",
            others |-> 0, past |-> {Selected}]
  /\ w = Idle
==============================================================================

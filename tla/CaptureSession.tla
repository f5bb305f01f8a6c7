----------------------------- MODULE CaptureSession ----------------------------
(***************************************************************************)
(* What the two captures share: one source disk, which may be swapped,     *)
(* mounted and written to, one destination directory, in which the user    *)
(* may create and remove files, and one command between them.              *)
(*                                                                         *)
(* The source is seen as two parts, which a reader reaches one after the   *)
(* other: two regions of the disk for drive backup, two files of its       *)
(* mounted filesystem for ISO capture.  Each part has a version, its       *)
(* bytes, and a stamp, its change time.  The disks are clones: only the    *)
(* attachment, or the mount, tells them apart.                             *)
(***************************************************************************)
EXTENDS TargetDisk

CONSTANTS
  Versions,   \* contents a part may have
  MaxEdits,   \* bound on changes of the source
  MaxOthers   \* bound on what the others do

ASSUME VersionAssumption == "old" \in Versions /\ "gone" \notin Versions
ASSUME BoundAssumption == MaxEdits \in Nat /\ MaxOthers \in Nat

VARIABLES
  src,   \* [first, rest, mount, past, others]: the source
  dest,  \* [path, name, kept, temp, removed]: the destination directory
  c      \* the command

session == <<disk, src, dest, c>>

Parts == {"first", "rest"}
Pair(s) == <<s.first.ver, s.rest.ver>>

Idle == [pc |-> "start", format |-> "none", noUnmount |-> FALSE, identity |-> None,
         listed |-> {}, fd |-> None, plan |-> None, scan |-> None, view |-> None,
         image |-> None, digest |-> None, from |-> {}, read |-> 0, synced |-> FALSE, held |-> FALSE,
         own |-> {}, known |-> {}, work |-> {}, cut |-> FALSE, unsynced |-> FALSE,
         report |-> "none", exit |-> "none"]

Doing(stage) == c.pc = stage
Proceed(stage) == c' = [c EXCEPT !.pc = stage]
Pass(stage) == Proceed(stage) /\ UNCHANGED <<disk, src, dest>>
Edits == src.first.stamp + src.rest.stamp

\* The command fails: what is deferred comes next.
Abandon == c' = [c EXCEPT !.pc = "undo", !.report = "failed"]
FailIn(stages) == c.pc \in stages /\ Abandon /\ UNCHANGED <<disk, src, dest>>

-----------------------------------------------------------------------------
(* The source before it is read *)

\* validateSource: a whole disk without a protected mount, not the root disk.
ValidateSource == port # None /\ "system" \notin mounts

\* ResolveDevice, Find, ValidateExpectedIdentity, validateSource.
DiscoverSource(stage) ==
  /\ ValidateSource
  /\ c' = [c EXCEPT !.pc = stage, !.identity = port]
  /\ UNCHANGED <<disk, src, dest>>

\* Mutant: the device path is looked up again and its identity is not.
RevalidateAgain == ValidateSource

\* revalidateSource: the same, and the identity that was reviewed.
RevalidateSource == SameIdentity(c.identity) /\ ValidateSource

-----------------------------------------------------------------------------
(* The destination *)

\* ensureDestinationAbsent, which opens the name.
NameFree == dest.name = "free"

\* A real directory on another disk, with room, where the name is free.
PrepareDestination(stage) ==
  /\ NameFree
  /\ c' = [c EXCEPT !.pc = stage, !.held = TRUE]
  /\ dest' = [dest EXCEPT !.path = TRUE]
  /\ UNCHANGED <<disk, src>>

\* The same for a plan, which lets the directory go again.
InspectDestination(stage) == NameFree /\ Pass(stage)

\* os.CreateTemp in the held directory, for the owner only.
CreateTemporary(stage) ==
  /\ Proceed(stage)
  /\ dest' = [dest EXCEPT !.temp = TRUE]
  /\ UNCHANGED <<disk, src>>

\* Bytes of one part go to the temporary file.
WritePart(part, ver, stage) ==
  /\ c' = [c EXCEPT !.pc = stage, !.synced = FALSE, !.from = @ \cup {port},
                    !.image = IF part = "first" THEN <<ver, "none">> ELSE <<@[1], ver>>]
  /\ UNCHANGED <<disk, src, dest>>

SyncFile(stage) == c' = [c EXCEPT !.pc = stage, !.synced = TRUE] /\ UNCHANGED <<disk, src, dest>>

\* The path still names the directory that is held.
RevalidateDestination(stage) == dest.path /\ Pass(stage)

\* Mutant: a plain rename.
RenameOver(stage) ==
  /\ dest.temp
  /\ dest' = [dest EXCEPT !.temp = FALSE, !.name = "image", !.kept = FALSE,
                          !.removed = @ \/ dest.name = "foreign"]
  /\ Proceed(stage)
  /\ UNCHANGED <<disk, src>>

\* renameat2 with RENAME_NOREPLACE.
Rename(stage) ==
  /\ dest.temp
  /\ dest.name = "free"
  /\ dest' = [dest EXCEPT !.temp = FALSE, !.name = "image", !.kept = FALSE]
  /\ Proceed(stage)
  /\ UNCHANGED <<disk, src>>

\* The directory is synced: its names are on the medium.
SyncDirectory ==
  /\ Doing("publish-sync")
  /\ c' = [c EXCEPT !.pc = "done", !.report = "passed"]
  /\ dest' = [dest EXCEPT !.kept = (dest.name = "image")]
  /\ UNCHANGED <<disk, src>>

\* It is not: the name is unlinked, whatever it names by now, which may fail
\* too, and the directory is synced again.
SyncDirectoryFails ==
  /\ Doing("publish-sync")
  /\ c' = [c EXCEPT !.pc = "undo", !.report = "failed", !.unsynced = TRUE]
  /\ \/ dest' = [dest EXCEPT !.name = "free", !.removed = @ \/ dest.name = "foreign"]
     \/ UNCHANGED dest
  /\ UNCHANGED <<disk, src>>

\* The temporary file is closed and unlinked, the source and the directory are
\* closed; the view of a filesystem was opened first and goes last.  An error
\* of the unlink is not looked at.
Undo ==
  /\ Doing("undo")
  /\ c' = [c EXCEPT !.pc = IF "view" \in c.work THEN "undo-view" ELSE "done",
                    !.fd = None, !.held = FALSE]
  /\ dest' \in {[dest EXCEPT !.temp = FALSE], dest}
  /\ UNCHANGED <<disk, src>>

\* The report is printed; that, or an earlier progress record, may fail.
Return ==
  /\ Doing("done")
  /\ c' \in {[c EXCEPT !.pc = "ended", !.fd = None, !.held = FALSE, !.exit = e] :
               e \in IF c.report = "passed" THEN {"ok", "error"} ELSE {"error"}}
  /\ UNCHANGED <<disk, src, dest>>

\* An error before anything is held, or a dry run.
End(exit) ==
  /\ c' = [c EXCEPT !.pc = "ended", !.exit = exit]
  /\ UNCHANGED <<disk, src, dest>>

-----------------------------------------------------------------------------
(* The others *)

Running == c.exit = "none"
Acting == Running /\ c.report = "none" /\ src.others < MaxOthers
Counted == [src EXCEPT !.others = @ + 1]

\* A file of the mounted source is written, or a region of the raw disk, which
\* an exclusive descriptor does not prevent.
EditSource(part, v) ==
  /\ Acting
  /\ port # None
  /\ v # src[part].ver
  /\ src[part].ver # "gone"
  /\ Edits < MaxEdits
  /\ LET written == [Counted EXCEPT ![part] = [ver |-> v, stamp |-> @.stamp + 1]]
     IN  src' = [written EXCEPT !.past = @ \cup {Pair(written)}]
  /\ UNCHANGED <<disk, dest, c>>

AttachSource(d) ==
  /\ Acting
  /\ Attach(d, IF c.fd = None THEN {} ELSE {c.fd})
  /\ src' = Counted
  /\ UNCHANGED <<dest, c>>

UnplugDisk == Acting /\ Unplug /\ src' = Counted /\ UNCHANGED <<dest, c>>

\* A filesystem cannot be mounted while its disk is open exclusively.  What is
\* mounted before the command starts is not counted.
MountDisk(root) ==
  /\ Acting \/ Doing("start")
  /\ c.fd = None
  /\ Mount(root)
  /\ src' = [src EXCEPT !.mount = IF root = "media" THEN @ + 1 ELSE @,
                        !.others = IF Doing("start") THEN @ ELSE @ + 1]
  /\ src'.mount <= MaxOthers + 1
  /\ UNCHANGED <<dest, c>>

UnmountDisk(root) == Acting /\ Unmount(root) /\ src' = Counted /\ UNCHANGED <<dest, c>>

\* The user creates the destination, removes what is there, or renames the
\* directory away.
CreateForeign ==
  /\ Acting
  /\ dest.name = "free"
  /\ dest' = [dest EXCEPT !.name = "foreign"]
  /\ src' = Counted
  /\ UNCHANGED <<disk, c>>

RemoveDestination ==
  /\ Acting
  /\ dest.name # "free"
  /\ dest' = [dest EXCEPT !.name = "free", !.kept = FALSE]
  /\ src' = Counted
  /\ UNCHANGED <<disk, c>>

ReplaceDirectory ==
  /\ Acting
  /\ c.held
  /\ dest.path
  /\ dest' = [dest EXCEPT !.path = FALSE]
  /\ src' = Counted
  /\ UNCHANGED <<disk, c>>

\* SIGKILL, or the power: mounts, workspaces and names stay.
Die ==
  /\ Running
  /\ c.pc # "start"
  /\ c' = [c EXCEPT !.pc = "ended", !.exit = "killed", !.fd = None, !.held = FALSE]
  /\ UNCHANGED <<disk, src, dest>>

Others ==
  \/ \E part \in Parts, v \in Versions : EditSource(part, v)
  \/ \E d \in Disks : AttachSource(d)
  \/ UnplugDisk
  \/ \E root \in MountRoots : MountDisk(root)
  \/ \E root \in MountRoots : UnmountDisk(root)
  \/ CreateForeign
  \/ RemoveDestination
  \/ ReplaceDirectory
  \/ Die

Stopped == c.exit # "none" /\ UNCHANGED session

SessionInit ==
  /\ DiskInit
  /\ src = [first |-> [ver |-> "old", stamp |-> 0], rest |-> [ver |-> "old", stamp |-> 0],
            mount |-> 0, past |-> {<<"old", "old">>}, others |-> 0]
  /\ dest = [path |-> TRUE, name |-> "free", kept |-> FALSE, temp |-> FALSE,
             removed |-> FALSE]
  /\ c = Idle
==============================================================================

-------------------------------- MODULE Capture --------------------------------
(***************************************************************************)
(* Drive backup and ISO capture beside whoever swaps, mounts or writes to  *)
(* the source and whoever works in the destination directory.              *)
(***************************************************************************)
EXTENDS DriveBackup, IsoCapture

CaptureNext ==
  \/ BackupNext
  \/ IsoNext
  \/ SyncDirectory
  \/ SyncDirectoryFails
  \/ Undo
  \/ Return
  \/ Others
  \/ Stopped

CaptureSpec == SessionInit /\ [][CaptureNext]_session

-----------------------------------------------------------------------------
(* What the commands promise *)

Vers == Versions \cup {"gone", "none"}
Part == [ver : Vers, stamp : 0..MaxEdits]
Scans == {None} \cup [mount : 0..MaxOthers + 1, first : Part, rest : Part \cup {None}]
Images == {None} \cup (Vers \X Vers)

\* The state and the command have their types; what is known to be mounted is,
\* and has its workspace.
CaptureTypeOK ==
  /\ DiskTypeOK
  /\ src.first \in Part /\ src.rest \in Part
  /\ src.mount \in 0..MaxOthers + 1 /\ src.others \in 0..MaxOthers
  /\ src.past \subseteq Vers \X Vers
  /\ dest \in [path : BOOLEAN, name : {"free", "foreign", "image"}, kept : BOOLEAN,
               temp : BOOLEAN, removed : BOOLEAN]
  /\ c.identity \in Attachments \cup {None} /\ c.fd \in Attachments \cup {None}
  /\ {c.plan, c.scan, c.view} \subseteq Scans
  /\ {c.image, c.digest} \subseteq Images
  /\ c.known \subseteq c.own /\ c.own \subseteq {"bind", "ro", "udf"}
  /\ c.own \cap {"bind", "ro"} # {} => "view" \in c.work
  /\ "udf" \in c.own => "udf" \in c.work
  /\ c.report \in {"none", "passed", "failed"}
  /\ c.exit \in {"none", "planned", "ok", "error", "killed"}

\* Whatever appears under the destination's name, also when the command is
\* killed right then, is complete, on the medium, and of the reviewed source
\* only, although the source is read several times without being locked.  An
\* ISO holds what was reviewed, all of it as it was at one moment; so does a
\* backup of the disk, and the reported hash is its hash, unless somebody wrote
\* to the raw disk while it was read.  A report of success means that the name
\* is on the medium too, if the user has left it there.
CaptureWhole ==
  /\ dest.name = "image" =>
       /\ c.synced
       /\ c.from = {c.identity}
       /\ \/ c.image \in src.past /\ c.digest = c.image
          \/ c.format # "iso" /\ Edits > c.read
       /\ c.format = "raw" => c.digest = c.image
       /\ c.format = "iso" => c.image = Content(c.plan)
  /\ c.report = "passed" /\ dest.name = "image" => dest.kept

\* A command that succeeds leaves no mount, workspace or temporary file; one
\* that fails publishes nothing, except where the directory could not be synced
\* and the name not be unlinked.  The user's files in the directory stay, unless
\* one has taken the place of an image whose directory could not be synced.
\* The files of the source stay, unless its bind mount was made and lost.
CleanEnd ==
  /\ c.exit = "ok" => c.report = "passed" /\ c.own = {} /\ c.work = {} /\ ~dest.temp
  /\ c.report = "failed" /\ dest.name = "image" => c.unsynced
  /\ dest.removed => c.unsynced
  /\ src.first.ver = "gone" => c.cut /\ dest.name # "image"
==============================================================================

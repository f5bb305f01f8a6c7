------------------------------ MODULE TargetDisk ------------------------------
(***************************************************************************)
(* The disk a media writer is pointed at, and what package safety can ask  *)
(* about it.  One device path names at most one attached disk; what sits   *)
(* there is an attachment: a disk together with the kernel's sequence      *)
(* number, which is what tells two identical sticks apart.                 *)
(*                                                                         *)
(* A disk holds a partition table and one filesystem.  Programs see the    *)
(* page cache; only the media survive unplugging.  Mounts are named by     *)
(* where they are: "media" stands for the mount points of removable media, *)
(* which a writer may take down, "system" for every other one.             *)
(***************************************************************************)
EXTENDS Naturals

CONSTANTS
  Disks,      \* disks that may appear at the device path
  Size,       \* their capacities
  Layouts,    \* table and filesystem a reviewed plan asks for
  MaxAttach,  \* bound on attachments
  None

Attachments == [disk : Disks, seq : 1..MaxAttach]
Contents == Layouts \cup {"old", "none", "torn"}
MountRoots == {"media", "system"}

ASSUME SizeAssumption == Size \in [Disks -> Nat \ {0}]
ASSUME AttachAssumption == MaxAttach \in Nat \ {0}
ASSUME NoneAssumption == None \notin Attachments
ASSUME LayoutAssumption == Layouts \cap {"old", "none", "torn"} = {}

VARIABLES
  port,      \* the attachment the device path names, None when it does not exist
  attached,  \* attachments so far
  mounts,    \* where filesystems of the attached disk are mounted
  parts,     \* the kernel's partitions have the geometry of a plan
  cache,     \* per disk, [table, fs] as a reader sees them
  media      \* per disk, [table, fs] as they survive unplugging

disk == <<port, attached, mounts, parts, cache, media>>

-----------------------------------------------------------------------------
(* What package safety looks at *)

\* IdentityToken covers the disk sequence number, so it names an attachment.
SameIdentity(a) == port = a

\* Mutant: mounts outside the removable-media roots are not looked at.
AnyMount == port # None

\* ValidateTarget: a whole, writable, non-empty disk without a protected mount.
ValidateTarget == port # None /\ "system" \notin mounts

\* EnsureNoMountedDescendants.
NoneMounted == port # None /\ mounts = {}

\* VerifyOpenDevice: the descriptor of an unplugged disk no longer answers; the
\* capacity is compared with the reviewed one.
VerifyOpenDevice(fd, size) == fd # None /\ port = fd /\ Size[fd.disk] = size

\* UnmountDescendants takes down the mounts of an earlier listing.
UnmountListed(listed) == mounts' = mounts \ listed

-----------------------------------------------------------------------------
(* The kernel, the desktop and the person at the machine *)

\* A disk appears.  The device path and number of an earlier one are reused,
\* but never while a descriptor of it is open.
Attach(d, open) ==
  /\ port = None
  /\ open = {}
  /\ attached < MaxAttach
  /\ attached' = attached + 1
  /\ port' = [disk |-> d, seq |-> attached + 1]
  /\ parts' = (media[d].table \in Layouts)
  /\ cache' = [cache EXCEPT ![d] = media[d]]
  /\ UNCHANGED <<mounts, media>>

\* The disk is pulled.  Of what was not flushed, any part may have reached it.
Unplug ==
  /\ port # None
  /\ port' = None
  /\ mounts' = {}
  /\ parts' = FALSE
  /\ LET d == port.disk
     IN  \E table \in {media[d].table, cache[d].table}, fs \in {media[d].fs, cache[d].fs} :
           media' = [media EXCEPT ![d] = [table |-> table, fs |-> fs]]
  /\ UNCHANGED <<attached, cache>>

\* The desktop or an administrator mounts the filesystem.
Mount(root) ==
  /\ port # None
  /\ root \notin mounts
  /\ cache[port.disk].fs \notin {"none", "torn"}
  /\ mounts' = mounts \cup {root}
  /\ UNCHANGED <<port, attached, parts, cache, media>>

Unmount(root) ==
  /\ root \in mounts
  /\ mounts' = mounts \ {root}
  /\ UNCHANGED <<port, attached, parts, cache, media>>

\* The kernel reads the partition table again; it refuses while one is in use.
Rescan ==
  /\ port # None
  /\ mounts = {}
  /\ parts' = (cache[port.disk].table \in Layouts)
  /\ UNCHANGED <<port, attached, mounts, cache, media>>

DiskInit ==
  /\ \E d \in Disks : port = [disk |-> d, seq |-> 1]
  /\ attached = 1
  /\ mounts = {}
  /\ parts = FALSE
  /\ cache = [d \in Disks |-> [table |-> "old", fs |-> "old"]]
  /\ media = cache

DiskTypeOK ==
  /\ port \in Attachments \cup {None}
  /\ attached \in 1..MaxAttach
  /\ mounts \in SUBSET MountRoots
  /\ parts \in BOOLEAN
  /\ cache \in [Disks -> [table : Contents, fs : Contents]]
  /\ media \in [Disks -> [table : Contents, fs : Contents]]
==============================================================================

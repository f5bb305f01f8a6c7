------------------------------- MODULE Formatter ------------------------------
(***************************************************************************)
(* rufusarm64-nonbootable-format: erase one reviewed disk, publish one     *)
(* partition, make a filesystem in it, verify and report.  A run finds the *)
(* disk, has it confirmed, revalidates its identity, unmounts it, opens    *)
(* and locks it, and from then on trusts its descriptor.                   *)
(*                                                                         *)
(* Several runs may be started on the same device path.  Around them disks *)
(* are swapped, filesystems mounted, runs cancelled or killed, the utility *)
(* programs fail half-way, and the wall clock is set back.  A utility      *)
(* whose run is killed is not: it finishes on its own.                     *)
(*                                                                         *)
(* The partition's own flock is left out: only the holder of the whole     *)
(* disk's flock gets as far as taking it.                                  *)
(***************************************************************************)
EXTENDS TargetDisk

CONSTANTS
  Runs,    \* invocations of the command
  Layout   \* what each of them asks for

ASSUME LayoutOfRun == Layout \in [Runs -> Layouts]

VARIABLES
  run,      \* per invocation, its state and its Report
  orphans   \* utilities that outlived the run that started them

vars == <<disk, run, orphans>>

-----------------------------------------------------------------------------
(* A run *)

Fresh == [pc |-> "start", noUnmount |-> FALSE, identity |-> None, listed |-> {},
          fd |-> None, locked |-> FALSE, bound |-> FALSE, cancelled |-> FALSE,
          clockBack |-> FALSE, mediaChanged |-> FALSE, status |-> "none",
          changed |-> {}, swapped |-> FALSE, disturbed |-> FALSE]

\* What is left of a run is its Report, and what it did.
Ended(r, status) ==
  [Fresh EXCEPT !.pc = "ended", !.status = status, !.changed = run[r].changed,
                !.mediaChanged = run[r].mediaChanged, !.swapped = run[r].swapped,
                !.identity = IF run[r].changed = {} THEN None ELSE run[r].identity]

At(r, stage) == run[r].pc = stage
Goto(r, stage) == run' = [run EXCEPT ![r].pc = stage]
Open == {r \in Runs : run[r].fd # None}

\* A step that only changes the run's own state.
Local == UNCHANGED <<disk, orphans>>

\* From Execute on, signals cancel a context and a report is returned.
Executing == {"open", "flock", "verify", "rebind", "unmount-again", "final",
              "erase", "wipefs", "sfdisk", "publish", "bind", "format", "mkfs",
              "flush", "readback", "finish", "finish-verify"}
Preparing == {"discover", "confirm", "revalidate", "unmount", "settle"}

PlanSize(r) == Size[run[r].identity.disk]

\* linuxBackend.verifyTargetPath.  The device number stays with the disk while
\* its descriptor is open, so the path names the descriptor's disk or nothing.
TargetBound(r) == VerifyOpenDevice(run[r].fd, PlanSize(r))

\* verifyPartitionPath: the bound partition, with the reviewed geometry.
PartitionBound(r) == run[r].bound /\ parts

Found(r) == cache[run[r].fd.disk]

\* verifyPublishedTable: the table on the disk and the kernel's view of it.
TablePublished(r) == Found(r).table = Layout[r] /\ parts

\* ValidateReport refuses a completion time before the start time, and Execute
\* then returns an empty report.
Reported(r, status) == IF run[r].clockBack THEN "lost" ELSE status

\* finishFailure and finishPhaseError.  A failure may be the context's.
FailureStatuses(r) == {"failed"} \cup (IF run[r].cancelled THEN {"cancelled"} ELSE {})

\* Every other way a step fails: a program is missing, fails or times out, a
\* check refuses, the flock stays taken for two seconds, the partition does not
\* appear for thirty.
Fail(r) ==
  /\ run[r].pc \in Executing
  /\ \E status \in FailureStatuses(r) :
       run' = [run EXCEPT ![r].pc = "close", ![r].status = Reported(r, status)]
  /\ Local

\* Before Execute an error ends the command without a report.
Refuse(r) ==
  /\ run[r].pc \in Preparing
  /\ run' = [run EXCEPT ![r] = Ended(r, "refused")]
  /\ Local

-----------------------------------------------------------------------------
(* main.run: discovery, confirmation, revalidation *)

\* The operator picks the disk at the path, by the identity of a listing or,
\* without --expected-identity, by the path alone.
Start(r, noUnmount, byIdentity) ==
  /\ At(r, "start")
  /\ port # None
  /\ run' = [run EXCEPT ![r].pc = "discover", ![r].noUnmount = noUnmount,
                        ![r].identity = IF byIdentity THEN port ELSE None]
  /\ Local

\* ResolveDevice, Find, ValidateExpectedIdentity, ValidateTarget, BuildPlan.
Discover(r) ==
  /\ At(r, "discover")
  /\ run[r].identity # None => SameIdentity(run[r].identity)
  /\ ValidateTarget
  /\ run' = [run EXCEPT ![r].pc = "confirm", ![r].identity = port, ![r].listed = mounts]
  /\ Local

\* --dry-run stops at the plan.
DryRun(r) ==
  /\ At(r, "confirm")
  /\ run' = [run EXCEPT ![r] = Ended(r, "planned")]
  /\ Local

\* The phrase is typed, or --yes given with an identity.
Confirm(r) ==
  /\ At(r, "confirm")
  /\ run[r].noUnmount => run[r].listed = {}
  /\ run' = [run EXCEPT ![r].pc = "revalidate", ![r].listed = {}]
  /\ Local

\* Mutant: the identity is not compared again after the confirmation.
RevalidatePath(r) ==
  /\ At(r, "revalidate")
  /\ ValidateTarget
  /\ run' = [run EXCEPT ![r].pc = "unmount", ![r].listed = mounts]
  /\ Local

\* safety.RevalidateTarget.
Revalidate(r) ==
  /\ At(r, "revalidate")
  /\ SameIdentity(run[r].identity)
  /\ ValidateTarget
  /\ run' = [run EXCEPT ![r].pc = "unmount", ![r].listed = mounts]
  /\ Local

\* UnmountDescendants, unless --no-unmount.
UnmountOld(r, from, to) ==
  /\ At(r, from)
  /\ UnmountListed(IF run[r].noUnmount THEN {} ELSE run[r].listed)
  /\ run' = [run EXCEPT ![r].pc = to, ![r].listed = {}]
  /\ UNCHANGED <<port, attached, parts, cache, media, orphans>>

Settle(r) ==
  /\ At(r, "settle")
  /\ NoneMounted
  /\ Goto(r, "open")
  /\ Local

-----------------------------------------------------------------------------
(* linuxBackend.Prepare *)

\* OpenReopenableDevice does not ask for O_EXCL.
OpenTarget(r) ==
  /\ At(r, "open")
  /\ ~run[r].cancelled
  /\ port # None
  /\ run' = [run EXCEPT ![r].pc = "flock", ![r].fd = port]
  /\ Local

\* Mutant: the flock is taken in shared mode.
FlockShared(r) ==
  /\ At(r, "flock")
  /\ run' = [run EXCEPT ![r].pc = "verify", ![r].locked = TRUE]
  /\ Local

\* AcquireExclusiveFlock.
AcquireFlock(r) ==
  /\ At(r, "flock")
  /\ \A s \in Runs : ~(run[s].locked /\ run[s].fd = run[r].fd)
  /\ run' = [run EXCEPT ![r].pc = "verify", ![r].locked = TRUE]
  /\ Local

VerifyTarget(r) ==
  /\ At(r, "verify")
  /\ TargetBound(r)
  /\ Goto(r, "rebind")
  /\ Local

\* BeforeDestructive: RevalidateOpenBoundTarget compares the device number, not
\* the identity.
Rebind(r) ==
  /\ At(r, "rebind")
  /\ ValidateTarget
  /\ run' = [run EXCEPT ![r].pc = "unmount-again", ![r].listed = mounts]
  /\ Local

FinalCheck(r) ==
  /\ At(r, "final")
  /\ NoneMounted
  /\ TargetBound(r)
  /\ Goto(r, "erase")
  /\ Local

-----------------------------------------------------------------------------
(* Execute: the phases that change the disk *)

\* A utility changes the disk of the run's descriptor.
Write(r, contents) ==
  /\ cache' = [cache EXCEPT ![run[r].fd.disk] = contents]
  /\ UNCHANGED <<port, attached, mounts, parts, media, orphans>>

\* The effect of each utility: complete, or stopped half-way.
Utilities == {"wipefs", "sfdisk", "mkfs"}

Effect(utility, contents, layout) ==
  CASE utility = "wipefs" -> [contents EXCEPT !.table = "none"]
    [] utility = "sfdisk" -> [table |-> layout, fs |-> "none"]
    [] utility = "mkfs" -> [contents EXCEPT !.fs = layout]

HalfEffect(utility, contents) ==
  IF utility = "mkfs" THEN [contents EXCEPT !.fs = "torn"]
                      ELSE [contents EXCEPT !.table = "torn"]

\* Mutant: the report does not own up to the erase.
BeginEraseUnreported(r) ==
  /\ At(r, "erase")
  /\ ~run[r].cancelled
  /\ Goto(r, "wipefs")
  /\ Local

BeginErase(r) ==
  /\ At(r, "erase")
  /\ ~run[r].cancelled
  /\ run' = [run EXCEPT ![r].pc = "wipefs", ![r].mediaChanged = TRUE]
  /\ Local

\* wipefs, sfdisk and mkfs through /proc/PID/fd/N.  mkfs opens exclusively, so
\* it refuses a mounted partition; the other two are forced.
RunUtility(r, utility, next) ==
  /\ At(r, utility)
  /\ ~run[r].cancelled
  /\ TargetBound(r)
  /\ utility = "mkfs" => mounts = {}
  /\ Write(r, Effect(utility, Found(r), Layout[r]))
  /\ run' = [run EXCEPT ![r].pc = next, ![r].changed = @ \cup {run[r].fd}]

\* The utility fails, or a cancellation kills it, after it has begun to write.
UtilityFails(r) ==
  /\ run[r].pc \in Utilities
  /\ TargetBound(r)
  /\ Write(r, HalfEffect(run[r].pc, Found(r)))
  /\ \E status \in FailureStatuses(r) :
       run' = [run EXCEPT ![r].pc = "close", ![r].changed = @ \cup {run[r].fd},
                          ![r].status = Reported(r, status)]

\* target.Sync after sfdisk, and a reread whose failure is ignored.
PublishTable(r) ==
  /\ At(r, "publish")
  /\ TargetBound(r)
  /\ media' = [media EXCEPT ![run[r].fd.disk] = Found(r)]
  /\ \/ parts' = TRUE /\ mounts = {} /\ ~run[r].cancelled
     \/ parts' = parts
  /\ Goto(r, "bind")
  /\ UNCHANGED <<port, attached, mounts, cache, orphans>>

\* waitForPartition and bindPartition.
BindPartition(r) ==
  /\ At(r, "bind")
  /\ ~run[r].cancelled
  /\ TargetBound(r)
  /\ TablePublished(r)
  /\ run' = [run EXCEPT ![r].pc = "format", ![r].bound = TRUE]
  /\ Local

\* The checks of linuxBackend.Format before mkfs.
CheckFormat(r) ==
  /\ At(r, "format")
  /\ ~run[r].cancelled
  /\ TargetBound(r)
  /\ PartitionBound(r)
  /\ NoneMounted
  /\ Goto(r, "mkfs")
  /\ Local

\* Verify starts with blockdev --flushbufs on the partition, whose page cache
\* is not the whole disk's.
FlushPartition(r) ==
  /\ At(r, "flush")
  /\ ~run[r].cancelled
  /\ TargetBound(r)
  /\ PartitionBound(r)
  /\ media' = [media EXCEPT ![run[r].fd.disk].fs = Found(r).fs]
  /\ Goto(r, "readback")
  /\ UNCHANGED <<port, attached, mounts, parts, cache, orphans>>

\* The read-only checker, the table, blkid and the filesystem's own superblock
\* agree with the plan.
Readback(r) ==
  /\ At(r, "readback")
  /\ ~run[r].cancelled
  /\ TargetBound(r)
  /\ PartitionBound(r)
  /\ Found(r).fs = Layout[r]
  /\ TablePublished(r)
  /\ Goto(r, "finish")
  /\ Local

\* linuxBackend.Finish: target.Sync, --flushbufs and sync(1).
FinishSync(r) ==
  /\ At(r, "finish")
  /\ ~run[r].cancelled
  /\ TargetBound(r)
  /\ TablePublished(r)
  /\ PartitionBound(r)
  /\ media' = [media EXCEPT ![run[r].fd.disk] = Found(r)]
  /\ Goto(r, "finish-verify")
  /\ UNCHANGED <<port, attached, mounts, parts, cache, orphans>>

FinishVerify(r) ==
  /\ At(r, "finish-verify")
  /\ TargetBound(r)
  /\ run' = [run EXCEPT ![r].pc = "close", ![r].status = Reported(r, "passed")]
  /\ Local

\* finishDeviceExecution: a failed close takes a success back, keeps a failure,
\* and validates the report once more.
ClosedStatus(r, closed) ==
  CASE closed -> run[r].status
    [] ~closed /\ run[r].status = "lost" -> "lost"
    [] ~closed /\ run[r].status # "lost" ->
         Reported(r, IF run[r].status = "passed" THEN "failed" ELSE run[r].status)

\* Mutant: the target is neither unlocked nor closed.
CloseLeaks(r, closed) ==
  /\ At(r, "close")
  /\ run' = [run EXCEPT ![r].pc = "ended", ![r].status = ClosedStatus(r, closed)]
  /\ Local

\* linuxBackend.Close.
Close(r, closed) ==
  /\ At(r, "close")
  /\ run' = [run EXCEPT ![r] = Ended(r, ClosedStatus(r, closed))]
  /\ Local

-----------------------------------------------------------------------------
(* Around the runs *)

\* SIGINT, SIGTERM or the GUI's cancellation marker.
Cancel(r) ==
  /\ run[r].pc \in Executing
  /\ ~run[r].cancelled
  /\ run' = [run EXCEPT ![r].cancelled = TRUE]
  /\ Local

\* SIGKILL, or a signal before the context exists.  The kernel drops descriptor
\* and flock; a utility that is at work goes on.
Kill(r) ==
  /\ run[r].pc \in Preparing \cup Executing \cup {"close"}
  /\ run' = [run EXCEPT ![r] = Ended(r, "killed")]
  /\ orphans' = orphans \cup
       (IF run[r].pc \in Utilities
          THEN {[utility |-> run[r].pc, on |-> run[r].fd, layout |-> Layout[r]]}
          ELSE {})
  /\ UNCHANGED disk

\* An orphaned utility finishes, or fails as its disk is gone.
OrphanEnds(o) ==
  /\ orphans' = orphans \ {o}
  /\ IF port = o.on
       THEN /\ cache' = [cache EXCEPT ![port.disk] = Effect(o.utility, @, o.layout)]
            /\ run' = [r \in Runs |->
                        [run[r] EXCEPT !.disturbed = @ \/ run[r].fd = o.on]]
       ELSE UNCHANGED <<cache, run>>
  /\ UNCHANGED <<port, attached, mounts, parts, media>>

\* The wall clock is set back behind the start of the run.
SetClock(r) ==
  /\ run[r].pc \in Executing \cup {"close"}
  /\ ~run[r].clockBack
  /\ run' = [run EXCEPT ![r].clockBack = TRUE]
  /\ Local

\* A disk appears; for a run between its identity check and its open this is
\* the moment that matters.
AttachDisk(d) ==
  /\ Attach(d, Open)
  /\ run' = [r \in Runs |->
              [run[r] EXCEPT !.swapped = @ \/ run[r].pc \in {"unmount", "settle", "open"}]]
  /\ UNCHANGED orphans

Init ==
  /\ DiskInit
  /\ run = [r \in Runs |-> Fresh]
  /\ orphans = {}

Prepare(r) ==
  \/ \E noUnmount, byIdentity \in BOOLEAN : Start(r, noUnmount, byIdentity)
  \/ Discover(r) \/ DryRun(r) \/ Confirm(r) \/ Revalidate(r)
  \/ UnmountOld(r, "unmount", "settle") \/ Settle(r) \/ Refuse(r)

Execute(r) ==
  \/ OpenTarget(r) \/ AcquireFlock(r) \/ VerifyTarget(r) \/ Rebind(r)
  \/ UnmountOld(r, "unmount-again", "final") \/ FinalCheck(r)
  \/ BeginErase(r)
  \/ RunUtility(r, "wipefs", "sfdisk") \/ RunUtility(r, "sfdisk", "publish")
  \/ PublishTable(r) \/ BindPartition(r)
  \/ CheckFormat(r) \/ RunUtility(r, "mkfs", "flush")
  \/ FlushPartition(r) \/ Readback(r) \/ FinishSync(r) \/ FinishVerify(r)
  \/ Fail(r) \/ UtilityFails(r)
  \/ \E closed \in BOOLEAN : Close(r, closed)

Environment ==
  \/ \E r \in Runs : Cancel(r) \/ Kill(r) \/ SetClock(r)
  \/ \E o \in orphans : OrphanEnds(o)
  \/ \E d \in Disks : AttachDisk(d)
  \/ (Unplug \/ Rescan \/ \E root \in MountRoots : Mount(root) \/ Unmount(root))
       /\ UNCHANGED <<run, orphans>>

Next == (\E r \in Runs : Prepare(r) \/ Execute(r)) \/ Environment

Spec == Init /\ [][Next]_vars

-----------------------------------------------------------------------------
(* Properties *)

Stages == {"start", "close", "ended"} \cup Preparing \cup Executing
Statuses == {"none", "refused", "planned", "passed", "failed", "cancelled", "lost", "killed"}

RunStates ==
  [pc : Stages, noUnmount : BOOLEAN, identity : Attachments \cup {None},
   listed : SUBSET MountRoots, fd : Attachments \cup {None}, locked : BOOLEAN,
   bound : BOOLEAN, cancelled : BOOLEAN, clockBack : BOOLEAN, mediaChanged : BOOLEAN,
   status : Statuses, changed : SUBSET Attachments, swapped : BOOLEAN,
   disturbed : BOOLEAN]

\* Every variable has its shape; a run that ended holds nothing; and while a
\* descriptor is open the path names its disk or nothing.
TypeOK ==
  /\ DiskTypeOK
  /\ run \in [Runs -> RunStates]
  /\ orphans \in SUBSET [utility : Utilities, on : Attachments, layout : Layouts]
  /\ \A r \in Runs : At(r, "ended") => run[r].fd = None
  /\ \A r \in Open : port \in {None, run[r].fd}

\* A run only changes the disk whose identity was reviewed and confirmed.  The
\* one way around it is a disk that takes the reviewed one's place after the
\* last identity check and before the open, and even then it has the reviewed
\* capacity.
TargetReviewed ==
  \A r \in Runs : \A a \in run[r].changed :
    /\ ~run[r].swapped => a = run[r].identity
    /\ Size[a.disk] = PlanSize(r)

\* When a run reports success, the table and the filesystem it was asked for
\* are on the media, not just in a cache, whatever other runs did; only a
\* utility that outlived a killed run can have written behind its back.
PassedDurable ==
  [][\A r \in Runs :
       At(r, "close") /\ At(r, "ended")' /\ run'[r].status = "passed"
         /\ ~run[r].disturbed =>
         media[run[r].fd.disk] = [table |-> Layout[r], fs |-> Layout[r]]]_vars

\* A report that says the media are unchanged is true, and a run that changed
\* a disk and was not killed returns a report, unless the clock was set back.
ChangeReported ==
  \A r \in Runs : At(r, "ended") /\ run[r].changed # {} =>
    \/ run[r].status \in {"passed", "failed", "cancelled"} /\ run[r].mediaChanged
    \/ run[r].status \in {"killed", "lost"}

\* A run never takes down a mount outside the removable-media roots, however
\* the mounts change between its listing and its umount.
SystemMountKept ==
  [][\A r \in Runs :
       run'[r].pc # run[r].pc /\ "system" \in mounts => "system" \in mounts']_vars
==============================================================================

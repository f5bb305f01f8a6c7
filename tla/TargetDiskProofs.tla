--------------------------- MODULE TargetDiskProofs ---------------------------
(***************************************************************************)
(* What holds of the two families of commands that the target disk is the  *)
(* common ground of.                                                       *)
(*                                                                         *)
(* The formatter, for any number of runs, disks, attachments and layouts:  *)
(* the inductive invariant is a predicate on the state of one run and the  *)
(* device path, what a run knows of the disk at each of its stages.        *)
(*                                                                         *)
(* The captures, for any number of disks, attachments, contents, edits and *)
(* steps of the others: the inductive invariant says what the image, its   *)
(* hash and the inventories stand for at each stage of a command, as long  *)
(* as nobody has written to the source.                                    *)
(***************************************************************************)
EXTENDS Formatter, Capture, TLAPS

-----------------------------------------------------------------------------
(* The formatter *)

\* Between the last identity check and the open nothing holds the disk.
Window == {"unmount", "settle", "open"}

\* Until the open a run has neither descriptor nor effect.  From the last
\* identity check to the open, the path names the reviewed disk or nothing
\* unless a disk was attached; from the open on, there is a descriptor and it holds its place.
Identified(x) ==
  /\ x.pc \in Preparing \cup {"start", "open"} => x.fd = None /\ x.changed = {}
  /\ x.pc = "ended" => x.fd = None
  /\ x.pc \in Executing \ {"open"} => x.fd # None
  /\ x.pc \in Window /\ ~x.swapped => port \in {None, x.identity}
  /\ x.fd # None => port \in {None, x.fd} /\ (~x.swapped => x.fd = x.identity)
  /\ \A a \in x.changed : /\ ~x.swapped => a = x.identity
                          /\ Size[a.disk] = Size[x.identity.disk]

\* A listing about to be unmounted passed the policy.
ListingChecked(x) == x.pc \in {"unmount", "unmount-again"} => "system" \notin x.listed

\* mediaChanged is set before anything can change, and every execution that
\* returns has decided on a status.
Erasing == {"wipefs", "sfdisk", "publish", "bind", "format", "mkfs", "flush",
            "readback", "finish", "finish-verify"}

Decided(x) ==
  /\ x.pc \in Erasing \/ x.changed # {} => x.mediaChanged
  /\ x.pc = "close" => x.status \in {"passed", "failed", "cancelled", "lost"}
  /\ x.pc = "ended" /\ x.changed # {} =>
       x.status \in {"passed", "failed", "cancelled", "lost", "killed"}

Safe(x) == Identified(x) /\ ListingChecked(x) /\ Decided(x)

OrphanStates == [utility : Utilities, on : Attachments, layout : Layouts]

IInv ==
  /\ DiskTypeOK
  /\ run \in [Runs -> RunStates]
  /\ orphans \in SUBSET OrphanStates
  /\ \A r \in Runs : Safe(run[r])

-----------------------------------------------------------------------------

\* The invariant implies what the runs of TLC check.
LEMMA Consequences == IInv => TypeOK /\ TargetReviewed /\ ChangeReported
<1> SUFFICES ASSUME IInv PROVE TypeOK /\ TargetReviewed /\ ChangeReported
  OBVIOUS
<1>1. TypeOK
  BY DEF IInv, TypeOK, OrphanStates, Safe, Identified, Open, At
<1>2. TargetReviewed
  BY DEF IInv, TargetReviewed, Safe, Identified, PlanSize
<1>3. ChangeReported
  BY DEF IInv, ChangeReported, Safe, Decided, At
<1> QED
  BY <1>1, <1>2, <1>3

\* It holds of runs that have not started.
LEMMA Initially == Init => IInv
<1> SUFFICES ASSUME Init PROVE IInv
  OBVIOUS
<1>1. Fresh \in RunStates /\ Safe(Fresh)
  BY DEF Fresh, RunStates, Stages, Statuses, Safe, Identified, ListingChecked, Decided,
         Preparing, Executing, Window, Erasing
<1>2. \E d \in Disks : port = [disk |-> d, seq |-> 1]
  BY DEF Init, DiskInit
<1>3. 1 \in 1..MaxAttach
  BY AttachAssumption
<1>4. port \in Attachments
  BY <1>2, <1>3 DEF Attachments
<1>5. cache \in [Disks -> [table : Contents, fs : Contents]]
  BY DEF Init, DiskInit, Contents
<1>6. DiskTypeOK
  BY <1>3, <1>4, <1>5 DEF Init, DiskInit, DiskTypeOK
<1> QED
  BY <1>1, <1>6 DEF Init, IInv

\* A step of one run that leaves the device path alone only has to account for
\* that run's new state.
LEMMA OneRun ==
  ASSUME IInv, NEW r \in Runs, NEW x \in RunStates, run' = [run EXCEPT ![r] = x],
         UNCHANGED port, DiskTypeOK', Safe(x), orphans' \in SUBSET OrphanStates
  PROVE  IInv'
<1>1. run' \in [Runs -> RunStates]
  BY DEF IInv
<1>2. \A s \in Runs : Safe(run'[s])
  BY DEF IInv
<1>3. \A s \in Runs : Safe(run[s])'
  BY <1>2 DEF Safe, Identified, ListingChecked, Decided
<1> QED
  BY <1>1, <1>3 DEF IInv

\* The statuses a failure or a success is reported with.
LEMMA StatusesTyped ==
  ASSUME IInv, NEW r \in Runs
  PROVE  /\ FailureStatuses(r) \subseteq {"failed", "cancelled"}
         /\ \A status \in {"passed", "failed", "cancelled"} :
              Reported(r, status) \in {"passed", "failed", "cancelled", "lost"}
  BY DEF FailureStatuses, Reported

\* A run before its start.
LEMMA FreshTyped == Fresh \in RunStates /\ Fresh.fd = None
<1>1. "start" \in Stages /\ "none" \in Statuses
  BY DEF Stages, Statuses
<1>2. Fresh \in RunStates
  BY <1>1 DEF Fresh, RunStates
<1> QED
  BY <1>2 DEF Fresh

\* A run that ends keeps what it did and to which disk, and holds nothing.
LEMMA EndedSafe ==
  ASSUME IInv, NEW r \in Runs, NEW status \in Statuses,
         run[r].changed # {} => status \in {"passed", "failed", "cancelled", "lost", "killed"}
  PROVE  Ended(r, status) \in RunStates /\ Safe(Ended(r, status))
<1>1. run[r] \in RunStates /\ Safe(run[r])
  BY DEF IInv
<1>2. Fresh \in RunStates /\ Fresh.fd = None
  BY FreshTyped
<1> DEFINE e == Ended(r, status)
<1>3. e \in RunStates
  <2> DEFINE i == IF run[r].changed = {} THEN None ELSE run[r].identity
             f == [Fresh EXCEPT !.pc = "ended", !.status = status, !.changed = run[r].changed]
             g == [f EXCEPT !.mediaChanged = run[r].mediaChanged, !.swapped = run[r].swapped]
  <2>1. /\ run[r].changed \in SUBSET Attachments /\ run[r].mediaChanged \in BOOLEAN
        /\ run[r].swapped \in BOOLEAN /\ run[r].identity \in Attachments \cup {None}
    BY <1>1 DEF RunStates
  <2>2. f \in RunStates
    BY <1>2, <2>1 DEF RunStates, Stages
  <2> HIDE DEF f
  <2>3. g \in RunStates
    BY <2>1, <2>2 DEF RunStates
  <2> HIDE DEF g
  <2>4. [g EXCEPT !.identity = i] \in RunStates
    BY <2>1, <2>3 DEF RunStates
  <2> QED
    BY <2>4 DEF Ended, f, g
<1>4. /\ e.pc = "ended" /\ e.fd = None /\ e.status = status
      /\ e.changed = run[r].changed /\ e.swapped = run[r].swapped
      /\ e.mediaChanged = run[r].mediaChanged
      /\ e.changed # {} => e.identity = run[r].identity
  BY <1>2 DEF Ended, RunStates
<1> HIDE DEF e
<1>5. Identified(e)
  BY <1>1, <1>4 DEF Safe, Identified, Preparing, Executing, Window
<1>6. ListingChecked(e) /\ Decided(e)
  BY <1>1, <1>4 DEF Safe, ListingChecked, Decided, Erasing
<1> QED
  BY <1>3, <1>5, <1>6 DEF Safe, e

\* main.run up to the unmounting.
LEMMA PrepareSafe ==
  ASSUME IInv, NEW r \in Runs, Prepare(r)
  PROVE  IInv'
<1>1. run[r] \in RunStates /\ Safe(run[r])
  BY DEF IInv
<1>2. CASE \E noUnmount, byIdentity \in BOOLEAN : Start(r, noUnmount, byIdentity)
  <2>1. PICK noUnmount, byIdentity \in BOOLEAN : Start(r, noUnmount, byIdentity)
    BY <1>2
  <2> DEFINE x == [run[r] EXCEPT !.pc = "discover", !.noUnmount = noUnmount,
                                 !.identity = IF byIdentity THEN port ELSE None]
  <2>2. x \in RunStates
    BY <1>1, <2>1
       DEF IInv, DiskTypeOK, RunStates, Stages, Statuses, Preparing, Executing, Start
  <2>3. Safe(x)
    BY <1>1, <2>1
       DEF RunStates, Safe, Identified, ListingChecked, Decided, Preparing, Executing,
           Window, Erasing, Start, At
  <2>4. run' = [run EXCEPT ![r] = x]
    BY <2>1 DEF Start, Goto
  <2> HIDE DEF x
  <2> QED
    BY <2>1, <2>2, <2>3, <2>4, OneRun DEF Start, Local, disk, IInv, DiskTypeOK
<1>3. CASE Discover(r)
  <2> DEFINE x == [run[r] EXCEPT !.pc = "confirm", !.identity = port, !.listed = mounts]
  <2>1. x \in RunStates
    BY <1>1, <1>3
       DEF IInv, DiskTypeOK, RunStates, Stages, Statuses, Preparing, Executing,
           Discover, ValidateTarget
  <2>2. Safe(x)
    BY <1>1, <1>3
       DEF RunStates, Safe, Identified, ListingChecked, Decided, Preparing, Executing,
           Window, Erasing, Discover, At, ValidateTarget
  <2>3. run' = [run EXCEPT ![r] = x]
    BY <1>3 DEF Discover, Goto, ValidateTarget
  <2> HIDE DEF x
  <2> QED
    BY <1>3, <2>1, <2>2, <2>3, OneRun DEF Discover, Local, disk, IInv, DiskTypeOK
<1>4. CASE DryRun(r)
  <2>1. run[r].changed = {}
    BY <1>1, <1>4 DEF Safe, Identified, DryRun, At, Preparing
  <2>2. Ended(r, "planned") \in RunStates /\ Safe(Ended(r, "planned"))
    BY <2>1, EndedSafe DEF Statuses
  <2> QED
    BY <1>4, <2>2, OneRun DEF DryRun, Local, disk, IInv, DiskTypeOK
<1>5. CASE Confirm(r)
  <2> DEFINE x == [run[r] EXCEPT !.pc = "revalidate", !.listed = {}]
  <2>1. x \in RunStates
    BY <1>1, <1>5
       DEF IInv, DiskTypeOK, RunStates, Stages, Statuses, Preparing, Executing,
           Confirm
  <2>2. Safe(x)
    BY <1>1, <1>5
       DEF RunStates, Safe, Identified, ListingChecked, Decided, Preparing, Executing,
           Window, Erasing, Confirm, At
  <2>3. run' = [run EXCEPT ![r] = x]
    BY <1>5 DEF Confirm, Goto
  <2> HIDE DEF x
  <2> QED
    BY <1>5, <2>1, <2>2, <2>3, OneRun DEF Confirm, Local, disk, IInv, DiskTypeOK
<1>6. CASE Revalidate(r)
  <2> DEFINE x == [run[r] EXCEPT !.pc = "unmount", !.listed = mounts]
  <2>1. x \in RunStates
    BY <1>1, <1>6
       DEF IInv, DiskTypeOK, RunStates, Stages, Statuses, Preparing, Executing,
           Revalidate, ValidateTarget, SameIdentity
  <2>2. Safe(x)
    BY <1>1, <1>6
       DEF RunStates, Safe, Identified, ListingChecked, Decided, Preparing, Executing,
           Window, Erasing, Revalidate, At, ValidateTarget, SameIdentity
  <2>3. run' = [run EXCEPT ![r] = x]
    BY <1>6 DEF Revalidate, Goto, ValidateTarget, SameIdentity
  <2> HIDE DEF x
  <2> QED
    BY <1>6, <2>1, <2>2, <2>3, OneRun DEF Revalidate, Local, disk, IInv, DiskTypeOK
<1>7. CASE UnmountOld(r, "unmount", "settle")
  <2> DEFINE x == [run[r] EXCEPT !.pc = "settle", !.listed = {}]
  <2>1. x \in RunStates
    BY <1>1, <1>7
       DEF IInv, DiskTypeOK, RunStates, Stages, Statuses, Preparing, Executing,
           UnmountOld
  <2>2. Safe(x)
    BY <1>1, <1>7
       DEF RunStates, Safe, Identified, ListingChecked, Decided, Preparing, Executing,
           Window, Erasing, UnmountOld, At
  <2>3. run' = [run EXCEPT ![r] = x]
    BY <1>7 DEF UnmountOld, Goto
  <2> HIDE DEF x
  <2> QED
    BY <1>7, <2>1, <2>2, <2>3, OneRun
       DEF UnmountOld, UnmountListed, disk, IInv, DiskTypeOK
<1>8. CASE Settle(r)
  <2> DEFINE x == [run[r] EXCEPT !.pc = "open"]
  <2>1. x \in RunStates
    BY <1>1, <1>8
       DEF IInv, DiskTypeOK, RunStates, Stages, Statuses, Preparing, Executing, Settle
  <2>2. Safe(x)
    BY <1>1, <1>8
       DEF RunStates, Safe, Identified, ListingChecked, Decided, Preparing, Executing,
           Window, Erasing, Settle, At
  <2>3. run' = [run EXCEPT ![r] = x]
    BY <1>8 DEF Settle, Goto
  <2> HIDE DEF x
  <2> QED
    BY <1>8, <2>1, <2>2, <2>3, OneRun DEF Settle, Local, disk, IInv, DiskTypeOK
<1>9. CASE Refuse(r)
  <2>1. run[r].changed = {}
    BY <1>1, <1>9 DEF Safe, Identified, Refuse, At, Preparing
  <2>2. Ended(r, "refused") \in RunStates /\ Safe(Ended(r, "refused"))
    BY <2>1, EndedSafe DEF Statuses
  <2> QED
    BY <1>9, <2>2, OneRun DEF Refuse, Local, disk, IInv, DiskTypeOK
<1> QED
  BY <1>2, <1>3, <1>4, <1>5, <1>6, <1>7, <1>8, <1>9 DEF Prepare

\* linuxBackend.Prepare: open, lock and check again, then own up to the erase.
LEMMA ApproachSafe ==
  ASSUME IInv, NEW r \in Runs,
         \/ OpenTarget(r) \/ AcquireFlock(r) \/ VerifyTarget(r) \/ Rebind(r)
         \/ UnmountOld(r, "unmount-again", "final") \/ FinalCheck(r) \/ BeginErase(r)
  PROVE  IInv'
<1>1. run[r] \in RunStates /\ Safe(run[r])
  BY DEF IInv
<1>2. CASE OpenTarget(r)
  <2> DEFINE x == [run[r] EXCEPT !.pc = "flock", !.fd = port]
  <2>1. x \in RunStates
    BY <1>1, <1>2
       DEF IInv, DiskTypeOK, RunStates, Stages, Statuses, Preparing, Executing,
           OpenTarget
  <2>2. Safe(x)
    BY <1>1, <1>2
       DEF RunStates, Safe, Identified, ListingChecked, Decided, Preparing, Executing,
           Window, Erasing, OpenTarget, At
  <2>3. run' = [run EXCEPT ![r] = x]
    BY <1>2 DEF OpenTarget, Goto
  <2> HIDE DEF x
  <2> QED
    BY <1>2, <2>1, <2>2, <2>3, OneRun DEF OpenTarget, Local, disk, IInv, DiskTypeOK
<1>3. CASE AcquireFlock(r)
  <2> DEFINE x == [run[r] EXCEPT !.pc = "verify", !.locked = TRUE]
  <2>1. x \in RunStates
    BY <1>1, <1>3
       DEF IInv, DiskTypeOK, RunStates, Stages, Statuses, Preparing, Executing,
           AcquireFlock
  <2>2. Safe(x)
    BY <1>1, <1>3
       DEF RunStates, Safe, Identified, ListingChecked, Decided, Preparing, Executing,
           Window, Erasing, AcquireFlock, At
  <2>3. run' = [run EXCEPT ![r] = x]
    BY <1>3 DEF AcquireFlock, Goto
  <2> HIDE DEF x
  <2> QED
    BY <1>3, <2>1, <2>2, <2>3, OneRun DEF AcquireFlock, Local, disk, IInv, DiskTypeOK
<1>4. CASE VerifyTarget(r)
  <2> DEFINE x == [run[r] EXCEPT !.pc = "rebind"]
  <2>1. x \in RunStates
    BY <1>1, <1>4
       DEF IInv, DiskTypeOK, RunStates, Stages, Statuses, Preparing, Executing,
           VerifyTarget
  <2>2. Safe(x)
    BY <1>1, <1>4
       DEF RunStates, Safe, Identified, ListingChecked, Decided, Preparing, Executing,
           Window, Erasing, VerifyTarget, At
  <2>3. run' = [run EXCEPT ![r] = x]
    BY <1>4 DEF VerifyTarget, Goto
  <2> HIDE DEF x
  <2> QED
    BY <1>4, <2>1, <2>2, <2>3, OneRun DEF VerifyTarget, Local, disk, IInv, DiskTypeOK
<1>5. CASE Rebind(r)
  <2> DEFINE x == [run[r] EXCEPT !.pc = "unmount-again", !.listed = mounts]
  <2>1. x \in RunStates
    BY <1>1, <1>5
       DEF IInv, DiskTypeOK, RunStates, Stages, Statuses, Preparing, Executing, Rebind,
           ValidateTarget
  <2>2. Safe(x)
    BY <1>1, <1>5
       DEF RunStates, Safe, Identified, ListingChecked, Decided, Preparing, Executing,
           Window, Erasing, Rebind, At, ValidateTarget
  <2>3. run' = [run EXCEPT ![r] = x]
    BY <1>5 DEF Rebind, Goto, ValidateTarget
  <2> HIDE DEF x
  <2> QED
    BY <1>5, <2>1, <2>2, <2>3, OneRun DEF Rebind, Local, disk, IInv, DiskTypeOK
<1>6. CASE UnmountOld(r, "unmount-again", "final")
  <2> DEFINE x == [run[r] EXCEPT !.pc = "final", !.listed = {}]
  <2>1. x \in RunStates
    BY <1>1, <1>6
       DEF IInv, DiskTypeOK, RunStates, Stages, Statuses, Preparing, Executing,
           UnmountOld
  <2>2. Safe(x)
    BY <1>1, <1>6
       DEF RunStates, Safe, Identified, ListingChecked, Decided, Preparing, Executing,
           Window, Erasing, UnmountOld, At
  <2>3. run' = [run EXCEPT ![r] = x]
    BY <1>6 DEF UnmountOld, Goto
  <2> HIDE DEF x
  <2> QED
    BY <1>6, <2>1, <2>2, <2>3, OneRun
       DEF UnmountOld, UnmountListed, disk, IInv, DiskTypeOK
<1>7. CASE FinalCheck(r)
  <2> DEFINE x == [run[r] EXCEPT !.pc = "erase"]
  <2>1. x \in RunStates
    BY <1>1, <1>7
       DEF IInv, DiskTypeOK, RunStates, Stages, Statuses, Preparing, Executing,
           FinalCheck
  <2>2. Safe(x)
    BY <1>1, <1>7
       DEF RunStates, Safe, Identified, ListingChecked, Decided, Preparing, Executing,
           Window, Erasing, FinalCheck, At
  <2>3. run' = [run EXCEPT ![r] = x]
    BY <1>7 DEF FinalCheck, Goto
  <2> HIDE DEF x
  <2> QED
    BY <1>7, <2>1, <2>2, <2>3, OneRun DEF FinalCheck, Local, disk, IInv, DiskTypeOK
<1>8. CASE BeginErase(r)
  <2> DEFINE x == [run[r] EXCEPT !.pc = "wipefs", !.mediaChanged = TRUE]
  <2>1. x \in RunStates
    BY <1>1, <1>8
       DEF IInv, DiskTypeOK, RunStates, Stages, Statuses, Preparing, Executing,
           BeginErase
  <2>2. Safe(x)
    BY <1>1, <1>8
       DEF RunStates, Safe, Identified, ListingChecked, Decided, Preparing, Executing,
           Window, Erasing, BeginErase, At
  <2>3. run' = [run EXCEPT ![r] = x]
    BY <1>8 DEF BeginErase, Goto
  <2> HIDE DEF x
  <2> QED
    BY <1>8, <2>1, <2>2, <2>3, OneRun DEF BeginErase, Local, disk, IInv, DiskTypeOK
<1> QED
  BY <1>2, <1>3, <1>4, <1>5, <1>6, <1>7, <1>8

DiskContents == [table : Contents, fs : Contents]

\* What a utility leaves behind is a state of the disk.
LEMMA EffectTyped ==
  ASSUME NEW found \in DiskContents, NEW u \in Utilities, NEW layout \in Layouts
  PROVE  Effect(u, found, layout) \in DiskContents /\ HalfEffect(u, found) \in DiskContents
<1>1. layout \in Contents /\ "none" \in Contents /\ "torn" \in Contents
  BY DEF Contents
<1>2. found.table \in Contents /\ found.fs \in Contents
  BY DEF DiskContents
<1>3. CASE u = "wipefs"
  BY <1>1, <1>2, <1>3 DEF Effect, HalfEffect, DiskContents
<1>4. CASE u = "sfdisk"
  BY <1>1, <1>2, <1>4 DEF Effect, HalfEffect, DiskContents
<1>5. CASE u = "mkfs"
  BY <1>1, <1>2, <1>5 DEF Effect, HalfEffect, DiskContents
<1> QED
  BY <1>3, <1>4, <1>5 DEF Utilities

\* A target that is still bound has the reviewed capacity, and is the reviewed
\* disk unless it was swapped before the open.
LEMMA Bound ==
  ASSUME IInv, NEW r \in Runs, TargetBound(r)
  PROVE  /\ run[r].fd \in Attachments
         /\ run[r].fd.disk \in Disks
         /\ Found(r) \in DiskContents
         /\ Size[run[r].fd.disk] = Size[run[r].identity.disk]
         /\ ~run[r].swapped => run[r].fd = run[r].identity
<1>1. run[r] \in RunStates /\ Safe(run[r])
  BY DEF IInv
<1>2. run[r].fd \in Attachments
  BY <1>1 DEF RunStates, TargetBound, VerifyOpenDevice
<1>3. run[r].fd.disk \in Disks
  BY <1>2 DEF Attachments
<1>4. Found(r) \in DiskContents
  BY <1>3 DEF Found, DiskContents, IInv, DiskTypeOK
<1> QED
  BY <1>1, <1>2, <1>3, <1>4, NoneAssumption
     DEF Safe, Identified, TargetBound, VerifyOpenDevice, PlanSize

\* The disk of a bound target changes to other contents, in the cache or on the
\* media, and nothing else about it does.
LEMMA ChangesTyped ==
  ASSUME IInv, NEW r \in Runs, TargetBound(r), NEW found \in DiskContents,
         UNCHANGED <<port, attached, mounts>>, parts' \in BOOLEAN,
         \/ cache' = [cache EXCEPT ![run[r].fd.disk] = found] /\ UNCHANGED media
         \/ media' = [media EXCEPT ![run[r].fd.disk] = found] /\ UNCHANGED cache
  PROVE  DiskTypeOK'
  BY Bound DEF IInv, DiskTypeOK, DiskContents

\* A utility at work: complete, or failing half-way.
LEMMA UtilitySafe ==
  ASSUME IInv, NEW r \in Runs,
         \/ RunUtility(r, "wipefs", "sfdisk") \/ RunUtility(r, "sfdisk", "publish")
         \/ RunUtility(r, "mkfs", "flush") \/ UtilityFails(r)
  PROVE  IInv'
<1>1. run[r] \in RunStates /\ Safe(run[r])
  BY DEF IInv
<1>2. TargetBound(r) /\ run[r].pc \in Utilities
  BY DEF RunUtility, UtilityFails, At, Utilities
<1>3. Layout[r] \in Layouts
  BY LayoutOfRun
<1>4. PICK found \in DiskContents : Write(r, found)
  BY <1>2, <1>3, Bound, EffectTyped DEF RunUtility, UtilityFails, At, Utilities
<1>5. DiskTypeOK' /\ UNCHANGED port /\ orphans' \in SUBSET OrphanStates
  <2>1. UNCHANGED <<port, attached, mounts>> /\ parts' \in BOOLEAN /\ UNCHANGED orphans
    BY <1>4 DEF Write, IInv, DiskTypeOK
  <2> QED
    BY <1>2, <1>4, <2>1, ChangesTyped DEF Write, IInv
<1>6. PICK x \in RunStates :
        /\ run' = [run EXCEPT ![r] = x]
        /\ x.fd = run[r].fd /\ x.swapped = run[r].swapped /\ x.identity = run[r].identity
        /\ x.changed = run[r].changed \cup {run[r].fd}
        /\ x.mediaChanged = run[r].mediaChanged
        /\ \/ x.pc \in {"sfdisk", "publish", "flush"}
           \/ x.pc = "close" /\ x.status \in {"failed", "cancelled", "lost", "passed"}
  <2>1. CASE UtilityFails(r)
    <3>1. PICK status \in FailureStatuses(r) :
            run' = [run EXCEPT ![r].pc = "close", ![r].changed = @ \cup {run[r].fd},
                               ![r].status = Reported(r, status)]
      BY <2>1 DEF UtilityFails
    <3> DEFINE s == Reported(r, status)
               x == [run[r] EXCEPT !.pc = "close", !.changed = @ \cup {run[r].fd}, !.status = s]
    <3>2. s \in {"passed", "failed", "cancelled", "lost"} /\ s \in Statuses
      BY <3>1, StatusesTyped DEF Statuses
    <3>3. run' = [run EXCEPT ![r] = x]
      BY <3>1
    <3> HIDE DEF s
    <3>4. x \in RunStates
      BY <1>1, <1>2, <3>2, Bound DEF RunStates, Stages
    <3>5. /\ x.fd = run[r].fd /\ x.swapped = run[r].swapped /\ x.identity = run[r].identity
          /\ x.changed = run[r].changed \cup {run[r].fd} /\ x.pc = "close" /\ x.status = s
          /\ x.mediaChanged = run[r].mediaChanged
      BY <1>1 DEF RunStates
    <3> HIDE DEF x
    <3> QED
      BY <3>2, <3>3, <3>4, <3>5
  <2>2. CASE ~UtilityFails(r)
    <3>1. PICK to \in {"sfdisk", "publish", "flush"} :
            run' = [run EXCEPT ![r].pc = to, ![r].changed = @ \cup {run[r].fd}]
      BY <2>2 DEF RunUtility
    <3> DEFINE x == [run[r] EXCEPT !.pc = to, !.changed = @ \cup {run[r].fd}]
    <3>2. run' = [run EXCEPT ![r] = x]
      BY <3>1
    <3>3. x \in RunStates
      BY <1>1, <1>2, Bound DEF RunStates, Stages, Executing
    <3>4. /\ x.fd = run[r].fd /\ x.swapped = run[r].swapped /\ x.identity = run[r].identity
          /\ x.changed = run[r].changed \cup {run[r].fd} /\ x.pc = to
          /\ x.mediaChanged = run[r].mediaChanged
      BY <1>1 DEF RunStates
    <3> HIDE DEF x
    <3> QED
      BY <3>2, <3>3, <3>4
  <2> QED
    BY <2>1, <2>2
<1>7. Identified(x)
  BY <1>1, <1>2, <1>6, Bound
     DEF Safe, Identified, Preparing, Executing, Window, TargetBound, VerifyOpenDevice
<1>8. ListingChecked(x) /\ Decided(x)
  BY <1>1, <1>2, <1>6 DEF Safe, ListingChecked, Decided, Erasing, Utilities
<1> QED
  BY <1>5, <1>6, <1>7, <1>8, OneRun DEF Safe

\* The checks and flushes after a utility, up to the decision that the run passed.
LEMMA PublishSafe ==
  ASSUME IInv, NEW r \in Runs,
         \/ PublishTable(r) \/ BindPartition(r) \/ CheckFormat(r) \/ FlushPartition(r)
         \/ Readback(r) \/ FinishSync(r) \/ FinishVerify(r)
  PROVE  IInv'
<1>1. run[r] \in RunStates /\ Safe(run[r])
  BY DEF IInv
<1>2. CASE PublishTable(r)
  <2> DEFINE x == [run[r] EXCEPT !.pc = "bind"]
             found == Found(r)
  <2>1. x \in RunStates
    BY <1>1 DEF RunStates, Stages, Executing
  <2>2. Safe(x)
    BY <1>1, <1>2
       DEF RunStates, Safe, Identified, ListingChecked, Decided, Preparing, Executing,
           Window, Erasing, PublishTable, At
  <2>3. run' = [run EXCEPT ![r] = x]
    BY <1>2 DEF PublishTable, Goto
  <2>4. found \in DiskContents
    BY <1>2, Bound DEF PublishTable, DiskContents, IInv, DiskTypeOK
  <2>5. media' = [media EXCEPT ![run[r].fd.disk] = found]
    BY <1>2 DEF PublishTable
  <2>6. UNCHANGED <<port, attached, mounts, cache, orphans>> /\ parts' \in BOOLEAN
    BY <1>2 DEF PublishTable, IInv, DiskTypeOK
  <2> HIDE DEF x, found
  <2>7. DiskTypeOK'
    BY <1>2, <2>4, <2>5, <2>6, ChangesTyped DEF PublishTable
  <2> QED
    BY <2>1, <2>2, <2>3, <2>6, <2>7, OneRun DEF IInv
<1>3. CASE BindPartition(r)
  <2> DEFINE x == [run[r] EXCEPT !.pc = "format", !.bound = TRUE]
  <2>1. x \in RunStates
    BY <1>1, <1>3
       DEF IInv, DiskTypeOK, RunStates, Stages, Statuses, Preparing, Executing,
           BindPartition
  <2>2. Safe(x)
    BY <1>1, <1>3
       DEF RunStates, Safe, Identified, ListingChecked, Decided, Preparing, Executing,
           Window, Erasing, BindPartition, At
  <2>3. run' = [run EXCEPT ![r] = x]
    BY <1>3 DEF BindPartition, Goto
  <2> HIDE DEF x
  <2> QED
    BY <1>3, <2>1, <2>2, <2>3, OneRun DEF BindPartition, Local, disk, IInv, DiskTypeOK
<1>4. CASE CheckFormat(r)
  <2> DEFINE x == [run[r] EXCEPT !.pc = "mkfs"]
  <2>1. x \in RunStates
    BY <1>1, <1>4
       DEF IInv, DiskTypeOK, RunStates, Stages, Statuses, Preparing, Executing,
           CheckFormat
  <2>2. Safe(x)
    BY <1>1, <1>4
       DEF RunStates, Safe, Identified, ListingChecked, Decided, Preparing, Executing,
           Window, Erasing, CheckFormat, At
  <2>3. run' = [run EXCEPT ![r] = x]
    BY <1>4 DEF CheckFormat, Goto
  <2> HIDE DEF x
  <2> QED
    BY <1>4, <2>1, <2>2, <2>3, OneRun DEF CheckFormat, Local, disk, IInv, DiskTypeOK
<1>5. CASE FlushPartition(r)
  <2> DEFINE x == [run[r] EXCEPT !.pc = "readback"]
             found == [media[run[r].fd.disk] EXCEPT !.fs = Found(r).fs]
  <2>1. x \in RunStates
    BY <1>1 DEF RunStates, Stages, Executing
  <2>2. Safe(x)
    BY <1>1, <1>5
       DEF RunStates, Safe, Identified, ListingChecked, Decided, Preparing, Executing,
           Window, Erasing, FlushPartition, At
  <2>3. run' = [run EXCEPT ![r] = x]
    BY <1>5 DEF FlushPartition, Goto
  <2>4. found \in DiskContents
    BY <1>5, Bound DEF FlushPartition, DiskContents, IInv, DiskTypeOK
  <2>5. media' = [media EXCEPT ![run[r].fd.disk] = found]
    BY <1>5 DEF FlushPartition
  <2>6. UNCHANGED <<port, attached, mounts, cache, orphans>> /\ parts' \in BOOLEAN
    BY <1>5 DEF FlushPartition, IInv, DiskTypeOK
  <2> HIDE DEF x, found
  <2>7. DiskTypeOK'
    BY <1>5, <2>4, <2>5, <2>6, ChangesTyped DEF FlushPartition
  <2> QED
    BY <2>1, <2>2, <2>3, <2>6, <2>7, OneRun DEF IInv
<1>6. CASE Readback(r)
  <2> DEFINE x == [run[r] EXCEPT !.pc = "finish"]
  <2>1. x \in RunStates
    BY <1>1, <1>6
       DEF IInv, DiskTypeOK, RunStates, Stages, Statuses, Preparing, Executing,
           Readback
  <2>2. Safe(x)
    BY <1>1, <1>6
       DEF RunStates, Safe, Identified, ListingChecked, Decided, Preparing, Executing,
           Window, Erasing, Readback, At
  <2>3. run' = [run EXCEPT ![r] = x]
    BY <1>6 DEF Readback, Goto
  <2> HIDE DEF x
  <2> QED
    BY <1>6, <2>1, <2>2, <2>3, OneRun DEF Readback, Local, disk, IInv, DiskTypeOK
<1>7. CASE FinishSync(r)
  <2> DEFINE x == [run[r] EXCEPT !.pc = "finish-verify"]
             found == Found(r)
  <2>1. x \in RunStates
    BY <1>1 DEF RunStates, Stages, Executing
  <2>2. Safe(x)
    BY <1>1, <1>7
       DEF RunStates, Safe, Identified, ListingChecked, Decided, Preparing, Executing,
           Window, Erasing, FinishSync, At
  <2>3. run' = [run EXCEPT ![r] = x]
    BY <1>7 DEF FinishSync, Goto
  <2>4. found \in DiskContents
    BY <1>7, Bound DEF FinishSync, DiskContents, IInv, DiskTypeOK
  <2>5. media' = [media EXCEPT ![run[r].fd.disk] = found]
    BY <1>7 DEF FinishSync
  <2>6. UNCHANGED <<port, attached, mounts, cache, orphans>> /\ parts' \in BOOLEAN
    BY <1>7 DEF FinishSync, IInv, DiskTypeOK
  <2> HIDE DEF x, found
  <2>7. DiskTypeOK'
    BY <1>7, <2>4, <2>5, <2>6, ChangesTyped DEF FinishSync
  <2> QED
    BY <2>1, <2>2, <2>3, <2>6, <2>7, OneRun DEF IInv
<1>8. CASE FinishVerify(r)
  <2> DEFINE s == Reported(r, "passed")
             x == [run[r] EXCEPT !.pc = "close", !.status = s]
  <2>1. s \in {"passed", "failed", "cancelled", "lost"} /\ s \in Statuses
    BY StatusesTyped DEF Statuses
  <2>2. run' = [run EXCEPT ![r] = x]
    BY <1>8 DEF FinishVerify
  <2> HIDE DEF s
  <2>3. x \in RunStates
    BY <1>1, <2>1 DEF RunStates, Stages
  <2>4. Safe(x)
    BY <1>1, <1>8, <2>1
       DEF RunStates, Safe, Identified, ListingChecked, Decided, Preparing,
           Executing, Window, Erasing, FinishVerify, At
  <2> HIDE DEF x
  <2> QED
    BY <1>8, <2>2, <2>3, <2>4, OneRun DEF FinishVerify, Local, disk, IInv, DiskTypeOK
<1> QED
  BY <1>2, <1>3, <1>4, <1>5, <1>6, <1>7, <1>8

\* A run that fails has decided on a status, and one that closes keeps to it.
LEMMA ReturnSafe ==
  ASSUME IInv, NEW r \in Runs, Fail(r) \/ \E closed \in BOOLEAN : Close(r, closed)
  PROVE  IInv'
<1>1. run[r] \in RunStates /\ Safe(run[r])
  BY DEF IInv
<1>2. CASE Fail(r)
  <2>1. PICK status \in FailureStatuses(r) :
          run' = [run EXCEPT ![r].pc = "close", ![r].status = Reported(r, status)]
    BY <1>2 DEF Fail
  <2> DEFINE s == Reported(r, status)
             x == [run[r] EXCEPT !.pc = "close", !.status = s]
  <2>2. s \in {"passed", "failed", "cancelled", "lost"} /\ s \in Statuses
    BY StatusesTyped DEF Statuses
  <2>3. run' = [run EXCEPT ![r] = x]
    BY <2>1
  <2> HIDE DEF s
  <2>4. x \in RunStates
    BY <1>1, <2>2 DEF RunStates, Stages
  <2>5. Safe(x)
    BY <1>1, <1>2, <2>2
       DEF RunStates, Safe, Identified, ListingChecked, Decided, Preparing,
           Executing, Window, Erasing, Fail
  <2> HIDE DEF x
  <2> QED
    BY <1>2, <2>3, <2>4, <2>5, OneRun DEF Fail, Local, disk, IInv, DiskTypeOK
<1>3. CASE \E closed \in BOOLEAN : Close(r, closed)
  <2>1. PICK closed \in BOOLEAN : Close(r, closed)
    BY <1>3
  <2> DEFINE s == ClosedStatus(r, closed)
  <2>2. run[r].status \in {"passed", "failed", "cancelled", "lost"}
    BY <1>1, <2>1 DEF Safe, Decided, Close, At
  <2>3. s \in {"passed", "failed", "cancelled", "lost"} /\ s \in Statuses
    BY <2>2 DEF ClosedStatus, Reported, Statuses
  <2>4. run' = [run EXCEPT ![r] = Ended(r, s)]
    BY <2>1 DEF Close
  <2> HIDE DEF s
  <2>5. Ended(r, s) \in RunStates /\ Safe(Ended(r, s))
    BY <2>3, EndedSafe
  <2> QED
    BY <2>1, <2>4, <2>5, OneRun DEF Close, Local, disk, IInv, DiskTypeOK
<1> QED
  BY <1>2, <1>3

\* Cancellation, kills and the clock.
LEMMA InterruptSafe ==
  ASSUME IInv, NEW r \in Runs, Cancel(r) \/ Kill(r) \/ SetClock(r)
  PROVE  IInv'
<1>1. run[r] \in RunStates /\ Safe(run[r])
  BY DEF IInv
<1>2. CASE Cancel(r)
  <2> DEFINE x == [run[r] EXCEPT !.cancelled = TRUE]
  <2>1. x \in RunStates
    BY <1>1 DEF RunStates
  <2>2. Safe(x)
    BY <1>1 DEF RunStates, Safe, Identified, ListingChecked, Decided
  <2>3. run' = [run EXCEPT ![r] = x]
    BY <1>2 DEF Cancel
  <2> HIDE DEF x
  <2> QED
    BY <1>2, <2>1, <2>2, <2>3, OneRun DEF Cancel, Local, disk, IInv, DiskTypeOK
<1>3. CASE SetClock(r)
  <2> DEFINE x == [run[r] EXCEPT !.clockBack = TRUE]
  <2>1. x \in RunStates
    BY <1>1 DEF RunStates
  <2>2. Safe(x)
    BY <1>1 DEF RunStates, Safe, Identified, ListingChecked, Decided
  <2>3. run' = [run EXCEPT ![r] = x]
    BY <1>3 DEF SetClock
  <2> HIDE DEF x
  <2> QED
    BY <1>3, <2>1, <2>2, <2>3, OneRun DEF SetClock, Local, disk, IInv, DiskTypeOK
<1>4. CASE Kill(r)
  <2>1. Ended(r, "killed") \in RunStates /\ Safe(Ended(r, "killed"))
    BY EndedSafe DEF Statuses
  <2>2. Layout[r] \in Layouts
    BY LayoutOfRun
  <2>3. run[r].pc \in Utilities => run[r].fd \in Attachments
    BY <1>1 DEF RunStates, Safe, Identified, Executing, Utilities
  <2>4. orphans' \in SUBSET OrphanStates
    BY <1>4, <2>2, <2>3 DEF Kill, IInv, OrphanStates
  <2>5. UNCHANGED port /\ DiskTypeOK'
    BY <1>4 DEF Kill, disk, IInv, DiskTypeOK
  <2>6. run' = [run EXCEPT ![r] = Ended(r, "killed")]
    BY <1>4 DEF Kill
  <2> QED
    BY <2>1, <2>4, <2>5, <2>6, OneRun
<1> QED
  BY <1>2, <1>3, <1>4

\* A utility that outlived its run writes to a disk; no run's descriptor moves.
LEMMA OrphanSafe ==
  ASSUME IInv, NEW o \in orphans, OrphanEnds(o)
  PROVE  IInv'
<1>1. o \in OrphanStates /\ orphans' \in SUBSET OrphanStates
  BY DEF IInv, OrphanEnds
<1>2. UNCHANGED <<port, attached, mounts, parts, media>>
  BY DEF OrphanEnds
<1>3. CASE port = o.on
  <2>1. /\ o.on \in Attachments /\ o.utility \in Utilities /\ o.layout \in Layouts
        /\ o.on.disk \in Disks
    BY <1>1 DEF OrphanStates, Attachments
  <2>2. Effect(o.utility, cache[port.disk], o.layout) \in DiskContents
    BY <1>3, <2>1, EffectTyped DEF IInv, DiskTypeOK, DiskContents
  <2>3. cache' = [cache EXCEPT ![port.disk] = Effect(o.utility, cache[port.disk], o.layout)]
    BY <1>3 DEF OrphanEnds
  <2>4. cache' \in [Disks -> DiskContents]
    BY <1>3, <2>1, <2>2, <2>3 DEF IInv, DiskTypeOK, DiskContents
  <2>5. DiskTypeOK'
    BY <1>2, <2>4 DEF IInv, DiskTypeOK, DiskContents
  <2> DEFINE x(r) == [run[r] EXCEPT !.disturbed = @ \/ run[r].fd = o.on]
  <2>6. run' = [r \in Runs |-> x(r)]
    BY <1>3 DEF OrphanEnds
  <2>7. ASSUME NEW r \in Runs PROVE x(r) \in RunStates /\ Safe(x(r))
    <3>1. run[r] \in RunStates /\ Safe(run[r])
      BY DEF IInv
    <3>2. x(r) \in RunStates
      BY <3>1 DEF RunStates
    <3>3. Safe(x(r))
      BY <3>1 DEF RunStates, Safe, Identified, ListingChecked, Decided
    <3> QED
      BY <3>2, <3>3
  <2> HIDE DEF x
  <2>8. \A r \in Runs : Safe(run'[r])
    BY <2>6, <2>7
  <2>9. \A r \in Runs : Safe(run[r])'
    BY <1>2, <2>8 DEF Safe, Identified, ListingChecked, Decided
  <2> QED
    BY <1>1, <2>5, <2>6, <2>7, <2>9 DEF IInv
<1>4. CASE port # o.on
  <2>1. UNCHANGED <<cache, run>>
    BY <1>4 DEF OrphanEnds
  <2> QED
    BY <1>1, <1>2, <2>1 DEF IInv, DiskTypeOK, Safe, Identified, ListingChecked, Decided
<1> QED
  BY <1>3, <1>4

\* A disk appears only where no descriptor is open, and every run between its
\* identity check and its open is then marked.
LEMMA AttachSafe ==
  ASSUME IInv, NEW d \in Disks, AttachDisk(d)
  PROVE  IInv'
<1>1. /\ Open = {} /\ UNCHANGED <<mounts, media, orphans>>
      /\ attached < MaxAttach /\ attached' = attached + 1
      /\ port' = [disk |-> d, seq |-> attached + 1]
      /\ parts' = (media[d].table \in Layouts)
      /\ cache' = [cache EXCEPT ![d] = media[d]]
  BY DEF AttachDisk, Attach
<1>2. attached' \in 1..MaxAttach
  BY <1>1, AttachAssumption DEF IInv, DiskTypeOK
<1>3. port' \in Attachments
  BY <1>1, <1>2 DEF Attachments
<1>4. cache' \in [Disks -> [table : Contents, fs : Contents]]
  BY <1>1 DEF IInv, DiskTypeOK
<1>5. DiskTypeOK'
  BY <1>1, <1>2, <1>3, <1>4 DEF IInv, DiskTypeOK
<1> DEFINE x(r) == [run[r] EXCEPT !.swapped = @ \/ run[r].pc \in {"unmount", "settle", "open"}]
<1>6. run' = [r \in Runs |-> x(r)]
  BY DEF AttachDisk
<1>7. ASSUME NEW r \in Runs
      PROVE  /\ x(r) \in RunStates /\ x(r).fd = None /\ run[r].fd = None
             /\ x(r).pc \in Window => x(r).swapped
             /\ ListingChecked(x(r)) /\ Decided(x(r))
             /\ x(r).pc = run[r].pc /\ x(r).changed = run[r].changed
             /\ x(r).identity = run[r].identity
             /\ ~x(r).swapped => ~run[r].swapped
  <2>1. run[r] \in RunStates /\ Safe(run[r])
    BY DEF IInv
  <2>2. x(r) \in RunStates
    BY <2>1 DEF RunStates
  <2>3. run[r].fd = None
    BY <1>1 DEF Open
  <2>4. /\ x(r).fd = None /\ x(r).pc = run[r].pc /\ x(r).changed = run[r].changed
        /\ x(r).identity = run[r].identity /\ x(r).listed = run[r].listed
        /\ x(r).mediaChanged = run[r].mediaChanged /\ x(r).status = run[r].status
    BY <2>1, <2>3 DEF RunStates
  <2>5. /\ x(r).pc \in Window => x(r).swapped
        /\ ~x(r).swapped => ~run[r].swapped
    BY <2>1 DEF RunStates, Window
  <2> HIDE DEF x
  <2>6. ListingChecked(x(r)) /\ Decided(x(r))
    BY <2>1, <2>4 DEF Safe, ListingChecked, Decided
  <2> QED
    BY <2>2, <2>3, <2>4, <2>5, <2>6
<1> HIDE DEF x
<1>8. ASSUME NEW r \in Runs PROVE Safe(run[r])'
  <2>1. run[r]' = x(r)
    BY <1>6
  <2>2. Safe(run[r])
    BY DEF IInv
  <2>3. Identified(run[r])'
    BY <1>7, <2>1, <2>2 DEF Safe, Identified
  <2>4. ListingChecked(run[r])' /\ Decided(run[r])'
    BY <1>7, <2>1 DEF ListingChecked, Decided
  <2> QED
    BY <2>3, <2>4 DEF Safe
<1> QED
  BY <1>1, <1>5, <1>6, <1>7, <1>8 DEF IInv

\* Pulling the disk empties the path; mounts and partitions are nobody's but
\* the kernel's.
LEMMA KernelSafe ==
  ASSUME IInv, UNCHANGED <<run, orphans>>,
         Unplug \/ Rescan \/ \E root \in MountRoots : Mount(root) \/ Unmount(root)
  PROVE  IInv'
<1>1. port' \in {port, None}
  BY DEF Unplug, Rescan, Mount, Unmount
<1>2. \A r \in Runs : Safe(run[r])'
  BY <1>1 DEF IInv, Safe, Identified, ListingChecked, Decided
<1>3. DiskTypeOK'
  <2>1. CASE Unplug
    <3>1. port.disk \in Disks
      BY <2>1 DEF Unplug, IInv, DiskTypeOK, Attachments
    <3>2. PICK table \in {media[port.disk].table, cache[port.disk].table},
               fs \in {media[port.disk].fs, cache[port.disk].fs} :
            media' = [media EXCEPT ![port.disk] = [table |-> table, fs |-> fs]]
      BY <2>1 DEF Unplug
    <3>3. table \in Contents /\ fs \in Contents
      BY <3>1, <3>2 DEF IInv, DiskTypeOK
    <3>4. media' \in [Disks -> [table : Contents, fs : Contents]]
      BY <3>1, <3>2, <3>3 DEF IInv, DiskTypeOK
    <3> QED
      BY <2>1, <3>4 DEF Unplug, IInv, DiskTypeOK
  <2>2. CASE Rescan
    BY <2>2 DEF Rescan, IInv, DiskTypeOK
  <2>3. CASE \E root \in MountRoots : Mount(root) \/ Unmount(root)
    BY <2>3 DEF Mount, Unmount, IInv, DiskTypeOK
  <2> QED
    BY <2>1, <2>2, <2>3
<1> QED
  BY <1>2, <1>3 DEF IInv

\* Every step of every run, and of everything around the runs, preserves it.
LEMMA Inductive == IInv /\ [Next]_vars => IInv'
<1> SUFFICES ASSUME IInv, [Next]_vars PROVE IInv'
  OBVIOUS
<1>1. CASE UNCHANGED vars
  BY <1>1 DEF vars, disk, IInv, DiskTypeOK, Safe, Identified, ListingChecked, Decided
<1>2. CASE \E r \in Runs : Prepare(r)
  BY <1>2, PrepareSafe
<1>3. CASE \E r \in Runs : Execute(r)
  <2>1. PICK r \in Runs : Execute(r)
    BY <1>3
  <2> QED
    BY <2>1, ApproachSafe, UtilitySafe, PublishSafe, ReturnSafe DEF Execute
<1>4. CASE Environment
  BY <1>4, InterruptSafe, OrphanSafe, AttachSafe, KernelSafe DEF Environment
<1> QED
  BY <1>1, <1>2, <1>3, <1>4 DEF Next

-----------------------------------------------------------------------------

\* It holds of every reachable state.
LEMMA Invariant == Spec => []IInv
<1> QED
  BY Initially, Inductive, PTL DEF Spec

\* Every variable of the formatter and of the disk keeps its shape, a run that
\* ended holds no descriptor, and an open descriptor keeps its device path.
THEOREM TypeCorrect == Spec => []TypeOK
<1> QED
  BY Invariant, Consequences, PTL

\* However many runs, disks and attachments there are: a run changes only the
\* disk that was reviewed, or one of the same capacity that took its place
\* between RevalidateTarget and OpenReopenableDevice.
THEOREM OnlyReviewedDisk == Spec => []TargetReviewed
<1> QED
  BY Invariant, Consequences, PTL

\* No run of the formatter unmounts a filesystem outside the removable-media
\* roots: what it unmounts was listed, and checked, when it was listed.
THEOREM SystemMountsStay == Spec => SystemMountKept
<1> DEFINE Kept == \A r \in Runs :
             run'[r].pc # run[r].pc /\ "system" \in mounts => "system" \in mounts'
<1>1. IInv /\ [Next]_vars => [Kept]_vars
  <2> SUFFICES ASSUME IInv, Next, NEW s \in Runs,
                      run'[s].pc # run[s].pc, "system" \in mounts, "system" \notin mounts'
               PROVE  FALSE
    BY DEF vars
  <2>1. PICK r \in Runs : \/ UnmountOld(r, "unmount", "settle")
                          \/ UnmountOld(r, "unmount-again", "final")
    <3>1. ASSUME NEW r \in Runs, Prepare(r) PROVE UnmountOld(r, "unmount", "settle")
      BY <3>1
         DEF Prepare, Start, Discover, DryRun, Confirm, Revalidate, Settle, Refuse,
             Local, disk
    <3>2. ASSUME NEW r \in Runs, Execute(r) PROVE UnmountOld(r, "unmount-again", "final")
      BY <3>2
         DEF Execute, OpenTarget, AcquireFlock, VerifyTarget, Rebind, FinalCheck,
             BeginErase, RunUtility, Write, PublishTable, BindPartition,
             CheckFormat, FlushPartition, Readback, FinishSync, FinishVerify,
             Fail, UtilityFails, Close, Local, disk
    <3>3. ~Environment
      <4>1. ASSUME NEW r \in Runs PROVE ~(Cancel(r) \/ Kill(r) \/ SetClock(r))
        BY DEF Cancel, Kill, SetClock, Local, disk
      <4>2. ASSUME NEW o \in orphans PROVE ~OrphanEnds(o)
        BY DEF OrphanEnds
      <4>3. ASSUME NEW d \in Disks PROVE ~AttachDisk(d)
        BY DEF AttachDisk, Attach
      <4> QED
        BY <4>1, <4>2, <4>3 DEF Environment
    <3> QED
      BY <3>1, <3>2, <3>3 DEF Next
  <2>2. "system" \notin run[r].listed
    BY <2>1 DEF IInv, Safe, ListingChecked, UnmountOld, At
  <2> QED
    BY <2>1, <2>2 DEF UnmountOld, UnmountListed
<1> QED
  BY <1>1, Invariant, PTL DEF Spec, SystemMountKept

\* However a run ends, its report does not deny a change to the disk.
THEOREM HonestReport == Spec => []ChangeReported
<1> QED
  BY Invariant, Consequences, PTL

-----------------------------------------------------------------------------
(* Success and the disk *)

\* The stages of a run that has the flock.
Holding == Executing \ {"open", "flock"}

\* A run that has synced a disk it found as planned.
Settled(r) ==
  run[r].pc = "finish-verify" \/ (run[r].pc = "close" /\ run[r].status = "passed")

\* What a run knows of the disk once it has read it back, and once it has synced it.
Kept(r) ==
  /\ run[r].pc \in Holding \/ Settled(r) => run[r].locked
  /\ run[r].locked => run[r].fd # None
  /\ run[r].pc = "finish" /\ ~run[r].disturbed => Found(r).fs = Layout[r]
  /\ Settled(r) /\ ~run[r].disturbed =>
       /\ Found(r) = [table |-> Layout[r], fs |-> Layout[r]]
       /\ media[run[r].fd.disk] = Found(r)

\* The flock excludes every other run.
Alone ==
  \A r, s \in Runs : r # s /\ run[r].locked /\ run[s].locked => run[r].fd # run[s].fd

\* What every run knows, and that it is alone with its disk.
DurableInv == Alone /\ \A r \in Runs : Kept(r)

\* While a run has the flock and the path is its disk's, no other run has one.
LEMMA Excluded ==
  ASSUME IInv, DurableInv, NEW r \in Runs, NEW s \in Runs, r # s,
         TargetBound(r), run[r].locked
  PROVE  ~run[s].locked
<1>1. SUFFICES ASSUME run[s].locked PROVE FALSE
  OBVIOUS
<1>2. run[s].fd # None /\ run[r].fd # run[s].fd
  BY <1>1 DEF DurableInv, Alone, Kept
<1>3. port \in {None, run[s].fd}
  BY <1>2 DEF IInv, Safe, Identified
<1> QED BY <1>2, <1>3 DEF TargetBound, VerifyOpenDevice

\* A step of one run: the others keep what they know, as it only writes under the flock.
LEMMA OneHolder ==
  ASSUME IInv, DurableInv, NEW r \in Runs, \A s \in Runs : s # r => run'[s] = run[s],
         \/ UNCHANGED <<cache, media>>
         \/ TargetBound(r) /\ run[r].locked,
         run'[r].locked =>
           /\ run'[r].fd = run[r].fd
           /\ \/ run[r].locked
              \/ \A s \in Runs : ~(run[s].locked /\ run[s].fd = run[r].fd),
         Kept(r)'
  PROVE  DurableInv'
<1>1. Alone'
  <2> SUFFICES ASSUME NEW p \in Runs, NEW q \in Runs, p # q, run'[p].locked, run'[q].locked
               PROVE  run'[p].fd # run'[q].fd
    BY DEF Alone
  <2> QED BY DEF DurableInv, Alone
<1>2. ASSUME NEW s \in Runs, s # r
      PROVE  Kept(s)'
  <2>1. run'[s] = run[s] /\ Kept(s)
    BY <1>2 DEF DurableInv
  <2>2. CASE UNCHANGED <<cache, media>>
    BY <2>1, <2>2 DEF Kept, Settled, Found
  <2>3. CASE TargetBound(r) /\ run[r].locked
    <3>1. ~run[s].locked
      BY <1>2, <2>3, Excluded
    <3>2. run[s].pc \notin Holding /\ ~Settled(s)
      BY <2>1, <3>1 DEF Kept
    <3>3. "finish" \in Holding
      BY DEF Holding, Executing
    <3> QED BY <2>1, <3>1, <3>2, <3>3 DEF Kept, Settled
  <2> QED BY <2>2, <2>3
<1> QED BY <1>1, <1>2 DEF DurableInv

\* A run that has ended has no flock.
LEMMA EndedFree ==
  ASSUME NEW r \in Runs, NEW status
  PROVE  Ended(r, status).locked = FALSE /\ Ended(r, status).pc = "ended"
         /\ Ended(r, status).status = status
BY SMTT(30) DEF Ended, Fresh

\* Until the flock is taken there is nothing to know.
LEMMA PrepareHolds ==
  ASSUME IInv, DurableInv, NEW r \in Runs,
         Prepare(r) \/ OpenTarget(r) \/ AcquireFlock(r)
  PROVE  DurableInv'
<1>1. run \in [Runs -> RunStates] /\ run[r] \in RunStates /\ Kept(r) /\ Identified(run[r])
  BY DEF IInv, DurableInv, Safe
<1>2. run[r].pc \in Preparing \cup {"start", "open"} => ~run[r].locked
  BY <1>1 DEF Kept, Identified
<1>3. CASE Prepare(r)
  <2>1. /\ UNCHANGED <<cache, media>> /\ run[r].pc \in Preparing \cup {"start"}
        /\ \A s \in Runs : s # r => run'[s] = run[s]
        /\ run'[r].pc \in Preparing \cup {"open", "ended"}
        /\ run'[r].locked = FALSE
    <3>1. CASE \E noUnmount, byIdentity \in BOOLEAN : Start(r, noUnmount, byIdentity)
      BY <1>1, <1>2, <3>1 DEF Start, RunStates, At, Local, disk, Preparing
    <3>2. CASE Discover(r)
      BY <1>1, <1>2, <3>2 DEF Discover, RunStates, At, Local, disk, Preparing
    <3>5. CASE Confirm(r)
      BY <1>1, <1>2, <3>5 DEF Confirm, RunStates, At, Local, disk, Preparing
    <3>6. CASE Revalidate(r)
      BY <1>1, <1>2, <3>6 DEF Revalidate, RunStates, At, Local, disk, Preparing
    <3>3. CASE UnmountOld(r, "unmount", "settle") \/ Settle(r)
      BY <1>1, <1>2, <3>3 DEF UnmountOld, Settle, Goto, RunStates, At, Local, disk, Preparing
    <3>4. CASE DryRun(r) \/ Refuse(r)
      <4>1. PICK status : run' = [run EXCEPT ![r] = Ended(r, status)]
        BY <3>4 DEF DryRun, Refuse
      <4>2. run[r].pc \in Preparing /\ UNCHANGED <<cache, media>>
        BY <3>4 DEF DryRun, Refuse, At, Local, disk, Preparing
      <4> QED BY <1>1, <4>1, <4>2, EndedFree
    <3> QED BY <1>3, <3>1, <3>2, <3>3, <3>4, <3>5, <3>6 DEF Prepare
  <2>2. Kept(r)'
    BY <2>1 DEF Kept, Settled, Holding, Executing, Preparing
  <2> QED BY <2>1, <2>2, OneHolder
<1>4. CASE OpenTarget(r)
  <2>1. /\ UNCHANGED <<cache, media>> /\ run[r].pc = "open"
        /\ \A s \in Runs : s # r => run'[s] = run[s]
        /\ run'[r].pc = "flock" /\ run'[r].locked = run[r].locked
    BY <1>1, <1>4 DEF OpenTarget, RunStates, At, Local, disk
  <2>2. Kept(r)'
    BY <1>2, <2>1 DEF Kept, Settled, Holding
  <2> QED BY <1>2, <2>1, <2>2, OneHolder
<1>5. CASE AcquireFlock(r)
  <2>1. /\ UNCHANGED <<cache, media>> /\ run[r].pc = "flock"
        /\ \A s \in Runs : s # r => run'[s] = run[s]
        /\ run'[r].pc = "verify" /\ run'[r].locked /\ run'[r].fd = run[r].fd
        /\ \A s \in Runs : ~(run[s].locked /\ run[s].fd = run[r].fd)
    BY <1>1, <1>5 DEF AcquireFlock, RunStates, At, Local, disk
  <2>2. run[r].fd # None
    BY <1>1, <2>1 DEF Identified, Executing
  <2>3. Kept(r)'
    BY <2>1, <2>2 DEF Kept, Settled
  <2> QED BY <2>1, <2>3, OneHolder
<1> QED BY <1>3, <1>4, <1>5

\* Checks and writes before the readback keep the flock.
LEMMA WorkHolds ==
  ASSUME IInv, DurableInv, NEW r \in Runs,
         \/ VerifyTarget(r) \/ Rebind(r) \/ UnmountOld(r, "unmount-again", "final")
         \/ FinalCheck(r) \/ BeginErase(r)
         \/ RunUtility(r, "wipefs", "sfdisk") \/ RunUtility(r, "sfdisk", "publish")
         \/ PublishTable(r) \/ BindPartition(r)
         \/ CheckFormat(r) \/ RunUtility(r, "mkfs", "flush")
         \/ FlushPartition(r)
  PROVE  DurableInv'
<1>1. run \in [Runs -> RunStates] /\ run[r] \in RunStates /\ Kept(r)
  BY DEF IInv, DurableInv
<1>2. /\ run[r].pc \in Holding
      /\ \A s \in Runs : s # r => run'[s] = run[s]
      /\ run'[r].locked = run[r].locked /\ run'[r].fd = run[r].fd
      /\ run'[r].pc \in Holding \ {"finish", "finish-verify"}
  BY <1>1 DEF VerifyTarget, Rebind, UnmountOld, FinalCheck, BeginErase, RunUtility, PublishTable,
              BindPartition, CheckFormat, FlushPartition, RunStates, At, Goto, Holding, Executing
<1>3. UNCHANGED <<cache, media>> \/ TargetBound(r)
  BY DEF VerifyTarget, Rebind, UnmountOld, FinalCheck, BeginErase, RunUtility, PublishTable,
         BindPartition, CheckFormat, FlushPartition, Local, disk
<1>4. run[r].locked /\ run[r].fd # None
  BY <1>1, <1>2 DEF Kept
<1>5. Kept(r)'
  BY <1>2, <1>4 DEF Kept, Settled, Holding, Executing
<1> QED BY <1>2, <1>3, <1>4, <1>5, OneHolder

\* What is read back is what was asked for, and then it is synced.
LEMMA FinishHolds ==
  ASSUME IInv, DurableInv, NEW r \in Runs, Readback(r) \/ FinishSync(r) \/ FinishVerify(r)
  PROVE  DurableInv'
<1>1. run \in [Runs -> RunStates] /\ run[r] \in RunStates /\ Kept(r)
  BY DEF IInv, DurableInv
<1>2. /\ run[r].pc \in {"readback", "finish", "finish-verify"}
      /\ \A s \in Runs : s # r => run'[s] = run[s]
      /\ run'[r].locked = run[r].locked /\ run'[r].fd = run[r].fd
      /\ run'[r].disturbed = run[r].disturbed
      /\ TargetBound(r) /\ UNCHANGED cache
  BY <1>1 DEF Readback, FinishSync, FinishVerify, RunStates, At, Goto, Local, disk
<1>3. run[r].locked /\ run[r].fd # None
  BY <1>1, <1>2 DEF Kept, Holding, Executing
<1>4. CASE Readback(r)
  <2>1. run'[r].pc = "finish" /\ Found(r).fs = Layout[r]
    BY <1>1, <1>4 DEF Readback, Goto, RunStates
  <2> QED BY <1>2, <1>3, <2>1, OneHolder DEF Kept, Settled, Found
<1>5. CASE FinishSync(r)
  <2>1. /\ run[r].pc = "finish" /\ run'[r].pc = "finish-verify" /\ Found(r).table = Layout[r]
        /\ media' = [media EXCEPT ![run[r].fd.disk] = Found(r)]
    BY <1>1, <1>5 DEF FinishSync, TablePublished, Goto, RunStates, At
  <2>2. run[r].fd.disk \in Disks /\ Found(r) \in DiskContents
    BY <1>2, Bound
  <2>3. media'[run[r].fd.disk] = Found(r)
    BY <2>1, <2>2 DEF IInv, DiskTypeOK
  <2>4. ~run[r].disturbed => Found(r) = [table |-> Layout[r], fs |-> Layout[r]]
    BY <1>1, <2>1, <2>2 DEF Kept, DiskContents
  <2>5. Kept(r)'
    BY <1>2, <1>3, <2>1, <2>3, <2>4 DEF Kept, Settled, Found
  <2> QED BY <1>2, <1>3, <2>5, OneHolder
<1>6. CASE FinishVerify(r)
  <2>1. /\ run[r].pc = "finish-verify" /\ run'[r].pc = "close" /\ UNCHANGED media
    BY <1>1, <1>6 DEF FinishVerify, RunStates, At, Local, disk
  <2>2. Kept(r)'
    BY <1>1, <1>2, <1>3, <2>1 DEF Kept, Settled, Found
  <2> QED BY <1>2, <1>3, <2>1, <2>2, OneHolder
<1> QED BY <1>4, <1>5, <1>6

\* A failure is not reported as a success, and the end of a run leaves nothing to know.
LEMMA StopHolds ==
  ASSUME IInv, DurableInv, NEW r \in Runs,
         \/ Fail(r) \/ UtilityFails(r) \/ Cancel(r) \/ SetClock(r) \/ Kill(r)
         \/ \E closed \in BOOLEAN : Close(r, closed)
  PROVE  DurableInv'
<1>1. run \in [Runs -> RunStates] /\ run[r] \in RunStates /\ Kept(r)
  BY DEF IInv, DurableInv
<1>2. CASE Fail(r) \/ UtilityFails(r)
  <2>1. PICK status \in FailureStatuses(r) :
          \/ run' = [run EXCEPT ![r].pc = "close", ![r].status = Reported(r, status)]
          \/ run' = [run EXCEPT ![r].pc = "close", ![r].changed = @ \cup {run[r].fd},
                                ![r].status = Reported(r, status)]
    BY <1>2 DEF Fail, UtilityFails
  <2>2. Reported(r, status) # "passed"
    BY DEF FailureStatuses, Reported
  <2>5. /\ \A s \in Runs : s # r => run'[s] = run[s]
        /\ run'[r].locked = run[r].locked /\ run'[r].fd = run[r].fd
        /\ run'[r].pc = "close" /\ run'[r].status # "passed"
    <3> DEFINE said == Reported(r, status)
    <3>1. \/ run' = [run EXCEPT ![r].pc = "close", ![r].status = said]
          \/ run' = [run EXCEPT ![r].pc = "close", ![r].changed = @ \cup {run[r].fd},
                                ![r].status = said]
      BY <2>1
    <3>2. said # "passed"
      BY <2>2
    <3> HIDE DEF said
    <3> QED BY <1>1, <3>1, <3>2 DEF RunStates
  <2>6. UNCHANGED <<cache, media>> \/ (TargetBound(r) /\ run[r].pc \in Holding)
    BY <1>2 DEF Fail, UtilityFails, Local, disk, Utilities, Holding, Executing
  <2>3. Kept(r)'
    BY <1>1, <2>5 DEF Kept, Settled, Holding, Executing
  <2> QED BY <1>1, <2>3, <2>5, <2>6, OneHolder DEF Kept
<1>3. CASE Cancel(r) \/ SetClock(r)
  <2>1. /\ \A s \in Runs : s # r => run'[s] = run[s]
        /\ run'[r].locked = run[r].locked /\ run'[r].fd = run[r].fd /\ run'[r].pc = run[r].pc
        /\ run'[r].status = run[r].status /\ run'[r].disturbed = run[r].disturbed
        /\ UNCHANGED <<cache, media>>
    <3>1. CASE Cancel(r)
      BY <1>1, <3>1 DEF Cancel, RunStates, Local, disk
    <3>2. CASE SetClock(r)
      <4>1. UNCHANGED <<cache, media>> /\ run' = [run EXCEPT ![r].clockBack = TRUE]
        BY <3>2 DEF SetClock, Local, disk
      <4> QED BY <1>1, <4>1 DEF RunStates
    <3> QED BY <1>3, <3>1, <3>2
  <2>2. Kept(r)'
    BY <1>1, <2>1 DEF Kept, Settled, Found
  <2> QED BY <2>1, <2>2, OneHolder
<1>4. CASE Kill(r) \/ \E closed \in BOOLEAN : Close(r, closed)
  <2>1. /\ \A s \in Runs : s # r => run'[s] = run[s]
        /\ run'[r].locked = FALSE /\ run'[r].pc = "ended" /\ UNCHANGED <<cache, media>>
    <3>1. PICK status : run' = [run EXCEPT ![r] = Ended(r, status)]
      BY <1>4 DEF Kill, Close
    <3>2. UNCHANGED <<cache, media>>
      BY <1>4 DEF Kill, Close, Local, disk
    <3> QED BY <1>1, <3>1, <3>2, EndedFree
  <2>2. Kept(r)'
    BY <2>1 DEF Kept, Settled, Holding, Executing
  <2> QED BY <2>1, <2>2, OneHolder
<1> QED BY <1>2, <1>3, <1>4

\* A utility that outlived its run disturbs whoever has its disk open; a disk that is pulled
\* has on it what was synced, and none appears while one is open.
LEMMA AroundHolds ==
  ASSUME IInv, DurableInv,
         \/ \E o \in orphans : OrphanEnds(o)
         \/ \E d \in Disks : AttachDisk(d)
         \/ /\ Unplug \/ Rescan \/ \E root \in MountRoots : Mount(root) \/ Unmount(root)
            /\ UNCHANGED <<run, orphans>>
         \/ UNCHANGED vars
  PROVE  DurableInv'
<1>1. run \in [Runs -> RunStates]
  BY DEF IInv
<1>2. ASSUME \A r \in Runs : /\ run'[r].locked = run[r].locked /\ run'[r].fd = run[r].fd
                             /\ run'[r].pc = run[r].pc /\ run'[r].status = run[r].status
                             /\ run[r].disturbed => run'[r].disturbed,
             \A r \in Runs : run[r].locked /\ ~run'[r].disturbed =>
               /\ cache'[run[r].fd.disk] = cache[run[r].fd.disk]
               /\ \/ media'[run[r].fd.disk] = media[run[r].fd.disk]
                  \/ media[run[r].fd.disk] = Found(r) => media'[run[r].fd.disk] = Found(r)
      PROVE  DurableInv'
  <2>1. Alone'
    BY <1>2 DEF DurableInv, Alone
  <2>2. ASSUME NEW r \in Runs
        PROVE  Kept(r)'
    <3>1. Kept(r) /\ "finish" \in Holding
      BY DEF DurableInv, Holding, Executing
    <3> QED BY <1>2, <2>2, <3>1 DEF Kept, Settled, Found
  <2> QED BY <2>1, <2>2 DEF DurableInv
<1>3. \A r \in Runs : run[r].locked => run[r].fd # None /\ port \in {None, run[r].fd}
  BY DEF DurableInv, Kept, IInv, Safe, Identified
<1>4. ASSUME NEW o \in orphans, OrphanEnds(o)
      PROVE  DurableInv'
  <2>1. CASE port = o.on
    <3>1. run' = [r \in Runs |-> [run[r] EXCEPT !.disturbed = @ \/ run[r].fd = o.on]]
      BY <1>4, <2>1 DEF OrphanEnds
    <3>2. \A r \in Runs : /\ run'[r].locked = run[r].locked /\ run'[r].fd = run[r].fd
                          /\ run'[r].pc = run[r].pc /\ run'[r].status = run[r].status
                          /\ run'[r].disturbed = (run[r].disturbed \/ run[r].fd = o.on)
      BY <1>1, <3>1 DEF RunStates
    <3>3. o.on # None
      BY <1>4, NoneAssumption DEF IInv, OrphanStates
    <3>4. \A r \in Runs : run[r].locked => run[r].fd = o.on
      BY <1>3, <2>1, <3>3
    <3>5. \A r \in Runs : run[r].locked => run'[r].disturbed
      BY <3>2, <3>4
    <3> QED BY <1>2, <3>2, <3>5
  <2>2. CASE port # o.on
    BY <1>2, <1>4, <2>2 DEF OrphanEnds
  <2> QED BY <2>1, <2>2
<1>5. ASSUME NEW d \in Disks, AttachDisk(d)
      PROVE  DurableInv'
  <2>1. \A r \in Runs : ~run[r].locked
    BY <1>3, <1>5 DEF AttachDisk, Attach, Open
  <2>2. \A r \in Runs : /\ run'[r].locked = run[r].locked /\ run'[r].fd = run[r].fd
                        /\ run'[r].pc = run[r].pc /\ run'[r].status = run[r].status
                        /\ run'[r].disturbed = run[r].disturbed
    BY <1>1, <1>5 DEF AttachDisk, RunStates
  <2> QED BY <1>2, <2>1, <2>2
<1>6. CASE Unplug /\ UNCHANGED <<run, orphans>>
  <2>1. ASSUME NEW r \in Runs, run[r].locked, media[run[r].fd.disk] = Found(r)
        PROVE  media'[run[r].fd.disk] = Found(r)
    <3>1. port \in Attachments /\ run[r].fd = port
      BY <1>3, <1>6, <2>1 DEF Unplug, IInv, DiskTypeOK
    <3>2. port.disk \in Disks
      BY <3>1 DEF Attachments
    <3>3. PICK table \in {media[port.disk].table, cache[port.disk].table},
               fs \in {media[port.disk].fs, cache[port.disk].fs} :
            media' = [media EXCEPT ![port.disk] = [table |-> table, fs |-> fs]]
      BY <1>6 DEF Unplug
    <3>4. media'[port.disk] = [table |-> media[port.disk].table, fs |-> media[port.disk].fs]
      BY <2>1, <3>1, <3>2, <3>3 DEF IInv, DiskTypeOK, Found
    <3>5. media[port.disk] \in [table : Contents, fs : Contents]
      BY <3>2 DEF IInv, DiskTypeOK
    <3> QED BY <2>1, <3>1, <3>4, <3>5
  <2>2. UNCHANGED <<run, cache>>
    BY <1>6 DEF Unplug
  <2> QED BY <1>2, <2>1, <2>2
<1>7. CASE \/ /\ Rescan \/ \E root \in MountRoots : Mount(root) \/ Unmount(root)
              /\ UNCHANGED <<run, orphans>>
           \/ UNCHANGED vars
  <2>1. UNCHANGED <<run, cache, media>>
    BY <1>7 DEF Rescan, Mount, Unmount, vars, disk
  <2> QED BY <1>2, <2>1
<1> QED BY <1>4, <1>5, <1>6, <1>7

\* The second invariant holds relative to the first.
LEMMA DurableInductive == IInv /\ DurableInv /\ [Next]_vars => DurableInv'
<1> SUFFICES ASSUME IInv, DurableInv, [Next]_vars PROVE DurableInv'
  OBVIOUS
<1>1. CASE \E r \in Runs : Prepare(r)
  BY <1>1, PrepareHolds
<1>2. CASE \E r \in Runs : Execute(r)
  <2>1. PICK r \in Runs : Execute(r)
    BY <1>2
  <2>2. CASE OpenTarget(r) \/ AcquireFlock(r)
    BY <2>2, PrepareHolds
  <2>3. CASE \/ VerifyTarget(r) \/ Rebind(r) \/ UnmountOld(r, "unmount-again", "final")
             \/ FinalCheck(r) \/ BeginErase(r)
             \/ RunUtility(r, "wipefs", "sfdisk") \/ RunUtility(r, "sfdisk", "publish")
             \/ PublishTable(r) \/ BindPartition(r)
             \/ CheckFormat(r) \/ RunUtility(r, "mkfs", "flush")
             \/ FlushPartition(r)
    BY <2>3, WorkHolds
  <2>4. CASE Readback(r) \/ FinishSync(r) \/ FinishVerify(r)
    BY <2>4, FinishHolds
  <2>5. CASE Fail(r) \/ UtilityFails(r) \/ \E closed \in BOOLEAN : Close(r, closed)
    BY <2>5, StopHolds
  <2> QED BY <2>1, <2>2, <2>3, <2>4, <2>5 DEF Execute
<1>3. CASE \E r \in Runs : Cancel(r) \/ Kill(r) \/ SetClock(r)
  BY <1>3, StopHolds
<1>4. CASE \/ \E o \in orphans : OrphanEnds(o)
           \/ \E d \in Disks : AttachDisk(d)
           \/ /\ Unplug \/ Rescan \/ \E root \in MountRoots : Mount(root) \/ Unmount(root)
              /\ UNCHANGED <<run, orphans>>
           \/ UNCHANGED vars
  BY <1>4, AroundHolds
<1> QED BY <1>1, <1>2, <1>3, <1>4 DEF Next, Environment

\* Success is reported of the disk that was synced: PassedDurable.
LEMMA Reports ==
  ASSUME IInv, DurableInv, [Next]_vars, NEW r \in Runs, At(r, "close"), At(r, "ended")',
         run'[r].status = "passed", ~run[r].disturbed
  PROVE  media[run[r].fd.disk] = [table |-> Layout[r], fs |-> Layout[r]]
<1>1. run \in [Runs -> RunStates] /\ Kept(r)
  BY DEF IInv, DurableInv
<1>2. SUFFICES run[r].status = "passed"
  BY <1>1, <1>2 DEF Kept, Settled, At
<1>3. run[r].pc = "close" /\ run'[r].pc = "ended"
  BY DEF At
<1>4. ASSUME NEW s \in Runs, Prepare(s) \/ Execute(s) \/ Cancel(s) \/ Kill(s) \/ SetClock(s)
      PROVE  run[r].status = "passed"
  <2>1. CASE s # r
    <3>1. run'[r] = run[r]
      BY <1>1, <1>4, <2>1
         DEF Prepare, Start, Discover, DryRun, Confirm, Revalidate, UnmountOld, Settle, Refuse,
             Execute, OpenTarget, AcquireFlock, VerifyTarget, Rebind, FinalCheck, BeginErase,
             RunUtility, PublishTable, BindPartition, CheckFormat, FlushPartition, Readback,
             FinishSync, FinishVerify, Fail, UtilityFails, Close, Cancel, Kill, SetClock, Goto
    <3> QED BY <1>3, <3>1
  <2>2. CASE s = r
    <3>1. CASE \E closed \in BOOLEAN : Close(r, closed)
      <4>1. PICK closed \in BOOLEAN : Close(r, closed)
        BY <3>1
      <4>2. run'[r].status = ClosedStatus(r, closed)
        BY <1>1, <4>1 DEF Close, Ended, Fresh
      <4> QED BY <4>2 DEF ClosedStatus, Reported
    <3>2. CASE Kill(r)
      <4>1. run'[r].status = "killed"
        BY <1>1, <3>2 DEF Kill, Ended, Fresh
      <4> QED BY <4>1
    <3>3. CASE Cancel(r) \/ SetClock(r)
      BY <1>1, <1>3, <3>3 DEF Cancel, SetClock, RunStates
    <3>4. ~Prepare(r)
      BY <1>3 DEF Prepare, Start, Discover, DryRun, Confirm, Revalidate, UnmountOld, Settle,
                  Refuse, At, Preparing
    <3>5. Execute(r) => \E closed \in BOOLEAN : Close(r, closed)
      BY <1>3 DEF Execute, OpenTarget, AcquireFlock, VerifyTarget, Rebind, UnmountOld, FinalCheck,
                  BeginErase, RunUtility, PublishTable, BindPartition, CheckFormat,
                  FlushPartition, Readback, FinishSync, FinishVerify, Fail, UtilityFails, At,
                  Executing, Utilities
    <3> QED BY <1>4, <2>2, <3>1, <3>2, <3>3, <3>4, <3>5
  <2> QED BY <2>1, <2>2
<1>5. CASE UNCHANGED run
  BY <1>3, <1>5
<1>6. CASE \E o \in orphans : OrphanEnds(o)
  BY <1>1, <1>3, <1>6 DEF OrphanEnds, RunStates
<1>7. CASE \E d \in Disks : AttachDisk(d)
  BY <1>1, <1>3, <1>7 DEF AttachDisk, RunStates
<1> QED BY <1>4, <1>5, <1>6, <1>7 DEF Next, Environment, vars

\* What a run reports as passed is on the disk, and not in a cache only, whatever other
\* runs do, however the disk is pulled.
THEOREM DurableSuccess == Spec => PassedDurable
<1>1. Init => DurableInv
  BY DEF Init, DurableInv, Alone, Kept, Settled, Holding, Executing, Fresh
<1>2. IInv /\ DurableInv /\ [Next]_vars =>
        [\A r \in Runs :
           At(r, "close") /\ At(r, "ended")' /\ run'[r].status = "passed"
             /\ ~run[r].disturbed =>
             media[run[r].fd.disk] = [table |-> Layout[r], fs |-> Layout[r]]]_vars
  BY Reports
<1> QED BY <1>1, <1>2, Initially, Inductive, DurableInductive, PTL DEF Spec, PassedDurable

-----------------------------------------------------------------------------
(* The captures *)


\* The fields of the command, of the source and of the destination.
CommandFields ==
  {"pc", "format", "noUnmount", "identity", "listed", "fd", "plan", "scan", "view", "image",
   "digest", "from", "read", "synced", "held", "own", "known", "work", "cut", "unsynced",
   "report", "exit"}
SourceFields == {"first", "rest", "mount", "past", "others"}

\* What an inventory holds when one file was read, and when both were.
HalfScans == [mount : 0..MaxOthers + 1, first : Part, rest : {None}]
FullScans == [mount : 0..MaxOthers + 1, first : Part, rest : Part]
Destinations == [path : BOOLEAN, name : {"free", "foreign", "image"}, kept : BOOLEAN,
                 temp : BOOLEAN, removed : BOOLEAN]

\* The stages in which the command is over or goes back.
UndoStages == {"undo", "undo-udf", "undo-view", "done", "ended"}
\* The name is there, or the directory was not synced.
NamedStages == {"publish-sync", "undo", "done", "ended"}

\* State and command have their types.
Typed ==
  /\ DiskTypeOK
  /\ SourceFields \subseteq DOMAIN src
  /\ src.first \in Part /\ src.rest \in Part
  /\ src.mount \in 0..MaxOthers + 1 /\ src.others \in 0..MaxOthers
  /\ src.past \in SUBSET (Vers \X Vers)
  /\ dest \in Destinations
  /\ CommandFields \subseteq DOMAIN c
  /\ c.format \in Formats \cup {"iso", "none"}
  /\ c.identity \in Attachments \cup {None} /\ c.fd \in Attachments \cup {None}
  /\ c.plan \in Scans /\ c.scan \in Scans /\ c.view \in Scans
  /\ c.image \in Images /\ c.digest \in Images
  /\ c.read \in Nat
  /\ c.own \in SUBSET {"bind", "ro", "udf"} /\ c.known \subseteq c.own
  /\ c.work \in SUBSET {"view", "udf"}
  /\ c.synced \in BOOLEAN /\ c.cut \in BOOLEAN /\ c.unsynced \in BOOLEAN
  /\ c.report \in {"none", "passed", "failed"}
  /\ c.exit \in {"none", "planned", "ok", "error", "killed"}
  /\ c.pc = "start" => c.format = "none" /\ c.own = {} /\ c.work = {} /\ c.from = {}
  /\ c.format = "none" => c.pc = "start"
  /\ c.pc = "start" => c.exit = "none"

\* The files are there, and were so together, unless the command lost a mount
\* of them and removed its workspace.
SourceInv ==
  /\ src.first.ver = "gone" <=> src.rest.ver = "gone"
  /\ src.first.ver # "gone" => Pair(src) \in src.past
  /\ src.first.ver = "gone" => c.cut /\ c.pc \in {"done", "ended"} /\ dest.name # "image"
  /\ c.cut => c.format = "iso"

\* No workspace yet, or none any more.
NoViewStages ==
  {"find", "plan", "plan-rest", "plan-destination", "confirm", "revalidate", "view", "view-rest",
   "workspace", "owner", "close", "path", "publish", "publish-sync"}
\* The view is mounted read-only.
ViewStages ==
  {"view-scan", "view-scan-rest", "prepare", "temporary", "provider-plan", "private",
   "master-scan", "master-rest", "provider", "provider-rest", "master-sync", "master-after",
   "after-rest", "hash-image", "udf-work", "final-scan", "final-rest", "view-close"}

\* What is mounted, what of it is known, and where.
MountInv ==
  /\ c.own \cap {"bind", "ro"} # {} => "view" \in c.work
  /\ "udf" \in c.own => "udf" \in c.work
  /\ "bind" \in c.own \ c.known => c.cut \/ c.pc \in {"done", "ended"}
  /\ c.format \in Formats => c.own = {} /\ c.work = {}
  /\ c.format = "iso" =>
       /\ c.pc \in NoViewStages => c.own = {} /\ c.work = {}
       /\ c.pc = "bind" => c.own = {} /\ c.work = {"view"}
       /\ c.pc = "remount" => c.own = {"bind"} /\ c.known = {"bind"} /\ c.work = {"view"}
       /\ c.pc \in ViewStages => c.own = {"ro"} /\ c.known = {"ro"} /\ c.work = {"view"}
       /\ c.pc = "udf-mount" => c.own = {"ro"} /\ c.known = {"ro"} /\ c.work = {"view", "udf"}
       /\ c.pc \in {"udf-scan", "udf-close"} =>
            c.own = {"ro", "udf"} /\ c.known = {"ro", "udf"} /\ c.work = {"view", "udf"}

\* The stages in which a backup holds its source, and has counted the edits.
SourceHeldStages ==
  {"check-unmount", "check-mounts", "temporary", "copy", "copy-rest", "copy-sync", "hash",
   "hash-rest", "convert", "convert-rest", "convert-sync", "compare", "compare-rest",
   "consistency", "hash-output", "output-sync", "owner", "verify", "path", "publish",
   "publish-sync"}
CountedStages == SourceHeldStages \ {"check-unmount", "check-mounts", "temporary"}

\* The container is made, compared and hashed.
ContainerStages ==
  {"hash", "hash-rest", "convert", "convert-rest", "convert-sync", "compare", "compare-rest",
   "consistency", "hash-output", "output-sync"}
ConvertedStages ==
  {"convert-sync", "compare", "compare-rest", "consistency", "hash-output", "output-sync"}
\* Nothing is left to do but to hand over, check and publish.
HandoverStages == {"owner", "verify", "close", "path", "publish", "publish-sync"}

\* The image holds the source as it was, or somebody wrote to it meanwhile.
Undisturbed ==
  \/ c.image \in src.past /\ c.digest = c.image
  \/ Edits > c.read

\* What a backup has read at each of its stages, if nobody wrote to the source.
BackupInv ==
  c.format \in Formats =>
    /\ c.pc \in SourceHeldStages => c.fd = c.identity /\ c.fd # None
    /\ c.pc \in CountedStages => c.read <= Edits
    /\ c.pc \in ContainerStages => c.format # "raw"
    /\ c.pc \in {"copy", "copy-rest", "copy-sync"} => c.format = "raw"
    /\ c.pc \notin UndoStages \cup {"copy-rest", "copy-sync", "convert-rest"} \cup ConvertedStages
                     \cup HandoverStages => c.from = {}
    /\ c.pc \in {"copy-rest", "copy-sync", "convert-rest"} \cup ConvertedStages
                \cup HandoverStages =>
         c.from = {c.identity}
    /\ c.pc \in {"copy-rest", "convert-rest"} =>
         c.image \in Vers \X Vers /\ (Edits = c.read => c.image[1] = src.first.ver)
    /\ c.pc = "copy-sync" =>
         c.image \in Vers \X Vers /\ (Edits = c.read => c.image = Pair(src))
    /\ c.pc = "hash-rest" =>
         c.digest \in Vers \X Vers /\ (Edits = c.read => c.digest[1] = src.first.ver)
    /\ c.pc \in {"convert", "convert-rest"} => (Edits = c.read => c.digest = Pair(src))
    /\ c.pc \in ConvertedStages \cup HandoverStages => Undisturbed
    /\ c.pc \in HandoverStages /\ c.format = "raw" => c.digest = c.image
    /\ c.pc \in HandoverStages \ {"owner"} => c.synced

\* The second file of an inventory is about to be read.
HalfStages ==
  {"plan-rest", "view-rest", "view-scan-rest", "master-rest", "after-rest", "final-rest"}
\* There is no plan yet.
UnplannedStages == {"find", "plan", "plan-rest"}
\* There is no inventory of the view yet.
UnviewedStages ==
  UnplannedStages \cup {"plan-destination", "confirm", "revalidate", "view", "view-rest",
                        "workspace", "bind", "remount", "view-scan", "view-scan-rest"}
\* It has not been confirmed by another one.
UnconfirmedStages ==
  {"prepare", "temporary", "provider-plan", "private", "master-scan", "master-rest"}
\* What is in the image has not been compared.
UncomparedStages ==
  {"provider", "provider-rest", "master-sync", "master-after", "after-rest", "hash-image",
   "udf-work", "udf-mount", "udf-scan"}

\* The parts of an inventory were so together.
Together(scan) == Pair(scan) \in src.past

\* What the inventories of an ISO capture stand for.
IsoInv ==
  c.format = "iso" =>
    /\ c.pc \in HalfStages => c.scan \in HalfScans
    /\ c.pc \notin UndoStages \cup UnplannedStages => c.plan \in FullScans
    /\ c.pc = "view-scan-rest" =>
         c.scan.first = src.first \/ src.first.stamp > c.scan.first.stamp
    /\ c.pc \notin UndoStages \cup UnviewedStages =>
         c.view \in FullScans /\ Content(c.view) = Content(c.plan)
    /\ c.pc \in UnconfirmedStages \ {"master-rest"} =>
         Together(c.view) \/ src.first.stamp > c.view.first.stamp
    /\ c.pc = "master-rest" => Together(c.view) \/ c.scan.first.stamp > c.view.first.stamp
    /\ c.pc \notin UndoStages \cup UnviewedStages \cup UnconfirmedStages => Together(c.view)
    /\ c.pc \in UnviewedStages \cup UnconfirmedStages \cup {"provider"} => c.from = {}
    /\ c.pc \notin UndoStages \cup UnviewedStages \cup UnconfirmedStages \cup {"provider"} =>
         c.from = {c.identity}
    /\ c.pc = "provider-rest" => c.image \in Vers \X Vers
    /\ c.pc \notin UndoStages \cup UnviewedStages \cup UnconfirmedStages \cup UncomparedStages =>
         c.image = Pair(c.view)
    /\ c.pc \in HandoverStages => c.digest = c.image
    /\ c.pc \in HandoverStages \ {"owner"} => c.synced

\* What is published is whole.
Whole ==
  /\ c.synced
  /\ c.from = {c.identity}
  /\ \/ c.image \in src.past /\ c.digest = c.image
     \/ c.format # "iso" /\ Edits > c.read
  /\ c.format = "raw" => c.digest = c.image
  /\ c.format = "iso" => c.image = Content(c.plan)

\* What the name and the report stand for.
PublishInv ==
  /\ dest.name = "image" => c.pc \in NamedStages /\ Whole /\ c.own = {} /\ c.work = {}
  /\ c.pc = "publish-sync" => ~dest.temp
  /\ c.report = "passed" => /\ c.pc \in {"done", "ended"}
                            /\ c.own = {} /\ c.work = {} /\ ~dest.temp
                            /\ dest.name = "image" => dest.kept
  /\ c.report = "failed" => c.pc \in UndoStages
  /\ c.report = "failed" /\ dest.name = "image" => c.unsynced
  /\ dest.removed => c.unsynced
  /\ c.exit = "ok" => c.report = "passed"
  /\ c.exit # "none" => c.pc = "ended"

CaptureInv == Typed /\ SourceInv /\ MountInv /\ BackupInv /\ IsoInv /\ PublishInv


\* The files of the source are there while a command runs, and counters are numbers.
LEMMA SourceThere ==
  ASSUME CaptureInv
  PROVE  /\ Edits \in Nat /\ c.read \in Nat
         /\ c.pc \notin {"done", "ended"} => Pair(src) \in src.past
<1>1. Edits \in Nat /\ c.read \in Nat
  BY BoundAssumption DEF CaptureInv, Typed, Part, Edits
<1>2. c.pc \notin {"done", "ended"} => Pair(src) \in src.past
  BY DEF CaptureInv, SourceInv
<1> QED
  BY <1>1, <1>2

\* A step of a backup leaves the source and the mounts alone and keeps the format.
BackupFrame ==
  /\ src' = src
  /\ DOMAIN c' = DOMAIN c
  /\ c'.own = c.own /\ c'.known = c.known /\ c'.work = c.work /\ c'.cut = c.cut
  /\ c.format \in Formats /\ c'.format = c.format

LEMMA BackupFramed ==
  ASSUME CaptureInv, BackupFrame, c.pc \notin {"done", "ended"}
  PROVE  SourceInv' /\ MountInv' /\ IsoInv'
<1>1. c.format # "iso" /\ ~c.cut /\ src.first.ver # "gone"
  BY DEF CaptureInv, SourceInv, BackupFrame, Formats
<1>2. SourceInv'
  BY <1>1 DEF CaptureInv, SourceInv, BackupFrame, Pair
<1>3. c'.own = {} /\ c'.work = {} /\ c'.format \in Formats /\ c'.format # "iso"
  BY <1>1 DEF CaptureInv, MountInv, BackupFrame
<1>4. MountInv'
  BY <1>3 DEF MountInv
<1>5. IsoInv'
  BY <1>3 DEF IsoInv
<1> QED
  BY <1>2, <1>4, <1>5

\* An EXCEPT of the destination keeps its other fields.
LEMMA DestinationFields ==
  Typed => {"path", "name", "kept", "temp", "removed"} \subseteq DOMAIN dest
BY DEF Typed, Destinations

\* From the options to the source that is not mounted any more.
LEMMA BackupReview ==
  ASSUME CaptureInv,
         \/ FindSource \/ InspectDestinationForFormat \/ BackupDryRun \/ ConfirmCapture
         \/ BackupRevalidate \/ UnmountSource("unmount", "no-mounts") \/ NoMountLeft
         \/ MeasureContainer \/ BackupRefuse
  PROVE  CaptureInv'
<1> USE DEF UndoStages, SourceHeldStages, CountedStages, ContainerStages, ConvertedStages,
            HandoverStages, CaptureInv, disk, CommandFields, Formats, Backup, Doing, Proceed,
            Pass, StartBackup, FindSource, DiscoverSource, ValidateSource,
            InspectDestinationForFormat, InspectDestination, BackupDryRun, End, ConfirmCapture,
            BackupRevalidate, RevalidateSource, SameIdentity, UnmountSource, UnmountListed,
            NoMountLeft, MeasureContainer, BackupRefuse
<1>1. CASE FindSource
  <2>1. BackupFrame /\ c.pc \notin {"done", "ended"}
    BY <1>1, SMTT(30) DEF BackupFrame
  <2>2. Typed'
    BY <1>1, SMTT(30) DEF Typed, DiskTypeOK, Images, Vers
  <2>3. BackupInv'
    BY <1>1, SMTT(30) DEF BackupInv, Undisturbed, Edits, Pair
  <2>4. PublishInv'
    BY <1>1, SMTT(30) DEF PublishInv, Whole, Edits, Pair, NamedStages
  <2> QED
    BY <2>1, <2>2, <2>3, <2>4, BackupFramed
<1>2. CASE InspectDestinationForFormat
  <2>1. BackupFrame /\ c.pc \notin {"done", "ended"}
    BY <1>2, SMTT(30) DEF BackupFrame
  <2>2. Typed'
    BY <1>2, SMTT(30) DEF Typed, DiskTypeOK, Images, Vers
  <2>3. BackupInv'
    BY <1>2, SMTT(30) DEF BackupInv, Undisturbed, Edits, Pair
  <2>4. PublishInv'
    BY <1>2, SMTT(30) DEF PublishInv, Whole, Edits, Pair, NamedStages
  <2> QED
    BY <2>1, <2>2, <2>3, <2>4, BackupFramed
<1>3. CASE BackupDryRun
  <2>1. BackupFrame /\ c.pc \notin {"done", "ended"}
    BY <1>3, SMTT(30) DEF BackupFrame
  <2>2. Typed'
    BY <1>3, SMTT(30) DEF Typed, DiskTypeOK, Images, Vers
  <2>3. BackupInv'
    BY <1>3, SMTT(30) DEF BackupInv, Undisturbed, Edits, Pair
  <2>4. PublishInv'
    BY <1>3, SMTT(30) DEF PublishInv, Whole, Edits, Pair, NamedStages
  <2> QED
    BY <2>1, <2>2, <2>3, <2>4, BackupFramed
<1>4. CASE ConfirmCapture
  <2>1. BackupFrame /\ c.pc \notin {"done", "ended"}
    BY <1>4, SMTT(30) DEF BackupFrame
  <2>2. Typed'
    BY <1>4, SMTT(30) DEF Typed, DiskTypeOK, Images, Vers
  <2>3. BackupInv'
    BY <1>4, SMTT(30) DEF BackupInv, Undisturbed, Edits, Pair
  <2>4. PublishInv'
    BY <1>4, SMTT(30) DEF PublishInv, Whole, Edits, Pair, NamedStages
  <2> QED
    BY <2>1, <2>2, <2>3, <2>4, BackupFramed
<1>5. CASE BackupRevalidate
  <2>1. BackupFrame /\ c.pc \notin {"done", "ended"}
    BY <1>5, SMTT(30) DEF BackupFrame
  <2>2. Typed'
    BY <1>5, SMTT(30) DEF Typed, DiskTypeOK, Images, Vers
  <2>3. BackupInv'
    BY <1>5, SMTT(30) DEF BackupInv, Undisturbed, Edits, Pair
  <2>4. PublishInv'
    BY <1>5, SMTT(30) DEF PublishInv, Whole, Edits, Pair, NamedStages
  <2> QED
    BY <2>1, <2>2, <2>3, <2>4, BackupFramed
<1>6. CASE UnmountSource("unmount", "no-mounts")
  <2>1. BackupFrame /\ c.pc \notin {"done", "ended"}
    BY <1>6, SMTT(30) DEF BackupFrame
  <2>2. Typed'
    BY <1>6, SMTT(30) DEF Typed, DiskTypeOK, Images, Vers
  <2>3. BackupInv'
    BY <1>6, SMTT(30) DEF BackupInv, Undisturbed, Edits, Pair
  <2>4. PublishInv'
    BY <1>6, SMTT(30) DEF PublishInv, Whole, Edits, Pair, NamedStages
  <2> QED
    BY <2>1, <2>2, <2>3, <2>4, BackupFramed
<1>7. CASE NoMountLeft
  <2>1. BackupFrame /\ c.pc \notin {"done", "ended"}
    BY <1>7, SMTT(30) DEF BackupFrame
  <2>2. Typed'
    BY <1>7, SMTT(30) DEF Typed, DiskTypeOK, Images, Vers
  <2>3. BackupInv'
    BY <1>7, SMTT(30) DEF BackupInv, Undisturbed, Edits, Pair
  <2>4. PublishInv'
    BY <1>7, SMTT(30) DEF PublishInv, Whole, Edits, Pair, NamedStages
  <2> QED
    BY <2>1, <2>2, <2>3, <2>4, BackupFramed
<1>8. CASE MeasureContainer
  <2>1. BackupFrame /\ c.pc \notin {"done", "ended"}
    BY <1>8, SMTT(30) DEF BackupFrame
  <2>2. Typed'
    BY <1>8, SMTT(30) DEF Typed, DiskTypeOK, Images, Vers
  <2>3. BackupInv'
    BY <1>8, SMTT(30) DEF BackupInv, Undisturbed, Edits, Pair
  <2>4. PublishInv'
    BY <1>8, SMTT(30) DEF PublishInv, Whole, Edits, Pair, NamedStages
  <2> QED
    BY <2>1, <2>2, <2>3, <2>4, BackupFramed
<1>9. CASE BackupRefuse
  <2>1. BackupFrame /\ c.pc \notin {"done", "ended"}
    BY <1>9, SMTT(30) DEF BackupFrame
  <2>2. Typed'
    BY <1>9, SMTT(30) DEF Typed, DiskTypeOK, Images, Vers
  <2>3. BackupInv'
    BY <1>9, SMTT(30) DEF BackupInv, Undisturbed, Edits, Pair
  <2>4. PublishInv'
    BY <1>9, SMTT(30) DEF PublishInv, Whole, Edits, Pair, NamedStages
  <2> QED
    BY <2>1, <2>2, <2>3, <2>4, BackupFramed
<1> QED
  BY <1>1, <1>2, <1>3, <1>4, <1>5, <1>6, <1>7, <1>8, <1>9

\* The source is held, checked again, and read into the temporary file.
LEMMA BackupReading ==
  ASSUME CaptureInv,
         \/ BackupDestination \/ OpenSource \/ BeforeRead
         \/ UnmountSource("check-unmount", "check-mounts") \/ BeforeReadMounts
         \/ BackupTemporary \/ CopyChunk("first", "copy", "copy-rest")
         \/ CopyChunk("rest", "copy-rest", "copy-sync") \/ CopySync
         \/ HashExact("first", "hash", "hash-rest")
         \/ HashExact("rest", "hash-rest", "convert")
         \/ ConvertContainer("first", "convert", "convert-rest")
         \/ ConvertContainer("rest", "convert-rest", "convert-sync")
  PROVE  CaptureInv'
<1> USE DEF UndoStages, SourceHeldStages, CountedStages, ContainerStages, ConvertedStages,
            HandoverStages, CaptureInv, disk, CommandFields, Formats, Backup, Doing, Proceed,
            Pass, BackupDestination, PrepareDestination, OpenSource, NoneMounted, BeforeRead,
            RevalidateSource, SameIdentity, ValidateSource, VerifyHeldSource, VerifyOpenDevice,
            UnmountSource, UnmountListed, BeforeReadMounts, BackupTemporary, CopyChunk,
            WritePart, CopySync, HashExact, ConvertContainer
<1>1. CASE BackupDestination
  <2>1. dest' \in Destinations
    BY <1>1, ZenonT(30) DEF Typed, Destinations
  <2>2. /\ dest'.temp = dest.temp
        /\ dest'.name = dest.name /\ dest'.kept = dest.kept /\ dest'.removed = dest.removed
    BY <1>1, DestinationFields, SMTT(30) DEF Typed, Destinations
  <2>3. BackupFrame /\ c.pc \notin {"done", "ended"}
    BY <1>1, SMTT(30) DEF BackupFrame
  <2>4. Typed'
    BY <1>1, <2>1, <2>2, SMTT(30) DEF Typed, DiskTypeOK, Images, Vers
  <2>5. BackupInv'
    BY <1>1, SMTT(30) DEF BackupInv, Undisturbed, Edits, Pair
  <2>6. PublishInv'
    BY <1>1, <2>1, <2>2, SMTT(30) DEF PublishInv, Whole, Edits, Pair, NamedStages
  <2> QED
    BY <2>3, <2>4, <2>5, <2>6, BackupFramed
<1>2. CASE OpenSource
  <2>1. BackupFrame /\ c.pc \notin {"done", "ended"}
    BY <1>2, SMTT(30) DEF BackupFrame
  <2>2. Typed'
    BY <1>2, SMTT(30) DEF Typed, DiskTypeOK, Images, Vers
  <2>3. BackupInv'
    BY <1>2, SMTT(30) DEF BackupInv, Undisturbed, Edits, Pair
  <2>4. PublishInv'
    BY <1>2, SMTT(30) DEF PublishInv, Whole, Edits, Pair, NamedStages
  <2> QED
    BY <2>1, <2>2, <2>3, <2>4, BackupFramed
<1>3. CASE BeforeRead
  <2>1. /\ c' = [c EXCEPT !.pc = "check-unmount", !.listed = mounts]
        /\ c.pc = "check" /\ c.fd = c.identity /\ c.fd # None /\ c.format \in Formats
        /\ UNCHANGED <<disk, src, dest>>
    BY <1>3
  <2>2. BackupFrame /\ c.pc \notin {"done", "ended"}
    BY <2>1, SMTT(30) DEF BackupFrame
  <2>3. Typed'
    BY <2>1, SMTT(30) DEF Typed, DiskTypeOK, Images, Vers
  <2>4. BackupInv'
    BY <2>1, SMTT(30) DEF BackupInv, Undisturbed, Edits, Pair
  <2>5. PublishInv'
    BY <2>1, SMTT(30) DEF PublishInv, Whole, Edits, Pair, NamedStages
  <2> QED
    BY <2>2, <2>3, <2>4, <2>5, BackupFramed
<1>4. CASE UnmountSource("check-unmount", "check-mounts")
  <2>1. BackupFrame /\ c.pc \notin {"done", "ended"}
    BY <1>4, SMTT(30) DEF BackupFrame
  <2>2. Typed'
    BY <1>4, SMTT(30) DEF Typed, DiskTypeOK, Images, Vers
  <2>3. BackupInv'
    BY <1>4, SMTT(30) DEF BackupInv, Undisturbed, Edits, Pair
  <2>4. PublishInv'
    BY <1>4, SMTT(30) DEF PublishInv, Whole, Edits, Pair, NamedStages
  <2> QED
    BY <2>1, <2>2, <2>3, <2>4, BackupFramed
<1>5. CASE BeforeReadMounts
  <2>1. BackupFrame /\ c.pc \notin {"done", "ended"}
    BY <1>5, SMTT(30) DEF BackupFrame
  <2>2. Typed'
    BY <1>5, SMTT(30) DEF Typed, DiskTypeOK, Images, Vers
  <2>3. BackupInv'
    BY <1>5, SMTT(30) DEF BackupInv, Undisturbed, Edits, Pair
  <2>4. PublishInv'
    BY <1>5, SMTT(30) DEF PublishInv, Whole, Edits, Pair, NamedStages
  <2> QED
    BY <2>1, <2>2, <2>3, <2>4, BackupFramed
<1>6. CASE BackupTemporary
  <2>1. dest' \in Destinations
    BY <1>6, ZenonT(30) DEF Typed, Destinations
  <2>2. /\ dest'.temp = TRUE
        /\ dest'.name = dest.name /\ dest'.kept = dest.kept /\ dest'.removed = dest.removed
    BY <1>6, DestinationFields, SMTT(30) DEF Typed, Destinations
  <2>3. Edits' = Edits /\ Edits \in Nat /\ c'.read = Edits
    BY <1>6, SourceThere DEF Typed, Edits
  <2>4. BackupFrame /\ c.pc \notin {"done", "ended"}
    BY <1>6, SMTT(30) DEF BackupFrame
  <2>5. Typed'
    BY <1>6, <2>1, <2>2, <2>3, SMTT(30) DEF Typed, DiskTypeOK, Images, Vers
  <2>6. BackupInv'
    BY <1>6, <2>1, <2>2, <2>3, SMTT(30) DEF BackupInv, Undisturbed, Edits, Pair
  <2>7. PublishInv'
    BY <1>6, <2>1, <2>2, <2>3, SMTT(30) DEF PublishInv, Whole, Edits, Pair, NamedStages
  <2> QED
    BY <2>4, <2>5, <2>6, <2>7, BackupFramed
<1>7. CASE CopyChunk("first", "copy", "copy-rest")
  <2>1. /\ c.pc = "copy" /\ c.fd = c.identity /\ c.fd # None /\ c.read <= Edits
        /\ c.format = "raw" /\ c.from = {}
    BY <1>7, SMTT(30) DEF BackupInv
  <2>2. /\ c'.fd = c.fd /\ c'.identity = c.identity /\ c'.read = c.read /\ Edits' = Edits
        /\ c'.from = {port} /\ port = c.fd /\ c'.image = <<src.first.ver, "none">>
    BY <1>7, <2>1, SMTT(30) DEF Typed, Edits
  <2>3. c'.image \in Vers \X Vers /\ c'.image[1] = src'.first.ver
    BY <1>7, <2>1, <2>2, SMTT(30) DEF Typed, Part, Vers
  <2>4. BackupFrame /\ c.pc \notin {"done", "ended"}
    BY <1>7, SMTT(30) DEF BackupFrame
  <2>5. Typed'
    BY <1>7, <2>1, <2>2, <2>3, SMTT(30) DEF Typed, DiskTypeOK, Images, Vers
  <2>6. BackupInv'
    BY <1>7, <2>1, <2>2, <2>3, SMTT(30) DEF BackupInv, Undisturbed, Edits, Pair
  <2>7. PublishInv'
    BY <1>7, SMTT(30) DEF PublishInv, Whole, Edits, Pair, NamedStages
  <2> QED
    BY <2>4, <2>5, <2>6, <2>7, BackupFramed
<1>8. CASE CopyChunk("rest", "copy-rest", "copy-sync")
  <2>1. /\ c.pc = "copy-rest" /\ c.fd = c.identity /\ c.fd # None /\ c.read <= Edits
        /\ c.format = "raw" /\ c.from = {c.identity} /\ c.image \in Vers \X Vers
        /\ Edits = c.read => c.image[1] = src.first.ver
    BY <1>8, SMTT(30) DEF BackupInv
  <2>2. /\ c'.fd = c.fd /\ c'.identity = c.identity /\ c'.read = c.read /\ Edits' = Edits
        /\ c'.from = {c.identity} /\ c'.image = <<c.image[1], src.rest.ver>> /\ src' = src
    BY <1>8, <2>1, SMTT(30) DEF Typed, Edits
  <2>3. /\ c'.image \in Vers \X Vers
        /\ Edits = c.read => c'.image = Pair(src)
    BY <1>8, <2>1, <2>2, SMTT(30) DEF Typed, Part, Vers, Pair
  <2>4. BackupFrame /\ c.pc \notin {"done", "ended"}
    BY <1>8, SMTT(30) DEF BackupFrame
  <2>5. Typed'
    BY <1>8, <2>1, <2>2, <2>3, SMTT(30) DEF Typed, DiskTypeOK, Images, Vers
  <2>6. BackupInv'
    BY <1>8, <2>1, <2>2, <2>3, SMTT(30) DEF BackupInv, Undisturbed, Edits, Pair
  <2>7. PublishInv'
    BY <1>8, SMTT(30) DEF PublishInv, Whole, Edits, Pair, NamedStages
  <2> QED
    BY <2>4, <2>5, <2>6, <2>7, BackupFramed
<1>9. CASE CopySync
  <2>1. /\ c.pc = "copy-sync" /\ c.fd = c.identity /\ c.fd # None /\ c.read <= Edits
        /\ c.format = "raw" /\ c.from = {c.identity} /\ c.image \in Vers \X Vers
        /\ Edits = c.read => c.image = Pair(src)
    BY <1>9, SMTT(30) DEF BackupInv
  <2>2. /\ c'.fd = c.fd /\ c'.identity = c.identity /\ c'.read = c.read /\ Edits' = Edits
        /\ c'.from = c.from /\ c'.image = c.image /\ c'.digest = c.image /\ src' = src
    BY <1>9, <2>1, SMTT(30) DEF Typed, Edits
  <2>3. Undisturbed'
    BY <1>9, <2>1, <2>2, SourceThere, SMTT(30) DEF Undisturbed
  <2>4. BackupFrame /\ c.pc \notin {"done", "ended"}
    BY <1>9, SMTT(30) DEF BackupFrame
  <2>5. Typed'
    BY <1>9, <2>1, <2>2, <2>3, SMTT(30) DEF Typed, DiskTypeOK, Images, Vers
  <2>6. BackupInv'
    BY <1>9, <2>1, <2>2, <2>3, SMTT(30) DEF BackupInv, Undisturbed, Edits, Pair
  <2>7. PublishInv'
    BY <1>9, SMTT(30) DEF PublishInv, Whole, Edits, Pair, NamedStages
  <2> QED
    BY <2>4, <2>5, <2>6, <2>7, BackupFramed
<1>10. CASE HashExact("first", "hash", "hash-rest")
  <2>1. /\ c.pc = "hash" /\ c.fd = c.identity /\ c.fd # None /\ c.read <= Edits
        /\ c.format # "raw" /\ c.from = {}
    BY <1>10, SMTT(30) DEF BackupInv
  <2>2. /\ c'.fd = c.fd /\ c'.identity = c.identity /\ c'.read = c.read /\ Edits' = Edits
        /\ c'.from = {} /\ c'.digest = <<src.first.ver, "none">> /\ src' = src
    BY <1>10, <2>1, SMTT(30) DEF Typed, Edits
  <2>3. c'.digest \in Vers \X Vers /\ c'.digest[1] = src'.first.ver
    BY <1>10, <2>1, <2>2, SMTT(30) DEF Typed, Part, Vers
  <2>4. BackupFrame /\ c.pc \notin {"done", "ended"}
    BY <1>10, SMTT(30) DEF BackupFrame
  <2>5. Typed'
    BY <1>10, <2>1, <2>2, <2>3, SMTT(30) DEF Typed, DiskTypeOK, Images, Vers
  <2>6. BackupInv'
    BY <1>10, <2>1, <2>2, <2>3, SMTT(30) DEF BackupInv, Undisturbed, Edits, Pair
  <2>7. PublishInv'
    BY <1>10, SMTT(30) DEF PublishInv, Whole, Edits, Pair, NamedStages
  <2> QED
    BY <2>4, <2>5, <2>6, <2>7, BackupFramed
<1>11. CASE HashExact("rest", "hash-rest", "convert")
  <2>1. /\ c.pc = "hash-rest" /\ c.fd = c.identity /\ c.fd # None /\ c.read <= Edits
        /\ c.format # "raw" /\ c.from = {} /\ c.digest \in Vers \X Vers
        /\ Edits = c.read => c.digest[1] = src.first.ver
    BY <1>11, SMTT(30) DEF BackupInv
  <2>2. /\ c'.fd = c.fd /\ c'.identity = c.identity /\ c'.read = c.read /\ Edits' = Edits
        /\ c'.from = {} /\ c'.digest = <<c.digest[1], src.rest.ver>> /\ src' = src
    BY <1>11, <2>1, SMTT(30) DEF Typed, Edits
  <2>3. /\ c'.digest \in Vers \X Vers
        /\ Edits = c.read => c'.digest = Pair(src)
    BY <1>11, <2>1, <2>2, SMTT(30) DEF Typed, Part, Vers, Pair
  <2>4. BackupFrame /\ c.pc \notin {"done", "ended"}
    BY <1>11, SMTT(30) DEF BackupFrame
  <2>5. Typed'
    BY <1>11, <2>1, <2>2, <2>3, SMTT(30) DEF Typed, DiskTypeOK, Images, Vers
  <2>6. BackupInv'
    BY <1>11, <2>1, <2>2, <2>3, SMTT(30) DEF BackupInv, Undisturbed, Edits, Pair
  <2>7. PublishInv'
    BY <1>11, SMTT(30) DEF PublishInv, Whole, Edits, Pair, NamedStages
  <2> QED
    BY <2>4, <2>5, <2>6, <2>7, BackupFramed
<1>12. CASE ConvertContainer("first", "convert", "convert-rest")
  <2>1. /\ c.pc = "convert" /\ c.fd = c.identity /\ c.fd # None /\ c.read <= Edits
        /\ c.format # "raw" /\ c.from = {} /\ (Edits = c.read => c.digest = Pair(src))
    BY <1>12, SMTT(30) DEF BackupInv
  <2>2. /\ c'.fd = c.fd /\ c'.identity = c.identity /\ c'.read = c.read /\ Edits' = Edits
        /\ c'.from = {port} /\ port = c.fd /\ c'.image = <<src.first.ver, "none">>
        /\ c'.digest = c.digest /\ src' = src
    BY <1>12, <2>1, SMTT(30) DEF Typed, Edits
  <2>3. c'.image \in Vers \X Vers /\ c'.image[1] = src'.first.ver /\ Pair(src)' = Pair(src)
    BY <1>12, <2>1, <2>2, SMTT(30) DEF Typed, Part, Vers, Pair
  <2>4. BackupFrame /\ c.pc \notin {"done", "ended"}
    BY <1>12, SMTT(30) DEF BackupFrame
  <2>5. Typed'
    BY <1>12, <2>1, <2>2, <2>3, SMTT(30) DEF Typed, DiskTypeOK, Images, Vers
  <2>6. BackupInv'
    BY <1>12, <2>1, <2>2, <2>3, SMTT(30) DEF BackupInv, Undisturbed, Edits, Pair
  <2>7. PublishInv'
    BY <1>12, SMTT(30) DEF PublishInv, Whole, Edits, Pair, NamedStages
  <2> QED
    BY <2>4, <2>5, <2>6, <2>7, BackupFramed
<1>13. CASE ConvertContainer("rest", "convert-rest", "convert-sync")
  <2>1. /\ c.pc = "convert-rest" /\ c.fd = c.identity /\ c.fd # None /\ c.read <= Edits
        /\ c.format # "raw" /\ c.from = {c.identity} /\ c.image \in Vers \X Vers
        /\ Edits = c.read => c.image[1] = src.first.ver /\ c.digest = Pair(src)
    BY <1>13, SMTT(30) DEF BackupInv
  <2>2. /\ c'.fd = c.fd /\ c'.identity = c.identity /\ c'.read = c.read /\ Edits' = Edits
        /\ c'.from = {c.identity} /\ c'.image = <<c.image[1], src.rest.ver>>
        /\ c'.digest = c.digest /\ src' = src
    BY <1>13, <2>1, SMTT(30) DEF Typed, Edits
  <2>3. c'.image \in Vers \X Vers /\ Undisturbed'
    BY <1>13, <2>1, <2>2, SourceThere, SMTT(30) DEF Typed, Part, Vers, Pair, Undisturbed
  <2>4. BackupFrame /\ c.pc \notin {"done", "ended"}
    BY <1>13, SMTT(30) DEF BackupFrame
  <2>5. Typed'
    BY <1>13, <2>1, <2>2, <2>3, SMTT(30) DEF Typed, DiskTypeOK, Images, Vers
  <2>6. BackupInv'
    BY <1>13, <2>1, <2>2, <2>3, SMTT(30) DEF BackupInv, Undisturbed, Edits, Pair
  <2>7. PublishInv'
    BY <1>13, SMTT(30) DEF PublishInv, Whole, Edits, Pair, NamedStages
  <2> QED
    BY <2>4, <2>5, <2>6, <2>7, BackupFramed
<1> QED
  BY <1>1, <1>2, <1>3, <1>4, <1>5, <1>6, <1>7, <1>8, <1>9, <1>10, <1>11, <1>12, <1>13

\* The file is compared, handed over and published.
LEMMA BackupPublishing ==
  ASSUME CaptureInv,
         \/ ConvertSync \/ CompareContainer(1, "first", "compare", "compare-rest")
         \/ CompareContainer(2, "rest", "compare-rest", "consistency") \/ CheckContainer
         \/ HashOutput \/ OutputSync \/ ApplyGraphicalDestinationOwner
         \/ VerifyAfterClose \/ BackupRevalidatePath \/ PublishNoReplace \/ BackupFail
  PROVE  CaptureInv'
<1> USE DEF UndoStages, SourceHeldStages, CountedStages, ContainerStages, ConvertedStages,
            HandoverStages, CaptureInv, disk, CommandFields, Formats, Backup, Doing, Proceed,
            Pass, ConvertSync, SyncFile, CompareContainer, CheckContainer, HashOutput,
            OutputSync, ApplyGraphicalDestinationOwner, VerifyAfterClose, BackupRevalidatePath,
            RevalidateDestination, PublishNoReplace, Rename, BackupFail, FailIn, Abandon
<1>1. CASE ConvertSync
  <2>1. BackupFrame /\ c.pc \notin {"done", "ended"}
    BY <1>1, SMTT(30) DEF BackupFrame
  <2>2. Typed'
    BY <1>1, SMTT(30) DEF Typed, DiskTypeOK, Images, Vers
  <2>3. BackupInv'
    BY <1>1, SMTT(30) DEF BackupInv, Undisturbed, Edits, Pair
  <2>4. PublishInv'
    BY <1>1, SMTT(30) DEF PublishInv, Whole, Edits, Pair, NamedStages
  <2> QED
    BY <2>1, <2>2, <2>3, <2>4, BackupFramed
<1>2. CASE CompareContainer(1, "first", "compare", "compare-rest")
  <2>1. BackupFrame /\ c.pc \notin {"done", "ended"}
    BY <1>2, SMTT(30) DEF BackupFrame
  <2>2. Typed'
    BY <1>2, SMTT(30) DEF Typed, DiskTypeOK, Images, Vers
  <2>3. BackupInv'
    BY <1>2, SMTT(30) DEF BackupInv, Undisturbed, Edits, Pair
  <2>4. PublishInv'
    BY <1>2, SMTT(30) DEF PublishInv, Whole, Edits, Pair, NamedStages
  <2> QED
    BY <2>1, <2>2, <2>3, <2>4, BackupFramed
<1>3. CASE CompareContainer(2, "rest", "compare-rest", "consistency")
  <2>1. BackupFrame /\ c.pc \notin {"done", "ended"}
    BY <1>3, SMTT(30) DEF BackupFrame
  <2>2. Typed'
    BY <1>3, SMTT(30) DEF Typed, DiskTypeOK, Images, Vers
  <2>3. BackupInv'
    BY <1>3, SMTT(30) DEF BackupInv, Undisturbed, Edits, Pair
  <2>4. PublishInv'
    BY <1>3, SMTT(30) DEF PublishInv, Whole, Edits, Pair, NamedStages
  <2> QED
    BY <2>1, <2>2, <2>3, <2>4, BackupFramed
<1>4. CASE CheckContainer
  <2>1. BackupFrame /\ c.pc \notin {"done", "ended"}
    BY <1>4, SMTT(30) DEF BackupFrame
  <2>2. Typed'
    BY <1>4, SMTT(30) DEF Typed, DiskTypeOK, Images, Vers
  <2>3. BackupInv'
    BY <1>4, SMTT(30) DEF BackupInv, Undisturbed, Edits, Pair
  <2>4. PublishInv'
    BY <1>4, SMTT(30) DEF PublishInv, Whole, Edits, Pair, NamedStages
  <2> QED
    BY <2>1, <2>2, <2>3, <2>4, BackupFramed
<1>5. CASE HashOutput
  <2>1. BackupFrame /\ c.pc \notin {"done", "ended"}
    BY <1>5, SMTT(30) DEF BackupFrame
  <2>2. Typed'
    BY <1>5, SMTT(30) DEF Typed, DiskTypeOK, Images, Vers
  <2>3. BackupInv'
    BY <1>5, SMTT(30) DEF BackupInv, Undisturbed, Edits, Pair
  <2>4. PublishInv'
    BY <1>5, SMTT(30) DEF PublishInv, Whole, Edits, Pair, NamedStages
  <2> QED
    BY <2>1, <2>2, <2>3, <2>4, BackupFramed
<1>6. CASE OutputSync
  <2>1. BackupFrame /\ c.pc \notin {"done", "ended"}
    BY <1>6, SMTT(30) DEF BackupFrame
  <2>2. Typed'
    BY <1>6, SMTT(30) DEF Typed, DiskTypeOK, Images, Vers
  <2>3. BackupInv'
    BY <1>6, SMTT(30) DEF BackupInv, Undisturbed, Edits, Pair
  <2>4. PublishInv'
    BY <1>6, SMTT(30) DEF PublishInv, Whole, Edits, Pair, NamedStages
  <2> QED
    BY <2>1, <2>2, <2>3, <2>4, BackupFramed
<1>7. CASE ApplyGraphicalDestinationOwner
  <2>1. BackupFrame /\ c.pc \notin {"done", "ended"}
    BY <1>7, SMTT(30) DEF BackupFrame
  <2>2. Typed'
    BY <1>7, SMTT(30) DEF Typed, DiskTypeOK, Images, Vers
  <2>3. BackupInv'
    BY <1>7, SMTT(30) DEF BackupInv, Undisturbed, Edits, Pair
  <2>4. PublishInv'
    BY <1>7, SMTT(30) DEF PublishInv, Whole, Edits, Pair, NamedStages
  <2> QED
    BY <2>1, <2>2, <2>3, <2>4, BackupFramed
<1>8. CASE VerifyAfterClose
  <2>1. BackupFrame /\ c.pc \notin {"done", "ended"}
    BY <1>8, SMTT(30) DEF BackupFrame
  <2>2. Typed'
    BY <1>8, SMTT(30) DEF Typed, DiskTypeOK, Images, Vers
  <2>3. BackupInv'
    BY <1>8, SMTT(30) DEF BackupInv, Undisturbed, Edits, Pair
  <2>4. PublishInv'
    BY <1>8, SMTT(30) DEF PublishInv, Whole, Edits, Pair, NamedStages
  <2> QED
    BY <2>1, <2>2, <2>3, <2>4, BackupFramed
<1>9. CASE BackupRevalidatePath
  <2>1. BackupFrame /\ c.pc \notin {"done", "ended"}
    BY <1>9, SMTT(30) DEF BackupFrame
  <2>2. Typed'
    BY <1>9, SMTT(30) DEF Typed, DiskTypeOK, Images, Vers
  <2>3. BackupInv'
    BY <1>9, SMTT(30) DEF BackupInv, Undisturbed, Edits, Pair
  <2>4. PublishInv'
    BY <1>9, SMTT(30) DEF PublishInv, Whole, Edits, Pair, NamedStages
  <2> QED
    BY <2>1, <2>2, <2>3, <2>4, BackupFramed
<1>10. CASE PublishNoReplace
  <2>1. dest' \in Destinations
    BY <1>10, ZenonT(30) DEF Typed, Destinations
  <2>2. /\ ~dest'.temp /\ dest'.name = "image"
        /\ dest'.removed = dest.removed /\ dest.name = "free"
    BY <1>10, DestinationFields, SMTT(30) DEF Typed, Destinations
  <2>3. /\ c.synced /\ c.from = {c.identity} /\ Undisturbed /\ c.own = {} /\ c.work = {}
        /\ c.format = "raw" => c.digest = c.image
    BY <1>10, SMTT(30) DEF BackupInv, MountInv
  <2>4. /\ c.pc = "publish" /\ c.format \in Formats
        /\ c' = [c EXCEPT !.pc = "publish-sync"] /\ UNCHANGED <<disk, src>>
    BY <1>10
  <2>5. BackupFrame /\ c.pc \notin {"done", "ended"}
    BY <2>1, <2>2, <2>3, <2>4, SMTT(30) DEF BackupFrame
  <2>6. Typed'
    BY <2>1, <2>4, SMTT(30) DEF Typed, DiskTypeOK, Images, Vers
  <2>7. BackupInv'
    BY <2>1, <2>2, <2>3, <2>4, SMTT(30) DEF BackupInv, Undisturbed, Edits, Pair
  <2>8. PublishInv'
    BY <2>1, <2>2, <2>3, <2>4, SMTT(30) DEF PublishInv, Whole, Edits, Pair, NamedStages, Typed,
                                            Undisturbed
  <2> QED
    BY <2>5, <2>6, <2>7, <2>8, BackupFramed
<1>11. CASE BackupFail
  <2>1. BackupFrame /\ c.pc \notin {"done", "ended"}
    BY <1>11, SMTT(30) DEF BackupFrame
  <2>2. Typed'
    BY <1>11, SMTT(30) DEF Typed, DiskTypeOK, Images, Vers
  <2>3. BackupInv'
    BY <1>11, SMTT(30) DEF BackupInv, Undisturbed, Edits, Pair
  <2>4. PublishInv'
    BY <1>11, SMTT(30) DEF PublishInv, Whole, Edits, Pair, NamedStages
  <2> QED
    BY <2>1, <2>2, <2>3, <2>4, BackupFramed
<1> QED
  BY <1>1, <1>2, <1>3, <1>4, <1>5, <1>6, <1>7, <1>8, <1>9, <1>10, <1>11

\* So does a step of an ISO capture, unless it loses a mount.
IsoFrame ==
  /\ src' = src
  /\ DOMAIN c' = DOMAIN c
  /\ c.format = "iso" /\ c'.format = "iso"
  /\ c.pc \notin {"done", "ended"}

LEMMA IsoFramed == ASSUME CaptureInv, IsoFrame PROVE SourceInv' /\ BackupInv'
<1>1. SourceInv'
  BY DEF CaptureInv, SourceInv, IsoFrame, Pair
<1>2. BackupInv'
  BY DEF IsoFrame, BackupInv, Formats
<1> QED
  BY <1>1, <1>2

\* What inventories hold.
LEMMA ScansHold ==
  /\ HalfScans \subseteq Scans /\ FullScans \subseteq Scans /\ None \in Scans
  /\ \A s \in HalfScans : s.first \in Part /\ s.mount \in 0..MaxOthers + 1 /\ s.rest = None
<1>1. HalfScans \subseteq Scans /\ FullScans \subseteq Scans /\ None \in Scans
  BY DEF HalfScans, FullScans, Scans
<1>2. \A s \in HalfScans : s.first \in Part /\ s.mount \in 0..MaxOthers + 1 /\ s.rest = None
  BY DEF HalfScans
<1> QED
  BY <1>1, <1>2

LEMMA ScanFirstHalf ==
  ASSUME CaptureInv, NEW from, NEW stage, ScanFirst(from, stage)
  PROVE  \E half \in HalfScans :
           half.first = src.first /\ c' = [c EXCEPT !.pc = stage, !.scan = half]
<1> DEFINE half == [mount |-> MountId, first |-> src.first, rest |-> None]
<1>1. MountId \in 0..MaxOthers + 1
  BY BoundAssumption DEF CaptureInv, Typed, MountId
<1>2. half \in HalfScans
  BY <1>1, ZenonT(30) DEF HalfScans, CaptureInv, Typed
<1>3. c' = [c EXCEPT !.pc = stage, !.scan = half] /\ half.first = src.first
  BY DEF ScanFirst
<1> QED
  BY <1>2, <1>3

LEMMA ScannedFull ==
  ASSUME CaptureInv, c.scan \in HalfScans
  PROVE  Scanned \in FullScans /\ Scanned.first = c.scan.first /\ Scanned.rest = src.rest
<1>1. Scanned \in FullScans
  BY ZenonT(30) DEF CaptureInv, Typed, Scanned, HalfScans, FullScans
<1>2. Scanned.first = c.scan.first /\ Scanned.rest = src.rest
  BY DEF Scanned, HalfScans
<1> QED
  BY <1>1, <1>2

\* From the options to the read-only view.
LEMMA IsoReview ==
  ASSUME CaptureInv,
         \/ FindFilesystem \/ ScanFirst("plan", "plan-rest") \/ PlanScanned
         \/ InspectFilesystemCapture \/ IsoDryRun \/ ConfirmISOCapture
         \/ RevalidateISOSource \/ ScanFirst("view", "view-rest") \/ ViewBefore
         \/ ViewWorkspace \/ RemountView \/ ScanFirst("view-scan", "view-scan-rest")
         \/ ViewScanned \/ IsoRefuse
  PROVE  CaptureInv'
<1> USE DEF HalfStages, UndoStages, UnplannedStages, UnviewedStages, UnconfirmedStages,
            UncomparedStages, HandoverStages, NoViewStages, ViewStages, CaptureInv, disk,
            CommandFields, Iso, Doing, Proceed, Pass, FindFilesystem, SelectISOSource,
            DiscoverSource, ValidateSource, PlanScanned, ScanRest, InspectFilesystemCapture,
            InspectDestination, IsoDryRun, End, ConfirmISOCapture, RevalidateISOSource,
            ViewBefore, ViewWorkspace, BindView, RemountView, ScanFirst, ViewScanned, IsoRefuse
<1>1. CASE FindFilesystem
  <2>1. IsoFrame
    BY <1>1, SMTT(30) DEF IsoFrame
  <2>2. Typed'
    BY <1>1, SMTT(30) DEF Typed, DiskTypeOK, Images, Vers
  <2>3. MountInv'
    BY <1>1, SMTT(30) DEF Typed, MountInv, Formats
  <2>4. IsoInv'
    BY <1>1, SMTT(30) DEF Typed, IsoInv, Together
  <2>5. PublishInv'
    BY <1>1, SMTT(30) DEF PublishInv, Whole, Edits, Content, Pair, NamedStages
  <2> QED
    BY <2>1, <2>2, <2>3, <2>4, <2>5, IsoFramed
<1>2. CASE ScanFirst("plan", "plan-rest")
  <2>1. /\ c.pc = "plan" /\ c.format = "iso" /\ UNCHANGED <<disk, src, dest>>
        /\ c.from = {}
    BY <1>2, SMTT(30) DEF IsoInv, Together, Content
  <2>2. PICK half \in HalfScans : half.first = src.first
                                /\ c' = [c EXCEPT !.pc = "plan-rest", !.scan = half]
    BY <1>2, ScanFirstHalf
  <2>3. half \in Scans
    BY ScansHold
  <2>4. IsoFrame
    BY <2>1, <2>2, <2>3, SMTT(30) DEF IsoFrame
  <2>5. Typed'
    BY <2>1, <2>2, <2>3, SMTT(30) DEF Typed, DiskTypeOK, Images, Vers
  <2>6. MountInv'
    BY <2>1, <2>2, <2>3, SMTT(30) DEF Typed, MountInv, Formats
  <2>7. IsoInv'
    BY <2>1, <2>2, <2>3, SMTT(30) DEF Typed, IsoInv, Together
  <2>8. PublishInv'
    BY <2>1, <2>2, <2>3, SMTT(30) DEF PublishInv, Whole, Edits, Content, Pair, NamedStages
  <2> QED
    BY <2>4, <2>5, <2>6, <2>7, <2>8, IsoFramed
<1>3. CASE PlanScanned
  <2>1. /\ c.pc = "plan-rest" /\ c.format = "iso" /\ UNCHANGED <<disk, src, dest>>
        /\ c.scan \in HalfScans
        /\ c.from = {}
    BY <1>3, SMTT(30) DEF IsoInv, SourceInv, Content, Together
  <2>2. c' = [c EXCEPT !.pc = "plan-destination", !.plan = Scanned, !.scan = None]
    BY <1>3
  <2>3. /\ Scanned \in FullScans /\ Scanned \in Scans /\ None \in Scans
        /\ Scanned.first = c.scan.first /\ Scanned.rest = src.rest
    BY <2>1, ScannedFull, ScansHold
  <2>4. IsoFrame
    BY <2>1, <2>2, <2>3, SMTT(30) DEF IsoFrame
  <2>5. Typed'
    BY <2>1, <2>2, <2>3, SMTT(30) DEF Typed, DiskTypeOK, Images, Vers
  <2>6. MountInv'
    BY <2>1, <2>2, <2>3, SMTT(30) DEF Typed, MountInv, Formats
  <2>7. IsoInv'
    BY <2>1, <2>2, <2>3, SMTT(30) DEF Typed, IsoInv, Together
  <2>8. PublishInv'
    BY <2>1, <2>2, <2>3, SMTT(30) DEF PublishInv, Whole, Edits, Content, Pair, NamedStages
  <2> QED
    BY <2>4, <2>5, <2>6, <2>7, <2>8, IsoFramed
<1>4. CASE InspectFilesystemCapture
  <2>1. IsoFrame
    BY <1>4, SMTT(30) DEF IsoFrame
  <2>2. Typed'
    BY <1>4, SMTT(30) DEF Typed, DiskTypeOK, Images, Vers
  <2>3. MountInv'
    BY <1>4, SMTT(30) DEF Typed, MountInv, Formats
  <2>4. IsoInv'
    BY <1>4, SMTT(30) DEF Typed, IsoInv, Together
  <2>5. PublishInv'
    BY <1>4, SMTT(30) DEF PublishInv, Whole, Edits, Content, Pair, NamedStages
  <2> QED
    BY <2>1, <2>2, <2>3, <2>4, <2>5, IsoFramed
<1>5. CASE IsoDryRun
  <2>1. IsoFrame
    BY <1>5, SMTT(30) DEF IsoFrame
  <2>2. Typed'
    BY <1>5, SMTT(30) DEF Typed, DiskTypeOK, Images, Vers
  <2>3. MountInv'
    BY <1>5, SMTT(30) DEF Typed, MountInv, Formats
  <2>4. IsoInv'
    BY <1>5, SMTT(30) DEF Typed, IsoInv, Together
  <2>5. PublishInv'
    BY <1>5, SMTT(30) DEF PublishInv, Whole, Edits, Content, Pair, NamedStages
  <2> QED
    BY <2>1, <2>2, <2>3, <2>4, <2>5, IsoFramed
<1>6. CASE ConfirmISOCapture
  <2>1. IsoFrame
    BY <1>6, SMTT(30) DEF IsoFrame
  <2>2. Typed'
    BY <1>6, SMTT(30) DEF Typed, DiskTypeOK, Images, Vers
  <2>3. MountInv'
    BY <1>6, SMTT(30) DEF Typed, MountInv, Formats
  <2>4. IsoInv'
    BY <1>6, SMTT(30) DEF Typed, IsoInv, Together
  <2>5. PublishInv'
    BY <1>6, SMTT(30) DEF PublishInv, Whole, Edits, Content, Pair, NamedStages
  <2> QED
    BY <2>1, <2>2, <2>3, <2>4, <2>5, IsoFramed
<1>7. CASE RevalidateISOSource
  <2>1. IsoFrame
    BY <1>7, SMTT(30) DEF IsoFrame
  <2>2. Typed'
    BY <1>7, SMTT(30) DEF Typed, DiskTypeOK, Images, Vers
  <2>3. MountInv'
    BY <1>7, SMTT(30) DEF Typed, MountInv, Formats
  <2>4. IsoInv'
    BY <1>7, SMTT(30) DEF Typed, IsoInv, Together
  <2>5. PublishInv'
    BY <1>7, SMTT(30) DEF PublishInv, Whole, Edits, Content, Pair, NamedStages
  <2> QED
    BY <2>1, <2>2, <2>3, <2>4, <2>5, IsoFramed
<1>8. CASE ScanFirst("view", "view-rest")
  <2>1. /\ c.pc = "view" /\ c.format = "iso" /\ UNCHANGED <<disk, src, dest>>
        /\ c.plan \in FullScans /\ c.from = {}
    BY <1>8, SMTT(30) DEF IsoInv, Together, Content
  <2>2. PICK half \in HalfScans : half.first = src.first
                                /\ c' = [c EXCEPT !.pc = "view-rest", !.scan = half]
    BY <1>8, ScanFirstHalf
  <2>3. half \in Scans
    BY ScansHold
  <2>4. IsoFrame
    BY <2>1, <2>2, <2>3, SMTT(30) DEF IsoFrame
  <2>5. Typed'
    BY <2>1, <2>2, <2>3, SMTT(30) DEF Typed, DiskTypeOK, Images, Vers
  <2>6. MountInv'
    BY <2>1, <2>2, <2>3, SMTT(30) DEF Typed, MountInv, Formats
  <2>7. IsoInv'
    BY <2>1, <2>2, <2>3, SMTT(30) DEF Typed, IsoInv, Together
  <2>8. PublishInv'
    BY <2>1, <2>2, <2>3, SMTT(30) DEF PublishInv, Whole, Edits, Content, Pair, NamedStages
  <2> QED
    BY <2>4, <2>5, <2>6, <2>7, <2>8, IsoFramed
<1>9. CASE ViewBefore
  <2>1. /\ c.pc = "view-rest" /\ c.format = "iso" /\ UNCHANGED <<disk, src, dest>>
        /\ c.scan \in HalfScans
        /\ c.plan \in FullScans /\ c.from = {}
    BY <1>9, SMTT(30) DEF IsoInv, SourceInv, Content, Together
  <2>2. c' = [c EXCEPT !.pc = "workspace", !.scan = None]
    BY <1>9
  <2>3. /\ Scanned \in FullScans /\ Scanned \in Scans /\ None \in Scans
        /\ Scanned.first = c.scan.first /\ Scanned.rest = src.rest
    BY <2>1, ScannedFull, ScansHold
  <2>4. IsoFrame
    BY <2>1, <2>2, <2>3, SMTT(30) DEF IsoFrame
  <2>5. Typed'
    BY <2>1, <2>2, <2>3, SMTT(30) DEF Typed, DiskTypeOK, Images, Vers
  <2>6. MountInv'
    BY <2>1, <2>2, <2>3, SMTT(30) DEF Typed, MountInv, Formats
  <2>7. IsoInv'
    BY <2>1, <2>2, <2>3, SMTT(30) DEF Typed, IsoInv, Together
  <2>8. PublishInv'
    BY <2>1, <2>2, <2>3, SMTT(30) DEF PublishInv, Whole, Edits, Content, Pair, NamedStages
  <2> QED
    BY <2>4, <2>5, <2>6, <2>7, <2>8, IsoFramed
<1>10. CASE ViewWorkspace
  <2>1. IsoFrame
    BY <1>10, SMTT(30) DEF IsoFrame
  <2>2. Typed'
    BY <1>10, SMTT(30) DEF Typed, DiskTypeOK, Images, Vers
  <2>3. MountInv'
    BY <1>10, SMTT(30) DEF Typed, MountInv, Formats
  <2>4. IsoInv'
    BY <1>10, SMTT(30) DEF Typed, IsoInv, Together
  <2>5. PublishInv'
    BY <1>10, SMTT(30) DEF PublishInv, Whole, Edits, Content, Pair, NamedStages
  <2> QED
    BY <2>1, <2>2, <2>3, <2>4, <2>5, IsoFramed
<1>11. CASE RemountView
  <2>1. IsoFrame
    BY <1>11, SMTT(30) DEF IsoFrame
  <2>2. Typed'
    BY <1>11, SMTT(30) DEF Typed, DiskTypeOK, Images, Vers
  <2>3. MountInv'
    BY <1>11, SMTT(30) DEF Typed, MountInv, Formats
  <2>4. IsoInv'
    BY <1>11, SMTT(30) DEF Typed, IsoInv, Together
  <2>5. PublishInv'
    BY <1>11, SMTT(30) DEF PublishInv, Whole, Edits, Content, Pair, NamedStages
  <2> QED
    BY <2>1, <2>2, <2>3, <2>4, <2>5, IsoFramed
<1>12. CASE ScanFirst("view-scan", "view-scan-rest")
  <2>1. /\ c.pc = "view-scan" /\ c.format = "iso" /\ UNCHANGED <<disk, src, dest>>
        /\ c.plan \in FullScans /\ c.from = {}
    BY <1>12, SMTT(30) DEF IsoInv, Together, Content
  <2>2. PICK half \in HalfScans : half.first = src.first
                                /\ c' = [c EXCEPT !.pc = "view-scan-rest", !.scan = half]
    BY <1>12, ScanFirstHalf
  <2>3. half \in Scans
    BY ScansHold
  <2>4. IsoFrame
    BY <2>1, <2>2, <2>3, SMTT(30) DEF IsoFrame
  <2>5. Typed'
    BY <2>1, <2>2, <2>3, SMTT(30) DEF Typed, DiskTypeOK, Images, Vers
  <2>6. MountInv'
    BY <2>1, <2>2, <2>3, SMTT(30) DEF Typed, MountInv, Formats
  <2>7. IsoInv'
    BY <2>1, <2>2, <2>3, SMTT(30) DEF Typed, IsoInv, Together
  <2>8. PublishInv'
    BY <2>1, <2>2, <2>3, SMTT(30) DEF PublishInv, Whole, Edits, Content, Pair, NamedStages
  <2> QED
    BY <2>4, <2>5, <2>6, <2>7, <2>8, IsoFramed
<1>13. CASE ViewScanned
  <2>1. /\ c.pc = "view-scan-rest" /\ c.format = "iso" /\ UNCHANGED <<disk, src, dest>>
        /\ c.scan \in HalfScans
        /\ c.plan \in FullScans /\ c.from = {} /\ Pair(src) \in src.past
        /\ c.scan.first = src.first \/ src.first.stamp > c.scan.first.stamp
    BY <1>13, SMTT(30) DEF IsoInv, SourceInv, Content, Together
  <2>2. c' = [c EXCEPT !.pc = "prepare", !.view = Scanned, !.scan = None]
    BY <1>13
  <2>3. /\ Scanned \in FullScans /\ Scanned \in Scans /\ None \in Scans
        /\ Scanned.first = c.scan.first /\ Scanned.rest = src.rest
    BY <2>1, ScannedFull, ScansHold
  <2>4. Content(Scanned) = Content(c.plan)
    BY <1>13
  <2>5. Together(Scanned) \/ src.first.stamp > Scanned.first.stamp
    BY <2>1, <2>3 DEF Together, Pair
  <2>6. IsoFrame
    BY <2>1, <2>2, <2>3, <2>4, <2>5, SMTT(30) DEF IsoFrame
  <2>7. Typed'
    BY <2>1, <2>2, <2>3, <2>4, <2>5, SMTT(30) DEF Typed, DiskTypeOK, Images, Vers
  <2>8. MountInv'
    BY <2>1, <2>2, <2>3, <2>4, <2>5, SMTT(30) DEF Typed, MountInv, Formats
  <2>9. IsoInv'
    BY <2>1, <2>2, <2>3, <2>4, <2>5, SMTT(30) DEF Typed, IsoInv, Together
  <2>10. PublishInv'
    BY <2>1, <2>2, <2>3, <2>4, <2>5, SMTT(30) DEF PublishInv, Whole, Edits, Content, Pair,
                                                  NamedStages
  <2> QED
    BY <2>6, <2>7, <2>8, <2>9, <2>10, IsoFramed
<1>14. CASE IsoRefuse
  <2>1. IsoFrame
    BY <1>14, SMTT(30) DEF IsoFrame
  <2>2. Typed'
    BY <1>14, SMTT(30) DEF Typed, DiskTypeOK, Images, Vers
  <2>3. MountInv'
    BY <1>14, SMTT(30) DEF Typed, MountInv, Formats
  <2>4. IsoInv'
    BY <1>14, SMTT(30) DEF Typed, IsoInv, Together
  <2>5. PublishInv'
    BY <1>14, SMTT(30) DEF PublishInv, Whole, Edits, Content, Pair, NamedStages
  <2> QED
    BY <2>1, <2>2, <2>3, <2>4, <2>5, IsoFramed
<1> QED
  BY <1>1, <1>2, <1>3, <1>4, <1>5, <1>6, <1>7, <1>8, <1>9, <1>10, <1>11, <1>12, <1>13, <1>14

\* The view is bound and inventoried, the image is mastered.
LEMMA IsoMastering ==
  ASSUME CaptureInv,
         \/ BindView \/ PrepareISODestination \/ IsoTemporary \/ BuildProviderPlan
         \/ ValidatePrivateOutput \/ ScanFirst("master-scan", "master-rest")
         \/ MasterBefore \/ Provide("first", "provider", "provider-rest")
         \/ Provide("rest", "provider-rest", "master-sync") \/ MasterSync
         \/ ScanFirst("master-after", "after-rest") \/ MasterAfter \/ HashImage
  PROVE  CaptureInv'
<1> USE DEF HalfStages, UndoStages, UnplannedStages, UnviewedStages, UnconfirmedStages,
            UncomparedStages, HandoverStages, NoViewStages, ViewStages, CaptureInv, disk,
            CommandFields, Iso, Doing, Proceed, Pass, BindView, PrepareISODestination,
            PrepareDestination, IsoTemporary, CreateTemporary, BuildProviderPlan,
            ValidatePrivateOutput, MasterBefore, SameAsView, ScanRest, Provide, WritePart,
            MasterSync, SyncFile, MasterAfter, HashImage, ScanFirst
<1>1. CASE BindView
  <2>1. /\ c.pc = "bind" /\ c.format = "iso" /\ c.report = "none"
        /\ dest.name # "image" /\ c.own = {} /\ c.work = {"view"} /\ UNCHANGED <<disk, src, dest>>
    BY <1>1, SMTT(30) DEF Typed, MountInv, PublishInv, NamedStages
  <2>2. CASE c' = [c EXCEPT !.pc = "remount", !.own = {"bind"}, !.known = {"bind"}]
    <3>1. IsoFrame
      BY <2>1, <2>2, SMTT(30) DEF IsoFrame
    <3>2. Typed'
      BY <2>1, <2>2, SMTT(30) DEF Typed, DiskTypeOK, Images, Vers
    <3>3. MountInv'
      BY <2>1, <2>2, SMTT(30) DEF Typed, MountInv, Formats
    <3>4. IsoInv'
      BY <2>1, <2>2, SMTT(30) DEF Typed, IsoInv, Together
    <3>5. PublishInv'
      BY <2>1, <2>2, SMTT(30) DEF PublishInv, Whole, Edits, Content, Pair, NamedStages
    <3> QED
      BY <3>1, <3>2, <3>3, <3>4, <3>5, IsoFramed
  <2>3. CASE c' = [c EXCEPT !.pc = "undo", !.own = {"bind"}, !.cut = TRUE, !.report = "failed"]
    <3>1. IsoFrame
      BY <2>1, <2>3, SMTT(30) DEF IsoFrame
    <3>2. Typed'
      BY <2>1, <2>3, SMTT(30) DEF Typed, DiskTypeOK, Images, Vers
    <3>3. MountInv'
      BY <2>1, <2>3, SMTT(30) DEF Typed, MountInv, Formats
    <3>4. IsoInv'
      BY <2>1, <2>3, SMTT(30) DEF Typed, IsoInv, Together
    <3>5. PublishInv'
      BY <2>1, <2>3, SMTT(30) DEF PublishInv, Whole, Edits, Content, Pair, NamedStages
    <3> QED
      BY <3>1, <3>2, <3>3, <3>4, <3>5, IsoFramed
  <2> QED
    BY <1>1, <2>2, <2>3
<1>2. CASE PrepareISODestination
  <2>1. dest' \in Destinations
    BY <1>2, ZenonT(30) DEF Typed, Destinations
  <2>2. /\ dest'.temp = dest.temp
        /\ dest'.name = dest.name /\ dest'.kept = dest.kept /\ dest'.removed = dest.removed
    BY <1>2, DestinationFields, SMTT(30) DEF Typed, Destinations
  <2>3. IsoFrame
    BY <1>2, SMTT(30) DEF IsoFrame
  <2>4. Typed'
    BY <1>2, <2>1, <2>2, SMTT(30) DEF Typed, DiskTypeOK, Images, Vers
  <2>5. MountInv'
    BY <1>2, SMTT(30) DEF Typed, MountInv, Formats
  <2>6. IsoInv'
    BY <1>2, SMTT(30) DEF Typed, IsoInv, Together
  <2>7. PublishInv'
    BY <1>2, <2>1, <2>2, SMTT(30) DEF PublishInv, Whole, Edits, Content, Pair, NamedStages
  <2> QED
    BY <2>3, <2>4, <2>5, <2>6, <2>7, IsoFramed
<1>3. CASE IsoTemporary
  <2>1. dest' \in Destinations
    BY <1>3, ZenonT(30) DEF Typed, Destinations
  <2>2. /\ dest'.temp = TRUE
        /\ dest'.name = dest.name /\ dest'.kept = dest.kept /\ dest'.removed = dest.removed
    BY <1>3, DestinationFields, SMTT(30) DEF Typed, Destinations
  <2>3. IsoFrame
    BY <1>3, SMTT(30) DEF IsoFrame
  <2>4. Typed'
    BY <1>3, <2>1, <2>2, SMTT(30) DEF Typed, DiskTypeOK, Images, Vers
  <2>5. MountInv'
    BY <1>3, SMTT(30) DEF Typed, MountInv, Formats
  <2>6. IsoInv'
    BY <1>3, SMTT(30) DEF Typed, IsoInv, Together
  <2>7. PublishInv'
    BY <1>3, <2>1, <2>2, SMTT(30) DEF PublishInv, Whole, Edits, Content, Pair, NamedStages
  <2> QED
    BY <2>3, <2>4, <2>5, <2>6, <2>7, IsoFramed
<1>4. CASE BuildProviderPlan
  <2>1. IsoFrame
    BY <1>4, SMTT(30) DEF IsoFrame
  <2>2. Typed'
    BY <1>4, SMTT(30) DEF Typed, DiskTypeOK, Images, Vers
  <2>3. MountInv'
    BY <1>4, SMTT(30) DEF Typed, MountInv, Formats
  <2>4. IsoInv'
    BY <1>4, SMTT(30) DEF Typed, IsoInv, Together
  <2>5. PublishInv'
    BY <1>4, SMTT(30) DEF PublishInv, Whole, Edits, Content, Pair, NamedStages
  <2> QED
    BY <2>1, <2>2, <2>3, <2>4, <2>5, IsoFramed
<1>5. CASE ValidatePrivateOutput
  <2>1. IsoFrame
    BY <1>5, SMTT(30) DEF IsoFrame
  <2>2. Typed'
    BY <1>5, SMTT(30) DEF Typed, DiskTypeOK, Images, Vers
  <2>3. MountInv'
    BY <1>5, SMTT(30) DEF Typed, MountInv, Formats
  <2>4. IsoInv'
    BY <1>5, SMTT(30) DEF Typed, IsoInv, Together
  <2>5. PublishInv'
    BY <1>5, SMTT(30) DEF PublishInv, Whole, Edits, Content, Pair, NamedStages
  <2> QED
    BY <2>1, <2>2, <2>3, <2>4, <2>5, IsoFramed
<1>6. CASE ScanFirst("master-scan", "master-rest")
  <2>1. /\ c.pc = "master-scan" /\ c.format = "iso" /\ UNCHANGED <<disk, src, dest>>
        /\ c.plan \in FullScans /\ c.view \in FullScans
        /\ Content(c.view) = Content(c.plan) /\ c.from = {}
        /\ Together(c.view) \/ src.first.stamp > c.view.first.stamp
    BY <1>6, SMTT(30) DEF IsoInv, Together, Content
  <2>2. PICK half \in HalfScans : half.first = src.first
                                /\ c' = [c EXCEPT !.pc = "master-rest", !.scan = half]
    BY <1>6, ScanFirstHalf
  <2>3. half \in Scans
    BY ScansHold
  <2>4. IsoFrame
    BY <2>1, <2>2, <2>3, SMTT(30) DEF IsoFrame
  <2>5. Typed'
    BY <2>1, <2>2, <2>3, SMTT(30) DEF Typed, DiskTypeOK, Images, Vers
  <2>6. MountInv'
    BY <2>1, <2>2, <2>3, SMTT(30) DEF Typed, MountInv, Formats
  <2>7. IsoInv'
    BY <2>1, <2>2, <2>3, SMTT(30) DEF Typed, IsoInv, Together
  <2>8. PublishInv'
    BY <2>1, <2>2, <2>3, SMTT(30) DEF PublishInv, Whole, Edits, Content, Pair, NamedStages
  <2> QED
    BY <2>4, <2>5, <2>6, <2>7, <2>8, IsoFramed
<1>7. CASE MasterBefore
  <2>1. /\ c.pc = "master-rest" /\ c.format = "iso" /\ UNCHANGED <<disk, src, dest>>
        /\ c.scan \in HalfScans
        /\ c.plan \in FullScans /\ c.view \in FullScans
        /\ Content(c.view) = Content(c.plan) /\ c.from = {}
        /\ Together(c.view) \/ c.scan.first.stamp > c.view.first.stamp
    BY <1>7, SMTT(30) DEF IsoInv, SourceInv, Content, Together
  <2>2. c' = [c EXCEPT !.pc = "provider", !.scan = None]
    BY <1>7
  <2>3. /\ Scanned \in FullScans /\ Scanned \in Scans /\ None \in Scans
        /\ Scanned.first = c.scan.first /\ Scanned.rest = src.rest
    BY <2>1, ScannedFull, ScansHold
  <2>4. Together(c.view)
    BY <1>7, <2>1, <2>3 DEF Binding, FullScans, Part
  <2>5. IsoFrame
    BY <2>1, <2>2, <2>3, <2>4, SMTT(30) DEF IsoFrame
  <2>6. Typed'
    BY <2>1, <2>2, <2>3, <2>4, SMTT(30) DEF Typed, DiskTypeOK, Images, Vers
  <2>7. MountInv'
    BY <2>1, <2>2, <2>3, <2>4, SMTT(30) DEF Typed, MountInv, Formats
  <2>8. IsoInv'
    BY <2>1, <2>2, <2>3, <2>4, SMTT(30) DEF Typed, IsoInv, Together
  <2>9. PublishInv'
    BY <2>1, <2>2, <2>3, <2>4, SMTT(30) DEF PublishInv, Whole, Edits, Content, Pair, NamedStages
  <2> QED
    BY <2>5, <2>6, <2>7, <2>8, <2>9, IsoFramed
<1>8. CASE Provide("first", "provider", "provider-rest")
  <2>1. /\ c.pc = "provider" /\ c.format = "iso" /\ UNCHANGED <<disk, src, dest>>
        /\ c.plan \in FullScans /\ c.view \in FullScans
        /\ Content(c.view) = Content(c.plan) /\ Together(c.view)
        /\ c.from = {}
    BY <1>8, SMTT(30) DEF IsoInv, Content, Together
  <2>2. c' = [c EXCEPT !.pc = "provider-rest", !.synced = FALSE, !.from = @ \cup {port},
                       !.image = <<src.first.ver, "none">>]
    BY <1>8
  <2>3. <<src.first.ver, "none">> \in Vers \X Vers /\ c.from \cup {port} = {c.identity}
    BY <1>8, <2>1 DEF Typed, Part, Vers
  <2>4. IsoFrame
    BY <2>1, <2>2, <2>3, SMTT(30) DEF IsoFrame
  <2>5. Typed'
    BY <2>1, <2>2, <2>3, SMTT(30) DEF Typed, DiskTypeOK, Images, Vers
  <2>6. MountInv'
    BY <2>1, <2>2, <2>3, SMTT(30) DEF Typed, MountInv, Formats
  <2>7. IsoInv'
    BY <2>1, <2>2, <2>3, SMTT(30) DEF Typed, IsoInv, Together
  <2>8. PublishInv'
    BY <2>1, <2>2, <2>3, SMTT(30) DEF PublishInv, Whole, Edits, Content, Pair, NamedStages
  <2> QED
    BY <2>4, <2>5, <2>6, <2>7, <2>8, IsoFramed
<1>9. CASE Provide("rest", "provider-rest", "master-sync")
  <2>1. /\ c.pc = "provider-rest" /\ c.format = "iso" /\ UNCHANGED <<disk, src, dest>>
        /\ c.plan \in FullScans /\ c.view \in FullScans
        /\ Content(c.view) = Content(c.plan) /\ Together(c.view)
        /\ c.from = {c.identity} /\ c.image \in Vers \X Vers
    BY <1>9, SMTT(30) DEF IsoInv, Content, Together
  <2>2. c' = [c EXCEPT !.pc = "master-sync", !.synced = FALSE, !.from = @ \cup {port},
                       !.image = <<c.image[1], src.rest.ver>>]
    BY <1>9
  <2>3. <<c.image[1], src.rest.ver>> \in Vers \X Vers /\ c.from \cup {port} = {c.identity}
    BY <1>9, <2>1 DEF Typed, Part
  <2>4. IsoFrame
    BY <2>1, <2>2, <2>3, SMTT(30) DEF IsoFrame
  <2>5. Typed'
    BY <2>1, <2>2, <2>3, SMTT(30) DEF Typed, DiskTypeOK, Images, Vers
  <2>6. MountInv'
    BY <2>1, <2>2, <2>3, SMTT(30) DEF Typed, MountInv, Formats
  <2>7. IsoInv'
    BY <2>1, <2>2, <2>3, SMTT(30) DEF Typed, IsoInv, Together
  <2>8. PublishInv'
    BY <2>1, <2>2, <2>3, SMTT(30) DEF PublishInv, Whole, Edits, Content, Pair, NamedStages
  <2> QED
    BY <2>4, <2>5, <2>6, <2>7, <2>8, IsoFramed
<1>10. CASE MasterSync
  <2>1. IsoFrame
    BY <1>10, SMTT(30) DEF IsoFrame
  <2>2. Typed'
    BY <1>10, SMTT(30) DEF Typed, DiskTypeOK, Images, Vers
  <2>3. MountInv'
    BY <1>10, SMTT(30) DEF Typed, MountInv, Formats
  <2>4. IsoInv'
    BY <1>10, SMTT(30) DEF Typed, IsoInv, Together
  <2>5. PublishInv'
    BY <1>10, SMTT(30) DEF PublishInv, Whole, Edits, Content, Pair, NamedStages
  <2> QED
    BY <2>1, <2>2, <2>3, <2>4, <2>5, IsoFramed
<1>11. CASE ScanFirst("master-after", "after-rest")
  <2>1. /\ c.pc = "master-after" /\ c.format = "iso" /\ UNCHANGED <<disk, src, dest>>
        /\ c.plan \in FullScans /\ c.view \in FullScans
        /\ Content(c.view) = Content(c.plan) /\ Together(c.view) /\ c.from = {c.identity}
    BY <1>11, SMTT(30) DEF IsoInv, Together, Content
  <2>2. PICK half \in HalfScans : half.first = src.first
                                /\ c' = [c EXCEPT !.pc = "after-rest", !.scan = half]
    BY <1>11, ScanFirstHalf
  <2>3. half \in Scans
    BY ScansHold
  <2>4. IsoFrame
    BY <2>1, <2>2, <2>3, SMTT(30) DEF IsoFrame
  <2>5. Typed'
    BY <2>1, <2>2, <2>3, SMTT(30) DEF Typed, DiskTypeOK, Images, Vers
  <2>6. MountInv'
    BY <2>1, <2>2, <2>3, SMTT(30) DEF Typed, MountInv, Formats
  <2>7. IsoInv'
    BY <2>1, <2>2, <2>3, SMTT(30) DEF Typed, IsoInv, Together
  <2>8. PublishInv'
    BY <2>1, <2>2, <2>3, SMTT(30) DEF PublishInv, Whole, Edits, Content, Pair, NamedStages
  <2> QED
    BY <2>4, <2>5, <2>6, <2>7, <2>8, IsoFramed
<1>12. CASE MasterAfter
  <2>1. /\ c.pc = "after-rest" /\ c.format = "iso" /\ UNCHANGED <<disk, src, dest>>
        /\ c.scan \in HalfScans
        /\ c.plan \in FullScans /\ c.view \in FullScans
        /\ Content(c.view) = Content(c.plan) /\ Together(c.view) /\ c.from = {c.identity}
    BY <1>12, SMTT(30) DEF IsoInv, SourceInv, Content, Together
  <2>2. c' = [c EXCEPT !.pc = "hash-image", !.scan = None]
    BY <1>12
  <2>3. /\ Scanned \in FullScans /\ Scanned \in Scans /\ None \in Scans
        /\ Scanned.first = c.scan.first /\ Scanned.rest = src.rest
    BY <2>1, ScannedFull, ScansHold
  <2>4. IsoFrame
    BY <2>1, <2>2, <2>3, SMTT(30) DEF IsoFrame
  <2>5. Typed'
    BY <2>1, <2>2, <2>3, SMTT(30) DEF Typed, DiskTypeOK, Images, Vers
  <2>6. MountInv'
    BY <2>1, <2>2, <2>3, SMTT(30) DEF Typed, MountInv, Formats
  <2>7. IsoInv'
    BY <2>1, <2>2, <2>3, SMTT(30) DEF Typed, IsoInv, Together
  <2>8. PublishInv'
    BY <2>1, <2>2, <2>3, SMTT(30) DEF PublishInv, Whole, Edits, Content, Pair, NamedStages
  <2> QED
    BY <2>4, <2>5, <2>6, <2>7, <2>8, IsoFramed
<1>13. CASE HashImage
  <2>1. IsoFrame
    BY <1>13, SMTT(30) DEF IsoFrame
  <2>2. Typed'
    BY <1>13, SMTT(30) DEF Typed, DiskTypeOK, Images, Vers
  <2>3. MountInv'
    BY <1>13, SMTT(30) DEF Typed, MountInv, Formats
  <2>4. IsoInv'
    BY <1>13, SMTT(30) DEF Typed, IsoInv, Together
  <2>5. PublishInv'
    BY <1>13, SMTT(30) DEF PublishInv, Whole, Edits, Content, Pair, NamedStages
  <2> QED
    BY <2>1, <2>2, <2>3, <2>4, <2>5, IsoFramed
<1> QED
  BY <1>1, <1>2, <1>3, <1>4, <1>5, <1>6, <1>7, <1>8, <1>9, <1>10, <1>11, <1>12, <1>13

\* The image is mounted and compared, the view taken down, and the image published.
LEMMA IsoPublishing ==
  ASSUME CaptureInv,
         \/ UDFWorkspace \/ OpenReadOnlyUDFMount \/ ComparePortable \/ CloseUDF
         \/ ScanFirst("final-scan", "final-rest") \/ FinalScanned \/ CloseView
         \/ CloseViewFails \/ ApplyGraphicalISOOwner \/ CloseImage \/ IsoRevalidatePath
         \/ PublishISONoReplace
  PROVE  CaptureInv'
<1> USE DEF HalfStages, UndoStages, UnplannedStages, UnviewedStages, UnconfirmedStages,
            UncomparedStages, HandoverStages, NoViewStages, ViewStages, CaptureInv, disk,
            CommandFields, Iso, Doing, Proceed, Pass, UDFWorkspace, OpenReadOnlyUDFMount,
            ComparePortable, CloseUDF, ScanFirst, FinalScanned, SameAsView, ScanRest, CloseView,
            CloseViewFails, ApplyGraphicalISOOwner, SyncFile, CloseImage, IsoRevalidatePath,
            RevalidateDestination, PublishISONoReplace, Rename
<1>1. CASE UDFWorkspace
  <2>1. IsoFrame
    BY <1>1, SMTT(30) DEF IsoFrame
  <2>2. Typed'
    BY <1>1, SMTT(30) DEF Typed, DiskTypeOK, Images, Vers
  <2>3. MountInv'
    BY <1>1, SMTT(30) DEF Typed, MountInv, Formats
  <2>4. IsoInv'
    BY <1>1, SMTT(30) DEF Typed, IsoInv, Together
  <2>5. PublishInv'
    BY <1>1, SMTT(30) DEF PublishInv, Whole, Edits, Content, Pair, NamedStages
  <2> QED
    BY <2>1, <2>2, <2>3, <2>4, <2>5, IsoFramed
<1>2. CASE OpenReadOnlyUDFMount
  <2>1. /\ c.pc = "udf-mount" /\ c.format = "iso" /\ c.report = "none"
        /\ dest.name # "image" /\ c.work = {"view", "udf"} /\ c.own = {"ro"} /\ c.known = {"ro"}
        /\ UNCHANGED <<disk, src, dest>>
    BY <1>2, SMTT(30) DEF Typed, MountInv, PublishInv, NamedStages
  <2>2. CASE c' = [c EXCEPT !.pc = "udf-scan", !.own = @ \cup {"udf"}, !.known = @ \cup {"udf"}]
    <3>1. IsoFrame
      BY <2>1, <2>2, SMTT(30) DEF IsoFrame
    <3>2. Typed'
      BY <2>1, <2>2, SMTT(30) DEF Typed, DiskTypeOK, Images, Vers
    <3>3. MountInv'
      BY <2>1, <2>2, SMTT(30) DEF Typed, MountInv, Formats
    <3>4. IsoInv'
      BY <2>1, <2>2, SMTT(30) DEF Typed, IsoInv, Together
    <3>5. PublishInv'
      BY <2>1, <2>2, SMTT(30) DEF PublishInv, Whole, Edits, Content, Pair, NamedStages
    <3> QED
      BY <3>1, <3>2, <3>3, <3>4, <3>5, IsoFramed
  <2>3. CASE c' = [c EXCEPT !.pc = "undo-udf", !.own = @ \cup {"udf"}, !.cut = TRUE,
                             !.report = "failed"]
    <3>1. IsoFrame
      BY <2>1, <2>3, SMTT(30) DEF IsoFrame
    <3>2. Typed'
      BY <2>1, <2>3, SMTT(30) DEF Typed, DiskTypeOK, Images, Vers
    <3>3. MountInv'
      BY <2>1, <2>3, SMTT(30) DEF Typed, MountInv, Formats
    <3>4. IsoInv'
      BY <2>1, <2>3, SMTT(30) DEF Typed, IsoInv, Together
    <3>5. PublishInv'
      BY <2>1, <2>3, SMTT(30) DEF PublishInv, Whole, Edits, Content, Pair, NamedStages
    <3> QED
      BY <3>1, <3>2, <3>3, <3>4, <3>5, IsoFramed
  <2> QED
    BY <1>2, <2>2, <2>3
<1>3. CASE ComparePortable
  <2>1. IsoFrame
    BY <1>3, SMTT(30) DEF IsoFrame
  <2>2. Typed'
    BY <1>3, SMTT(30) DEF Typed, DiskTypeOK, Images, Vers
  <2>3. MountInv'
    BY <1>3, SMTT(30) DEF Typed, MountInv, Formats
  <2>4. IsoInv'
    BY <1>3, SMTT(30) DEF Typed, IsoInv, Together, Portable
  <2>5. PublishInv'
    BY <1>3, SMTT(30) DEF PublishInv, Whole, Edits, Content, Pair, NamedStages
  <2> QED
    BY <2>1, <2>2, <2>3, <2>4, <2>5, IsoFramed
<1>4. CASE CloseUDF
  <2>1. IsoFrame
    BY <1>4, SMTT(30) DEF IsoFrame
  <2>2. Typed'
    BY <1>4, SMTT(30) DEF Typed, DiskTypeOK, Images, Vers
  <2>3. MountInv'
    BY <1>4, SMTT(30) DEF Typed, MountInv, Formats
  <2>4. IsoInv'
    BY <1>4, SMTT(30) DEF Typed, IsoInv, Together
  <2>5. PublishInv'
    BY <1>4, SMTT(30) DEF PublishInv, Whole, Edits, Content, Pair, NamedStages
  <2> QED
    BY <2>1, <2>2, <2>3, <2>4, <2>5, IsoFramed
<1>5. CASE ScanFirst("final-scan", "final-rest")
  <2>1. /\ c.pc = "final-scan" /\ c.format = "iso" /\ UNCHANGED <<disk, src, dest>>
        /\ c.plan \in FullScans /\ c.view \in FullScans
        /\ Content(c.view) = Content(c.plan) /\ Together(c.view)
        /\ c.from = {c.identity} /\ c.image = Pair(c.view)
    BY <1>5, SMTT(30) DEF IsoInv, Together, Content
  <2>2. PICK half \in HalfScans : half.first = src.first
                                /\ c' = [c EXCEPT !.pc = "final-rest", !.scan = half]
    BY <1>5, ScanFirstHalf
  <2>3. half \in Scans
    BY ScansHold
  <2>4. IsoFrame
    BY <2>1, <2>2, <2>3, SMTT(30) DEF IsoFrame
  <2>5. Typed'
    BY <2>1, <2>2, <2>3, SMTT(30) DEF Typed, DiskTypeOK, Images, Vers
  <2>6. MountInv'
    BY <2>1, <2>2, <2>3, SMTT(30) DEF Typed, MountInv, Formats
  <2>7. IsoInv'
    BY <2>1, <2>2, <2>3, SMTT(30) DEF Typed, IsoInv, Together
  <2>8. PublishInv'
    BY <2>1, <2>2, <2>3, SMTT(30) DEF PublishInv, Whole, Edits, Content, Pair, NamedStages
  <2> QED
    BY <2>4, <2>5, <2>6, <2>7, <2>8, IsoFramed
<1>6. CASE FinalScanned
  <2>1. /\ c.pc = "final-rest" /\ c.format = "iso" /\ UNCHANGED <<disk, src, dest>>
        /\ c.scan \in HalfScans
        /\ c.plan \in FullScans /\ c.view \in FullScans
        /\ Content(c.view) = Content(c.plan) /\ Together(c.view)
        /\ c.from = {c.identity} /\ c.image = Pair(c.view)
    BY <1>6, SMTT(30) DEF IsoInv, SourceInv, Content, Together
  <2>2. c' = [c EXCEPT !.pc = "view-close", !.scan = None]
    BY <1>6
  <2>3. /\ Scanned \in FullScans /\ Scanned \in Scans /\ None \in Scans
        /\ Scanned.first = c.scan.first /\ Scanned.rest = src.rest
    BY <2>1, ScannedFull, ScansHold
  <2>4. IsoFrame
    BY <2>1, <2>2, <2>3, SMTT(30) DEF IsoFrame
  <2>5. Typed'
    BY <2>1, <2>2, <2>3, SMTT(30) DEF Typed, DiskTypeOK, Images, Vers
  <2>6. MountInv'
    BY <2>1, <2>2, <2>3, SMTT(30) DEF Typed, MountInv, Formats
  <2>7. IsoInv'
    BY <2>1, <2>2, <2>3, SMTT(30) DEF Typed, IsoInv, Together
  <2>8. PublishInv'
    BY <2>1, <2>2, <2>3, SMTT(30) DEF PublishInv, Whole, Edits, Content, Pair, NamedStages
  <2> QED
    BY <2>4, <2>5, <2>6, <2>7, <2>8, IsoFramed
<1>7. CASE CloseView
  <2>1. IsoFrame
    BY <1>7, SMTT(30) DEF IsoFrame
  <2>2. Typed'
    BY <1>7, SMTT(30) DEF Typed, DiskTypeOK, Images, Vers
  <2>3. MountInv'
    BY <1>7, SMTT(30) DEF Typed, MountInv, Formats
  <2>4. IsoInv'
    BY <1>7, SMTT(30) DEF Typed, IsoInv, Together
  <2>5. PublishInv'
    BY <1>7, SMTT(30) DEF PublishInv, Whole, Edits, Content, Pair, NamedStages
  <2> QED
    BY <2>1, <2>2, <2>3, <2>4, <2>5, IsoFramed
<1>8. CASE CloseViewFails
  <2>1. IsoFrame
    BY <1>8, SMTT(30) DEF IsoFrame
  <2>2. Typed'
    BY <1>8, SMTT(30) DEF Typed, DiskTypeOK, Images, Vers
  <2>3. MountInv'
    BY <1>8, SMTT(30) DEF Typed, MountInv, Formats
  <2>4. IsoInv'
    BY <1>8, SMTT(30) DEF Typed, IsoInv, Together
  <2>5. PublishInv'
    BY <1>8, SMTT(30) DEF PublishInv, Whole, Edits, Content, Pair, NamedStages
  <2> QED
    BY <2>1, <2>2, <2>3, <2>4, <2>5, IsoFramed
<1>9. CASE ApplyGraphicalISOOwner
  <2>1. IsoFrame
    BY <1>9, SMTT(30) DEF IsoFrame
  <2>2. Typed'
    BY <1>9, SMTT(30) DEF Typed, DiskTypeOK, Images, Vers
  <2>3. MountInv'
    BY <1>9, SMTT(30) DEF Typed, MountInv, Formats
  <2>4. IsoInv'
    BY <1>9, SMTT(30) DEF Typed, IsoInv, Together
  <2>5. PublishInv'
    BY <1>9, SMTT(30) DEF PublishInv, Whole, Edits, Content, Pair, NamedStages
  <2> QED
    BY <2>1, <2>2, <2>3, <2>4, <2>5, IsoFramed
<1>10. CASE CloseImage
  <2>1. IsoFrame
    BY <1>10, SMTT(30) DEF IsoFrame
  <2>2. Typed'
    BY <1>10, SMTT(30) DEF Typed, DiskTypeOK, Images, Vers
  <2>3. MountInv'
    BY <1>10, SMTT(30) DEF Typed, MountInv, Formats
  <2>4. IsoInv'
    BY <1>10, SMTT(30) DEF Typed, IsoInv, Together
  <2>5. PublishInv'
    BY <1>10, SMTT(30) DEF PublishInv, Whole, Edits, Content, Pair, NamedStages
  <2> QED
    BY <2>1, <2>2, <2>3, <2>4, <2>5, IsoFramed
<1>11. CASE IsoRevalidatePath
  <2>1. IsoFrame
    BY <1>11, SMTT(30) DEF IsoFrame
  <2>2. Typed'
    BY <1>11, SMTT(30) DEF Typed, DiskTypeOK, Images, Vers
  <2>3. MountInv'
    BY <1>11, SMTT(30) DEF Typed, MountInv, Formats
  <2>4. IsoInv'
    BY <1>11, SMTT(30) DEF Typed, IsoInv, Together
  <2>5. PublishInv'
    BY <1>11, SMTT(30) DEF PublishInv, Whole, Edits, Content, Pair, NamedStages
  <2> QED
    BY <2>1, <2>2, <2>3, <2>4, <2>5, IsoFramed
<1>12. CASE PublishISONoReplace
  <2>1. dest' \in Destinations
    BY <1>12, ZenonT(30) DEF Typed, Destinations
  <2>2. /\ ~dest'.temp /\ dest'.name = "image"
        /\ dest'.removed = dest.removed /\ dest.name = "free"
    BY <1>12, DestinationFields, SMTT(30) DEF Typed, Destinations
  <2>3. /\ c.synced /\ c.from = {c.identity} /\ c.image \in src.past /\ c.digest = c.image
        /\ c.own = {} /\ c.work = {} /\ c.image = Content(c.plan)
    BY <1>12, SMTT(30) DEF IsoInv, MountInv, Together, Content
  <2>4. /\ c.pc = "publish" /\ c.format = "iso"
        /\ c' = [c EXCEPT !.pc = "publish-sync"] /\ UNCHANGED <<disk, src>>
    BY <1>12
  <2>5. IsoFrame
    BY <2>1, <2>2, <2>3, <2>4, SMTT(30) DEF IsoFrame
  <2>6. Typed'
    BY <2>1, <2>4, SMTT(30) DEF Typed, DiskTypeOK, Images, Vers
  <2>7. MountInv'
    BY <2>1, <2>2, <2>3, <2>4, SMTT(30) DEF Typed, MountInv, Formats
  <2>8. IsoInv'
    BY <2>1, <2>2, <2>3, <2>4, SMTT(30) DEF Typed, IsoInv, Together
  <2>9. PublishInv'
    BY <2>1, <2>2, <2>3, <2>4, SMTT(30) DEF PublishInv, Whole, Edits, Content, Pair,
                                            NamedStages, Typed
  <2> QED
    BY <2>5, <2>6, <2>7, <2>8, <2>9, IsoFramed
<1> QED
  BY <1>1, <1>2, <1>3, <1>4, <1>5, <1>6, <1>7, <1>8, <1>9, <1>10, <1>11, <1>12

-----------------------------------------------------------------------------
(* The ends of the captures *)

\* A command that is over, or goes back, has nothing more to read.
Closing ==
  /\ DOMAIN c' = DOMAIN c
  /\ c'.pc \in UndoStages
  /\ c'.format = c.format /\ c.format # "none"

LEMMA ClosingKeeps == ASSUME CaptureInv, Closing PROVE BackupInv' /\ IsoInv'
<1>1. BackupInv'
  BY DEF Closing, BackupInv, UndoStages, SourceHeldStages, CountedStages, ContainerStages,
     ConvertedStages, HandoverStages
<1>2. IsoInv'
  BY DEF Closing, IsoInv, HalfStages, UndoStages, UnplannedStages, UnviewedStages,
     UnconfirmedStages, UncomparedStages, HandoverStages
<1> QED
  BY <1>1, <1>2

LEMMA ClosingMounts ==
  ASSUME CaptureInv, Closing, c'.own = c.own, c'.work = c.work, c'.known = c.known,
         c'.cut = c.cut, c.pc \in {"done", "ended"} => c'.pc \in {"done", "ended"}
  PROVE  MountInv'
BY DEF CaptureInv, Closing, MountInv, UndoStages, NoViewStages, ViewStages, Typed

\* The deferred cleanup of an ISO capture.
LEMMA IsoUndo ==
  ASSUME CaptureInv, IsoFail \/ UndoUDF \/ UndoView \/ RemoveThroughBind
  PROVE  CaptureInv'
<1> USE DEF CaptureInv, disk, CommandFields, Iso, Proceed
<1>1. CASE IsoFail
  <2>1. Closing /\ IsoFrame
    BY <1>1, SMTT(30) DEF Typed, IsoFail, Closing, IsoFrame, UndoStages
  <2>2. Typed'
    BY <1>1, SMTT(30) DEF Typed, IsoFail, DiskTypeOK, Scans
  <2>3. MountInv'
    BY <1>1, <2>1, ClosingMounts, SMTT(30) DEF Typed, IsoFail
  <2>4. PublishInv'
    BY <1>1, SMTT(30) DEF Typed, IsoFail, PublishInv, NamedStages, UndoStages
  <2> QED
    BY <2>1, <2>2, <2>3, <2>4, IsoFramed, ClosingKeeps
<1>2. CASE UndoUDF
  <2>1. /\ c.pc = "undo-udf" /\ c.format = "iso" /\ dest.name # "image" /\ c.report # "passed"
        /\ UNCHANGED <<disk, src, dest>>
    BY <1>2 DEF UndoUDF, PublishInv, NamedStages
  <2>2. CASE c' = [c EXCEPT !.pc = "undo", !.own = @ \ {"udf"}, !.known = @ \ {"udf"},
                            !.work = @ \ {"udf"}]
    <3>1. Closing /\ IsoFrame
      BY <2>1, <2>2 DEF Typed, Closing, IsoFrame, UndoStages
    <3>2. Typed'
      BY <2>1, <2>2, SMTT(30) DEF Typed, DiskTypeOK
    <3>3. MountInv'
      BY <2>1, <2>2, SMTT(30) DEF Typed, MountInv, Formats, NoViewStages, ViewStages
    <3>4. PublishInv'
      BY <2>1, <2>2, SMTT(30) DEF Typed, PublishInv, UndoStages
    <3> QED
      BY <3>1, <3>2, <3>3, <3>4, IsoFramed, ClosingKeeps
  <2>3. CASE c' = [c EXCEPT !.pc = "undo", !.known = @ \ {"udf"}]
    <3>1. Closing /\ IsoFrame
      BY <2>1, <2>3 DEF Typed, Closing, IsoFrame, UndoStages
    <3>2. Typed'
      BY <2>1, <2>3, SMTT(30) DEF Typed, DiskTypeOK
    <3>3. MountInv'
      BY <2>1, <2>3, SMTT(30) DEF Typed, MountInv, Formats, NoViewStages, ViewStages
    <3>4. PublishInv'
      BY <2>1, <2>3, SMTT(30) DEF Typed, PublishInv, UndoStages
    <3> QED
      BY <3>1, <3>2, <3>3, <3>4, IsoFramed, ClosingKeeps
  <2> QED
    BY <1>2, <2>2, <2>3 DEF UndoUDF
<1>3. CASE UndoView
  <2>1. /\ c.pc = "undo-view" /\ c.format = "iso" /\ dest.name # "image" /\ c.report # "passed"
        /\ UNCHANGED <<disk, src, dest>>
    BY <1>3 DEF UndoView, PublishInv, NamedStages
  <2>2. CASE /\ c.own \ {"udf"} \subseteq c.known
             /\ c' = [c EXCEPT !.pc = "done", !.own = @ \cap {"udf"}, !.known = {},
                               !.work = @ \ {"view"}]
    <3>1. Closing /\ IsoFrame
      BY <2>1, <2>2 DEF Typed, Closing, IsoFrame, UndoStages
    <3>2. Typed'
      BY <2>1, <2>2, SMTT(30) DEF Typed, DiskTypeOK
    <3>3. MountInv'
      BY <2>1, <2>2, SMTT(30) DEF Typed, MountInv, Formats, NoViewStages, ViewStages
    <3>4. PublishInv'
      BY <2>1, <2>2, SMTT(30) DEF Typed, PublishInv, UndoStages
    <3> QED
      BY <3>1, <3>2, <3>3, <3>4, IsoFramed, ClosingKeeps
  <2>3. CASE c' = [c EXCEPT !.pc = "done", !.known = {}]
    <3>1. Closing /\ IsoFrame
      BY <2>1, <2>3 DEF Typed, Closing, IsoFrame, UndoStages
    <3>2. Typed'
      BY <2>1, <2>3, SMTT(30) DEF Typed, DiskTypeOK
    <3>3. MountInv'
      BY <2>1, <2>3, SMTT(30) DEF Typed, MountInv, Formats, NoViewStages, ViewStages
    <3>4. PublishInv'
      BY <2>1, <2>3, SMTT(30) DEF Typed, PublishInv, UndoStages
    <3> QED
      BY <3>1, <3>2, <3>3, <3>4, IsoFramed, ClosingKeeps
  <2> QED
    BY <1>3, <2>2, <2>3 DEF UndoView
<1>4. CASE RemoveThroughBind
  <2>1. /\ c.pc = "undo-view" /\ c.format = "iso" /\ dest.name # "image" /\ c.report # "passed"
        /\ c.cut /\ c' = [c EXCEPT !.pc = "done"] /\ UNCHANGED <<disk, dest>>
    BY <1>4 DEF RemoveThroughBind, PublishInv, MountInv, NamedStages
  <2>2. Closing
    BY <2>1 DEF Typed, Closing, UndoStages
  <2>3. /\ SourceFields \subseteq DOMAIN src'
        /\ src'.first \in Part /\ src'.rest \in Part
        /\ src'.mount = src.mount /\ src'.others = src.others /\ src'.past = src.past
        /\ \/ src'.first.ver = "gone" /\ src'.rest.ver = "gone"
           \/ src' = src
    <3>1. CASE port = c.identity
      <4>1. src' = [src EXCEPT !.first = [src.first EXCEPT !.ver = "gone"],
                               !.rest = [src.rest EXCEPT !.ver = "gone"]]
        BY <1>4, <3>1, SMTT(30) DEF RemoveThroughBind, Typed, SourceFields
      <4>2. \A part \in Part : /\ [part EXCEPT !.ver = "gone"] \in Part
                               /\ [part EXCEPT !.ver = "gone"].ver = "gone"
        BY DEF Part, Vers
      <4> QED
        BY <4>1, <4>2 DEF Typed, SourceFields
    <3>2. CASE port # c.identity
      BY <1>4, <3>2 DEF RemoveThroughBind, Typed
    <3> QED
      BY <3>1, <3>2
  <2>4. Typed'
    <3>1. DiskTypeOK'
      BY <2>1 DEF Typed, DiskTypeOK
    <3>2. /\ SourceFields \subseteq DOMAIN src'
          /\ src'.first \in Part /\ src'.rest \in Part
          /\ src'.mount = src.mount /\ src'.others = src.others /\ src'.past = src.past
      BY <2>3
    <3>3. dest' = dest /\ c.format = "iso" /\ c' = [c EXCEPT !.pc = "done"]
      BY <2>1
    <3> QED
      BY <3>1, <3>2, <3>3, SMTT(30) DEF Typed
  <2>5. SourceInv'
    BY <2>1, <2>3, SMTT(30) DEF Typed, SourceInv, Pair
  <2>6. MountInv'
    BY <2>1, <2>2, ClosingMounts DEF Typed
  <2>7. PublishInv'
    BY <2>1, SMTT(30) DEF Typed, PublishInv, UndoStages
  <2> QED
    BY <2>2, <2>4, <2>5, <2>6, <2>7, ClosingKeeps
<1> QED
  BY <1>1, <1>2, <1>3, <1>4

\* Starting, syncing the directory, and what is deferred by both captures.
LEMMA StartSafe ==
  ASSUME CaptureInv, StartISO \/ \E format \in Formats, noUnmount \in BOOLEAN :
                                   StartBackup(format, noUnmount)
  PROVE  CaptureInv'
<1>1. PICK format \in Formats \cup {"iso"}, noUnmount \in BOOLEAN :
        /\ c.pc = "start" /\ UNCHANGED <<disk, src, dest>>
        /\ \/ c' = [c EXCEPT !.pc = "find", !.format = format, !.noUnmount = noUnmount]
           \/ c' = [c EXCEPT !.pc = "find", !.format = format]
  BY DEF StartISO, StartBackup, Doing
<1>2. /\ c'.pc = "find" /\ c'.format = format /\ DOMAIN c' = DOMAIN c
      /\ \A f \in CommandFields \ {"pc", "format", "noUnmount"} : c'[f] = c[f]
  BY <1>1 DEF CaptureInv, Typed, CommandFields
<1>3. /\ c.own = {} /\ c.work = {} /\ c.from = {} /\ c.report = "none" /\ c.exit = "none"
      /\ dest.name # "image" /\ (dest.removed => c.unsynced)
  BY <1>1 DEF CaptureInv, Typed, PublishInv, NamedStages, UndoStages
<1>4. Typed'
  BY <1>1, <1>2, SMTT(30) DEF CaptureInv, Typed, CommandFields, disk, DiskTypeOK, Formats
<1>5. SourceInv'
  BY <1>1, <1>2, SMTT(30) DEF CaptureInv, SourceInv, Pair, Typed, CommandFields, Formats
<1>6. MountInv'
  BY <1>1, <1>2, <1>3, SMTT(30)
     DEF CaptureInv, Typed, CommandFields, MountInv, Formats, NoViewStages, ViewStages
<1>7. BackupInv'
  BY <1>1, <1>2, <1>3, SMTT(30)
     DEF CommandFields, BackupInv, UndoStages, SourceHeldStages, CountedStages, ContainerStages,
         ConvertedStages, HandoverStages
<1>8. IsoInv'
  BY <1>1, <1>2, <1>3, SMTT(30)
     DEF CommandFields, IsoInv, HalfStages, UndoStages, UnplannedStages, UnviewedStages,
         UnconfirmedStages, UncomparedStages, HandoverStages
<1>9. PublishInv'
  BY <1>1, <1>2, <1>3, SMTT(30) DEF CaptureInv, CommandFields, PublishInv
<1> QED
  BY <1>4, <1>5, <1>6, <1>7, <1>8, <1>9 DEF CaptureInv

LEMMA SharedSafe ==
  ASSUME CaptureInv, SyncDirectory \/ SyncDirectoryFails \/ Undo \/ Return \/ Die
  PROVE  CaptureInv'
<1> USE DEF CaptureInv, disk, CommandFields, Doing
<1>1. CASE SyncDirectory
  <2>1. /\ c.pc = "publish-sync" /\ c' = [c EXCEPT !.pc = "done", !.report = "passed"]
        /\ dest' = [dest EXCEPT !.kept = (dest.name = "image")] /\ UNCHANGED <<disk, src>>
    BY <1>1 DEF SyncDirectory
  <2>2. dest' \in Destinations
    BY <2>1, ZenonT(30) DEF Typed, Destinations
  <2>3. /\ dest'.name = dest.name /\ dest'.temp = dest.temp /\ dest'.removed = dest.removed
        /\ dest'.kept = (dest.name = "image")
    BY <2>1, DestinationFields DEF Typed
  <2>4. c.own = {} /\ c.work = {} /\ ~dest.temp
    BY <2>1 DEF Typed, MountInv, NoViewStages, PublishInv
  <2>5. Closing
    BY <2>1 DEF Typed, Closing, UndoStages
  <2>6. Typed'
    <3>1. DiskTypeOK'
      BY <2>1 DEF Typed, DiskTypeOK
    <3> QED
      BY <2>1, <2>2, <3>1, SMTT(30) DEF Typed
  <2>7. SourceInv'
    BY <2>1, SMTT(30) DEF Typed, SourceInv, Pair
  <2>8. MountInv'
    BY <2>1, <2>5, ClosingMounts DEF Typed
  <2>9. PublishInv'
    BY <2>1, <2>3, <2>4, SMTT(30)
       DEF Typed, PublishInv, Whole, Edits, Content, Pair, UndoStages, NamedStages
  <2> QED
    BY <2>5, <2>6, <2>7, <2>8, <2>9, ClosingKeeps
<1>2. CASE SyncDirectoryFails
  <2>1. /\ c.pc = "publish-sync" /\ UNCHANGED <<disk, src>>
        /\ c' = [c EXCEPT !.pc = "undo", !.report = "failed", !.unsynced = TRUE]
        /\ \/ dest' = [dest EXCEPT !.name = "free", !.removed = @ \/ dest.name = "foreign"]
           \/ dest' = dest
    BY <1>2 DEF SyncDirectoryFails
  <2>2. dest' \in Destinations
    BY <2>1, ZenonT(30) DEF Typed, Destinations
  <2>3. dest'.name = "image" => dest'.name = dest.name
    BY <2>1, DestinationFields DEF Typed
  <2>4. Closing
    BY <2>1 DEF Typed, Closing, UndoStages
  <2>5. Typed'
    <3>1. DiskTypeOK'
      BY <2>1 DEF Typed, DiskTypeOK
    <3>2. /\ c.pc = "publish-sync" /\ src' = src
          /\ c' = [c EXCEPT !.pc = "undo", !.report = "failed", !.unsynced = TRUE]
      BY <2>1
    <3> QED
      BY <3>2, <2>2, <3>1, SMTT(30) DEF Typed
  <2>6. SourceInv'
    BY <2>1, <2>3, SMTT(30) DEF Typed, SourceInv, Pair
  <2>7. MountInv'
    BY <2>1, <2>4, ClosingMounts DEF Typed
  <2>8. PublishInv'
    <3>1. c.report = "none" /\ c.exit = "none" /\ c.pc = "publish-sync"
      BY <2>1 DEF Typed, PublishInv, UndoStages
    <3>2. c' = [c EXCEPT !.pc = "undo", !.report = "failed", !.unsynced = TRUE] /\ src' = src
      BY <2>1
    <3> QED
      BY <2>3, <3>1, <3>2, SMTT(30)
         DEF Typed, PublishInv, Whole, Edits, Content, Pair, UndoStages, NamedStages
  <2> QED
    BY <2>4, <2>5, <2>6, <2>7, <2>8, ClosingKeeps
<1>3. CASE Undo
  <2>1. /\ c.pc = "undo" /\ UNCHANGED <<disk, src>>
        /\ c' = [c EXCEPT !.pc = IF "view" \in c.work THEN "undo-view" ELSE "done",
                          !.fd = None, !.held = FALSE]
        /\ dest' = [dest EXCEPT !.temp = FALSE] \/ dest' = dest
    BY <1>3 DEF Undo
  <2>2. dest' \in Destinations
    BY <2>1, ZenonT(30) DEF Typed, Destinations
  <2>3. /\ dest'.name = dest.name /\ dest'.kept = dest.kept /\ dest'.removed = dest.removed
    BY <2>1, DestinationFields DEF Typed
  <2>4. Closing
    BY <2>1 DEF Typed, Closing, UndoStages
  <2>5. Typed'
    <3>1. DiskTypeOK'
      BY <2>1 DEF Typed, DiskTypeOK
    <3>2. src' = src /\ c.pc = "undo"
          /\ c' = [c EXCEPT !.pc = IF "view" \in c.work THEN "undo-view" ELSE "done",
                            !.fd = None, !.held = FALSE]
      BY <2>1
    <3> QED
      BY <3>2, <2>2, <3>1, SMTT(30) DEF Typed
  <2>6. SourceInv'
    BY <2>1, <2>3, SMTT(30) DEF Typed, SourceInv, Pair
  <2>7. MountInv'
    BY <2>1, <2>4, ClosingMounts DEF Typed
  <2>8. PublishInv'
    BY <2>1, <2>3, SMTT(30)
       DEF Typed, PublishInv, Whole, Edits, Content, Pair, UndoStages, NamedStages
  <2> QED
    BY <2>4, <2>5, <2>6, <2>7, <2>8, ClosingKeeps
<1>4. CASE Return \/ Die
  <2>1. PICK exit \in {"ok", "error", "killed"} :
          /\ exit = "ok" => c.report = "passed"
          /\ c.pc # "start" /\ UNCHANGED <<disk, src, dest>>
          /\ c' = [c EXCEPT !.pc = "ended", !.fd = None, !.held = FALSE, !.exit = exit]
    <3>1. CASE Return
      BY <3>1 DEF Return
    <3>2. CASE Die
      BY <3>2 DEF Die, Running
    <3> QED
      BY <1>4, <3>1, <3>2
  <2>2. Closing
    BY <2>1 DEF Typed, Closing, UndoStages
  <2>3. Typed'
    <3>1. DiskTypeOK'
      BY <2>1 DEF Typed, DiskTypeOK
    <3> QED
      BY <2>1, <3>1, SMTT(30) DEF Typed
  <2>4. SourceInv'
    BY <2>1, SMTT(30) DEF Typed, SourceInv, Pair
  <2>5. MountInv'
    BY <2>1, <2>2, ClosingMounts DEF Typed
  <2>6. PublishInv'
    BY <2>1, SMTT(30)
       DEF Typed, PublishInv, Whole, Edits, Content, Pair, UndoStages, NamedStages
  <2> QED
    BY <2>2, <2>3, <2>4, <2>5, <2>6, ClosingKeeps
<1> QED
  BY <1>1, <1>2, <1>3, <1>4

-----------------------------------------------------------------------------
(* The others *)

\* The disk keeps its types whatever is done to it.
LEMMA DiskKeepsTypes ==
  ASSUME DiskTypeOK,
         \/ \E d \in Disks : \E open : Attach(d, open)
         \/ Unplug
         \/ \E root \in MountRoots : Mount(root) \/ Unmount(root)
  PROVE  DiskTypeOK'
<1>1. ASSUME NEW d \in Disks, NEW open, Attach(d, open) PROVE DiskTypeOK'
  BY <1>1, AttachAssumption DEF Attach, DiskTypeOK, Attachments
<1>2. CASE Unplug
  <2>1. port \in Attachments /\ port.disk \in Disks
    BY <1>2 DEF Unplug, DiskTypeOK, Attachments
  <2>2. PICK table \in {media[port.disk].table, cache[port.disk].table},
             fs \in {media[port.disk].fs, cache[port.disk].fs} :
          media' = [media EXCEPT ![port.disk] = [table |-> table, fs |-> fs]]
    BY <1>2 DEF Unplug
  <2>3. table \in Contents /\ fs \in Contents
    BY <2>1 DEF DiskTypeOK
  <2>4. media' \in [Disks -> [table : Contents, fs : Contents]]
    BY <2>1, <2>2, <2>3 DEF DiskTypeOK
  <2> QED
    BY <1>2, <2>4 DEF Unplug, DiskTypeOK
<1>3. CASE \E root \in MountRoots : Mount(root) \/ Unmount(root)
  BY <1>3 DEF Mount, Unmount, DiskTypeOK
<1> QED
  BY <1>1, <1>2, <1>3

\* Nothing of the source's two parts changes, nor does the command.
SameParts ==
  /\ SourceFields \subseteq DOMAIN src'
  /\ src'.first = src.first /\ src'.rest = src.rest /\ src'.past = src.past
  /\ src'.mount \in 0..MaxOthers + 1 /\ src'.others \in 0..MaxOthers
  /\ c' = c

LEMMA SamePartsKeep ==
  ASSUME CaptureInv, SameParts, DiskTypeOK', dest' \in Destinations,
         dest'.name = "image" => dest'.name = dest.name /\ dest'.kept = dest.kept,
         dest'.removed = dest.removed, dest'.temp = dest.temp,
         c.report = "none"
  PROVE  CaptureInv'
<1>1. Typed'
  BY SMTT(30) DEF CaptureInv, SameParts, Typed
<1>2. SourceInv'
  BY SMTT(30) DEF CaptureInv, SameParts, SourceInv, Pair
<1>3. MountInv'
  BY DEF CaptureInv, SameParts, MountInv
<1>4. Pair(src)' = Pair(src) /\ Edits' = Edits
  BY DEF SameParts, Pair, Edits
<1>5. BackupInv'
  BY <1>4, SMTT(30) DEF CaptureInv, SameParts, BackupInv, Undisturbed
<1>6. IsoInv'
  BY <1>4, SMTT(30) DEF CaptureInv, SameParts, IsoInv, Together, Content, Pair
<1>7. PublishInv'
  BY <1>4, SMTT(30) DEF CaptureInv, SameParts, PublishInv, Whole, Content, Pair
<1> QED
  BY <1>1, <1>2, <1>3, <1>5, <1>6, <1>7 DEF CaptureInv

LEMMA CountedSame ==
  ASSUME CaptureInv, Acting, src' = Counted, c' = c
  PROVE  SameParts
BY BoundAssumption DEF CaptureInv, Typed, SourceFields, Acting, Counted, SameParts

LEMMA AroundSafe ==
  ASSUME CaptureInv,
         \/ \E d \in Disks : AttachSource(d)
         \/ UnplugDisk
         \/ \E root \in MountRoots : MountDisk(root) \/ UnmountDisk(root)
         \/ CreateForeign \/ RemoveDestination \/ ReplaceDirectory
  PROVE  CaptureInv'
<1>1. DiskTypeOK /\ dest \in Destinations /\ (c.pc = "start" => c.report = "none")
  BY DEF CaptureInv, Typed, PublishInv, UndoStages
<1>2. CASE \/ \E d \in Disks : AttachSource(d)
           \/ UnplugDisk
           \/ \E root \in MountRoots : UnmountDisk(root)
  <2>1. Acting /\ src' = Counted /\ dest' = dest /\ c' = c
    BY <1>2 DEF AttachSource, UnplugDisk, UnmountDisk
  <2>2. DiskTypeOK'
    BY <1>1, <1>2, DiskKeepsTypes DEF AttachSource, UnplugDisk, UnmountDisk
  <2> QED
    BY <1>1, <2>1, <2>2, CountedSame, SamePartsKeep DEF Acting
<1>3. CASE \E root \in MountRoots : MountDisk(root)
  <2>1. PICK root \in MountRoots : MountDisk(root)
    BY <1>3
  <2>2. DiskTypeOK'
    BY <1>1, <2>1, DiskKeepsTypes DEF MountDisk
  <2>3. SameParts
    <3>1. /\ SourceFields \subseteq DOMAIN src' /\ c' = c
          /\ src'.first = src.first /\ src'.rest = src.rest /\ src'.past = src.past
          /\ src'.mount \in {src.mount, src.mount + 1} /\ src'.mount <= MaxOthers + 1
          /\ src'.others = IF Doing("start") THEN src.others ELSE src.others + 1
      <4> DEFINE m == IF root = "media" THEN src.mount + 1 ELSE src.mount
                 o == IF Doing("start") THEN src.others ELSE src.others + 1
      <4>1. src' = [src EXCEPT !.mount = m, !.others = o]
        BY <2>1 DEF MountDisk
      <4>2. m \in {src.mount, src.mount + 1}
        OBVIOUS
      <4> HIDE DEF m
      <4> QED
        BY <2>1, <4>1, <4>2 DEF CaptureInv, Typed, SourceFields, MountDisk
    <3>2. ~Doing("start") => src.others < MaxOthers
      BY <2>1 DEF MountDisk, Acting
    <3> QED
      BY <3>1, <3>2, BoundAssumption DEF CaptureInv, Typed, SameParts
  <2>4. dest' = dest /\ c.report = "none"
    BY <1>1, <2>1 DEF MountDisk, Acting, Doing
  <2> QED
    BY <1>1, <2>2, <2>3, <2>4, SamePartsKeep
<1>4. CASE CreateForeign \/ RemoveDestination \/ ReplaceDirectory
  <2>1. Acting /\ src' = Counted /\ UNCHANGED disk /\ c' = c
    BY <1>4 DEF CreateForeign, RemoveDestination, ReplaceDirectory
  <2>2. DiskTypeOK'
    BY <1>1, <2>1 DEF disk, DiskTypeOK
  <2>3. dest' \in Destinations
    BY <1>1, <1>4, ZenonT(30)
       DEF CreateForeign, RemoveDestination, ReplaceDirectory, Destinations
  <2>4. /\ dest'.name = "image" => dest'.name = dest.name /\ dest'.kept = dest.kept
        /\ dest'.removed = dest.removed /\ dest'.temp = dest.temp
    BY <1>4, DestinationFields
       DEF CaptureInv, CreateForeign, RemoveDestination, ReplaceDirectory
  <2> QED
    BY <2>1, <2>2, <2>3, <2>4, CountedSame, SamePartsKeep DEF Acting
<1> QED
  BY <1>2, <1>3, <1>4

\* A write to the source moves on the time of the part that is written, and
\* leaves the two parts together.
LEMMA Edited ==
  ASSUME CaptureInv, NEW part \in Parts, NEW v \in Versions, EditSource(part, v)
  PROVE  /\ SourceFields \subseteq DOMAIN src'
         /\ src'.first \in Part /\ src'.rest \in Part
         /\ src'.mount = src.mount /\ src'.others \in 0..MaxOthers
         /\ src.past \subseteq src'.past /\ src'.past \subseteq Vers \X Vers
         /\ Pair(src') \in src'.past
         /\ src'.first.ver # "gone" /\ src'.rest.ver # "gone"
         /\ Edits' = Edits + 1
         /\ src'.first = src.first \/ src'.first.stamp > src.first.stamp
         /\ src'.first.stamp >= src.first.stamp
<1> DEFINE new == [ver |-> v, stamp |-> src[part].stamp + 1]
           written == [Counted EXCEPT ![part] = new]
<1>1. /\ src.first \in Part /\ src.rest \in Part /\ src.first.stamp \in 0..MaxEdits
      /\ src.rest.stamp \in 0..MaxEdits
      /\ src.first.ver # "gone" /\ src.rest.ver # "gone" /\ Edits < MaxEdits
      /\ part \in {"first", "rest"} /\ src.others \in 0..MaxOthers /\ src.others < MaxOthers
      /\ Counted[part] = src[part]
  <2>1. /\ part = "first" \/ part = "rest"
        /\ src[part].ver # "gone" /\ Edits < MaxEdits /\ src.others < MaxOthers
    BY DEF EditSource, Parts, Acting
  <2>2. src.first.ver # "gone" /\ src.rest.ver # "gone"
    BY <2>1 DEF CaptureInv, SourceInv
  <2>3. Counted[part] = src[part]
    BY <2>1 DEF CaptureInv, Typed, SourceFields, Counted
  <2> QED
    BY <2>1, <2>2, <2>3 DEF CaptureInv, Typed, Part
<1>2. new \in Part /\ new.ver # "gone" /\ new.stamp = src[part].stamp + 1
  <2>1. src[part].stamp + 1 \in 0..MaxEdits
    BY <1>1, BoundAssumption DEF Edits
  <2>2. v \in Vers /\ v # "gone"
    BY VersionAssumption DEF Vers
  <2> QED
    BY <2>1, <2>2 DEF Part
<1> HIDE DEF new
<1>3. /\ SourceFields \subseteq DOMAIN written
      /\ written.mount = src.mount /\ written.others = src.others + 1 /\ written.past = src.past
      /\ part = "first" => written.first = new /\ written.rest = src.rest
      /\ part = "rest" => written.rest = new /\ written.first = src.first
  BY <1>1 DEF CaptureInv, Typed, SourceFields, Counted
<1>4. src' = [written EXCEPT !.past = @ \cup {Pair(written)}]
  <2>1. new = [ver |-> v, stamp |-> Counted[part].stamp + 1]
    BY <1>1 DEF new
  <2> QED
    BY <2>1 DEF EditSource
<1> HIDE DEF written
<1>5. /\ SourceFields \subseteq DOMAIN src'
      /\ src'.first = written.first /\ src'.rest = written.rest /\ src'.mount = src.mount
      /\ src'.others = src.others + 1 /\ src'.past = src.past \cup {Pair(src')}
  BY <1>3, <1>4 DEF SourceFields, Pair
<1>6. src'.first \in Part /\ src'.rest \in Part
  BY <1>1, <1>2, <1>3, <1>5
<1>7. Pair(src') \in Vers \X Vers
  BY <1>6 DEF Pair, Part
<1>8. /\ src'.first.ver # "gone" /\ src'.rest.ver # "gone"
      /\ src'.first.stamp + src'.rest.stamp = Edits + 1
      /\ src'.first = src.first \/ src'.first.stamp > src.first.stamp
      /\ src'.first.stamp >= src.first.stamp
  BY <1>1, <1>2, <1>3, <1>5 DEF Edits
<1>9. Edits' = Edits + 1
  BY <1>8 DEF Edits
<1>10. src'.others \in 0..MaxOthers /\ src'.past \subseteq Vers \X Vers
  BY <1>1, <1>5, <1>7, BoundAssumption DEF CaptureInv, Typed
<1> QED
  BY <1>5, <1>6, <1>8, <1>9, <1>10

LEMMA EditSafe ==
  ASSUME CaptureInv, NEW part \in Parts, NEW v \in Versions, EditSource(part, v)
  PROVE  CaptureInv'
<1>1. /\ UNCHANGED <<disk, dest, c>> /\ c.report = "none"
  BY DEF EditSource, Acting
<1>2. Edits \in Nat /\ c.read \in Nat
  BY SourceThere
<1>3. Typed'
  <2>1. DiskTypeOK'
    BY <1>1 DEF CaptureInv, Typed, disk, DiskTypeOK
  <2> QED
    BY <1>1, <2>1, Edited, SMTT(30) DEF CaptureInv, Typed
<1>4. SourceInv'
  BY <1>1, Edited, SMTT(30) DEF CaptureInv, SourceInv, Pair
<1>5. MountInv'
  BY <1>1 DEF CaptureInv, MountInv
<1>6. Undisturbed => Undisturbed'
  BY <1>1, <1>2, Edited DEF Undisturbed
<1>7. c.read <= Edits => Edits' # c.read /\ c.read <= Edits'
  BY <1>2, Edited
<1>8. BackupInv'
  BY <1>1, <1>6, <1>7, SMTT(30)
     DEF CaptureInv, BackupInv, UndoStages, SourceHeldStages, CountedStages, ContainerStages,
         ConvertedStages, HandoverStages
<1>9. \A scan : Together(scan) => Together(scan)'
  BY Edited DEF Together, Pair
<1>10. IsoInv'
  <2>1. \A n \in Nat : src.first.stamp > n => src'.first.stamp > n
    BY Edited DEF CaptureInv, Typed, Part
  <2>2. \A half \in HalfScans : half.first.stamp \in Nat
    BY DEF HalfScans, Part
  <2>3. \A full \in FullScans : full.first.stamp \in Nat
    BY DEF FullScans, Part
  <2>4. /\ src'.first = src.first \/ src'.first.stamp > src.first.stamp
        /\ src.first.stamp \in Nat /\ c' = c
    BY <1>1, Edited DEF CaptureInv, Typed, Part
  <2>5. Content(c.view)' = Content(c.view) /\ Content(c.plan)' = Content(c.plan)
        /\ Pair(c.view)' = Pair(c.view)
    BY <1>1 DEF Content, Pair
  <2> QED
    BY <1>9, <2>1, <2>2, <2>3, <2>4, <2>5, SMTT(20) DEF CaptureInv, IsoInv, HalfStages,
                                                        UndoStages, UnplannedStages,
                                                        UnviewedStages, UnconfirmedStages,
                                                        UncomparedStages, HandoverStages
<1>11. PublishInv'
  BY <1>1, <1>2, Edited, SMTT(30)
     DEF CaptureInv, PublishInv, Whole, NamedStages, Content, Pair
<1> QED
  BY <1>3, <1>4, <1>5, <1>8, <1>10, <1>11 DEF CaptureInv

-----------------------------------------------------------------------------
(* The theorems *)

\* The invariant implies what the run of TLC checks.
LEMMA CaptureConsequences == CaptureInv => CaptureTypeOK /\ CaptureWhole /\ CleanEnd
<1> SUFFICES ASSUME CaptureInv PROVE CaptureTypeOK /\ CaptureWhole /\ CleanEnd
  OBVIOUS
<1>1. CaptureTypeOK
  BY DEF CaptureInv, Typed, MountInv, CaptureTypeOK, Destinations
<1>2. CaptureWhole
  BY DEF CaptureInv, PublishInv, Whole, CaptureWhole
<1>3. CleanEnd
  BY DEF CaptureInv, PublishInv, SourceInv, CleanEnd
<1> QED
  BY <1>1, <1>2, <1>3

\* The invariant holds at the start, and every step keeps it.
LEMMA CaptureInitially == SessionInit => CaptureInv
<1> SUFFICES ASSUME SessionInit PROVE CaptureInv
  OBVIOUS
<1> DEFINE part == [ver |-> "old", stamp |-> 0]
<1>1. part \in Part
  BY VersionAssumption, BoundAssumption DEF Part, Vers
<1>2. DiskTypeOK
  <2>1. PICK d \in Disks : port = [disk |-> d, seq |-> 1]
    BY DEF SessionInit, DiskInit
  <2>2. port \in Attachments
    BY <2>1, AttachAssumption DEF Attachments
  <2>3. cache \in [Disks -> [table : Contents, fs : Contents]] /\ media = cache
    BY DEF SessionInit, DiskInit, Contents
  <2>4. 1 \in 1..MaxAttach
    BY AttachAssumption
  <2> QED
    BY <2>2, <2>3, <2>4 DEF SessionInit, DiskInit, DiskTypeOK
<1>3. /\ SourceFields \subseteq DOMAIN src /\ src.first = part /\ src.rest = part
      /\ src.mount = 0 /\ src.others = 0 /\ src.past = {<<"old", "old">>}
  BY DEF SessionInit, SourceFields
<1>4. dest \in Destinations /\ dest.name = "free" /\ ~dest.removed
  BY DEF SessionInit, Destinations
<1>5. CommandFields \subseteq DOMAIN c
  BY DEF SessionInit, Idle, CommandFields
<1>6. /\ c.pc = "start" /\ c.format = "none" /\ c.identity = None /\ c.fd = None
      /\ c.plan = None /\ c.scan = None /\ c.view = None /\ c.image = None /\ c.digest = None
      /\ c.from = {} /\ c.read = 0 /\ c.synced = FALSE /\ c.own = {} /\ c.known = {}
      /\ c.work = {} /\ c.cut = FALSE /\ c.unsynced = FALSE /\ c.report = "none"
      /\ c.exit = "none"
  BY DEF SessionInit, Idle
<1>7. Pair(src) = <<"old", "old">> /\ part.ver = "old"
  BY <1>3 DEF Pair
<1>8. Typed
  <2>1. src.past \in SUBSET (Vers \X Vers)
    BY <1>3, VersionAssumption DEF Vers
  <2>2. /\ src.first \in Part /\ src.rest \in Part
        /\ src.mount \in 0..MaxOthers + 1 /\ src.others \in 0..MaxOthers
    BY <1>1, <1>3, BoundAssumption
  <2>3. c.plan \in Scans /\ c.scan \in Scans /\ c.view \in Scans
        /\ c.image \in Images /\ c.digest \in Images
    BY <1>6 DEF Scans, Images
  <2>4. /\ c.format \in Formats \cup {"iso", "none"}
        /\ c.identity \in Attachments \cup {None} /\ c.fd \in Attachments \cup {None}
        /\ c.read \in Nat /\ c.own \in SUBSET {"bind", "ro", "udf"} /\ c.known \subseteq c.own
        /\ c.work \in SUBSET {"view", "udf"}
    BY <1>6, SMT
  <2> HIDE DEF part
  <2>5. SourceFields \subseteq DOMAIN src /\ dest \in Destinations
    BY <1>3, <1>4
  <2>6. c.synced \in BOOLEAN /\ c.cut \in BOOLEAN /\ c.unsynced \in BOOLEAN
    BY <1>6, Zenon
  <2> QED
    BY <1>2, <1>5, <1>6, <2>1, <2>2, <2>3, <2>4, <2>5, <2>6 DEF Typed
<1>9. SourceInv
  BY <1>3, <1>6, <1>7 DEF SourceInv
<1>10. MountInv
  BY <1>6 DEF MountInv, Formats
<1>11. BackupInv /\ IsoInv
  BY <1>6 DEF BackupInv, IsoInv, Formats
<1>12. PublishInv
  BY <1>4, <1>6 DEF PublishInv
<1> QED
  BY <1>8, <1>9, <1>10, <1>11, <1>12 DEF CaptureInv

LEMMA CaptureInductive == CaptureInv /\ [CaptureNext]_session => CaptureInv'
<1> SUFFICES ASSUME CaptureInv, [CaptureNext]_session PROVE CaptureInv'
  OBVIOUS
<1>1. CASE UNCHANGED session
  BY <1>1, SMTT(20)
     DEF session, disk, CaptureInv, Typed, DiskTypeOK, SourceInv, MountInv, BackupInv, IsoInv,
         PublishInv, Undisturbed, Whole, Together, Content, Pair, Edits
<1>2. CASE BackupNext
  BY <1>2, StartSafe, BackupReview, BackupReading, BackupPublishing DEF BackupNext
<1>3. CASE IsoNext
  BY <1>3, StartSafe, IsoReview, IsoMastering, IsoPublishing, IsoUndo DEF IsoNext
<1>4. CASE SyncDirectory \/ SyncDirectoryFails \/ Undo \/ Return
  BY <1>4, SharedSafe
<1>5. CASE Others
  BY <1>5, EditSafe, AroundSafe, SharedSafe DEF Others
<1> QED
  BY <1>1, <1>2, <1>3, <1>4, <1>5 DEF CaptureNext, Stopped

LEMMA CaptureInvariant == CaptureSpec => []CaptureInv
BY CaptureInitially, CaptureInductive, PTL DEF CaptureSpec

\* State and command of a capture have their types, and what it knows to be
\* mounted is mounted and has its workspace (OpenReadOnlySourceView, its Close).
THEOREM CaptureTypeCorrect == CaptureSpec => []CaptureTypeOK
BY CaptureInvariant, CaptureConsequences, PTL

\* What appears under the destination's name is complete, synced and of the
\* reviewed source, an ISO as it was at one moment and as it was reviewed, for
\* any number of edits, disks and steps of the others (CaptureDevice,
\* captureFilesystem and what they publish).
THEOREM CaptureWholeHolds == CaptureSpec => []CaptureWhole
BY CaptureInvariant, CaptureConsequences, PTL

\* A capture that succeeds leaves nothing mounted and no temporary file, one
\* that fails publishes nothing unless its directory could not be synced, and
\* the files of the source stay unless its bind mount was lost (the deferred
\* cleanup of both commands).
THEOREM CleanEndHolds == CaptureSpec => []CleanEnd
BY CaptureInvariant, CaptureConsequences, PTL
==============================================================================

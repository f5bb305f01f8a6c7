------------------------------ MODULE FullFlash ------------------------------
(***************************************************************************)
(* `rufusarm64-cli ffu review' and `ffu restore': the reviewed restoration *)
(* of an authenticated FFU onto one removable disk.  A restore reproduces  *)
(* the review, takes a kernel read lease on the source and an exclusive    *)
(* descriptor of the target, checks the confirmation phrase, authorizes    *)
(* the mutation, writes every operation, syncs, reads everything back and  *)
(* revalidates source and target before it reports success.                *)
(*                                                                         *)
(* Around it the model has what the code defends against: another process  *)
(* that opens the source for writing (which breaks the lease, at once for  *)
(* the holder's next check and by force after the kernel's lease-break     *)
(* time), metadata changes, disks unplugged and plugged in at the same     *)
(* device path with the same device number, desktop mounts, cancellation,  *)
(* failed and short writes, a failed fsync, and death of the process.      *)
(*                                                                         *)
(* A block holds the source block it was copied from: b stands for the     *)
(* authenticated bytes of source block b.  Plan digests stand for the      *)
(* facts they bind, so evidence is compared by comparing those facts.      *)
(***************************************************************************)
EXTENDS Integers, FullFlashPlan

CONSTANTS
  Disks,        \* disks that may appear at the device path
  Plan,         \* the operations of FullFlashPlan as steps: [from, to] blocks
  MaxVersion,   \* bound on changes of the source file
  MaxAttach,    \* bound on disk attachments (the kernel's diskseq)
  MaxTrust,     \* bound on trust-store generations
  None

Steps == 1..Len(Plan)
SourceBlocks == {Plan[i].from : i \in Steps}
TargetBlocks == {Plan[i].to : i \in Steps}

\* Every plan that FullFlashPlan accepts is: FullFlashProofs!PlansAreExecutable.
ASSUME PlanAssumption == Executable(Plan)
ASSUME NoneIsNoPort == None \notin [disk : Disks, seq : 1..MaxAttach]
ASSUME BoundsAssumption ==
  MaxVersion \in Nat /\ MaxAttach \in Nat /\ MaxTrust \in Nat \ {0} /\ Len(Plan) \in Nat

VARIABLES
  source,    \* [data, version]: the source's bytes and inode identity
  writer,    \* another process's write access to the source
  lease,     \* kernel state of the read lease
  signalled, \* a SIGIO is queued for the watcher goroutine
  broken,    \* ReadLease.breakErr is set
  port,      \* [disk, seq]: what the device path names, None when nothing
  attached,  \* disks attached so far
  mounted,   \* a filesystem of the disk in the port is mounted
  cache,     \* per disk, its blocks as a reader sees them
  media,     \* per disk, the blocks that survive unplugging
  trust,     \* generation of the active trust bundle
  review,    \* the reviewed-input binding the operator holds
  cancelled, \* SIGINT or SIGTERM cancelled the command's context
  run        \* the running command and its FullFlashExecutionResult

kernel == <<source, writer, lease, signalled, port, attached, mounted>>
storage == <<cache, media>>
vars == <<kernel, storage, broken, trust, review, cancelled, run>>

-----------------------------------------------------------------------------
(* The command *)

Idle == [pc |-> "idle", restore |-> FALSE, phrase |-> FALSE, want |-> None,
         version |-> 0, trust |-> 0, target |-> None, mounts |-> FALSE,
         fd |-> None, i |-> 1, buf |-> None, consumed |-> FALSE, started |-> FALSE,
         wrote |-> FALSE, synced |-> FALSE, status |-> "none", touched |-> FALSE]

At(stage) == run.pc = stage
Goto(stage) == run' = [run EXCEPT !.pc = stage]

\* A step of the command that only changes its own state.
Local == UNCHANGED <<kernel, storage, broken, trust, review, cancelled>>

\* runFFUReview and runFFURestore.  The operator names the disk by the identity
\* of a device listing (the present one, or the one reviewed) and types a
\* phrase that is right or wrong.
Begin(restore, phrase, want) ==
  /\ At("idle")
  /\ want # None
  /\ restore => review # None
  /\ want = port \/ (restore /\ want = review.target)
  /\ run' = [Idle EXCEPT !.pc = "inspect", !.restore = restore, !.phrase = phrase,
                         !.want = want]
  /\ Local

\* finalizeFullFlashExecutionFailure: the status a failed execution reports.
\* Before the executor is called a failure yields an error and no result.
Executing == {"revalidate", "consume", "write-check", "write-read", "write", "sync",
              "post-write", "readback-check", "readback-source", "readback-target"}

FailureStatus ==
  CASE run.pc \notin Executing -> "refused"
    [] run.pc \in Executing /\ ~run.started -> "not-started"
    [] run.started /\ run.wrote /\ run.synced -> "written-unverified"
    [] run.started /\ ~(run.wrote /\ run.synced) -> "partially-modified"

\* Every early return.  At each stage some system call, utility or check can
\* fail; the result is completed and the command goes on to clean up.
Abort ==
  /\ run.pc \notin {"idle", "cleanup"}
  /\ run' = [run EXCEPT !.pc = "cleanup", !.status = FailureStatus]
  /\ Local

-----------------------------------------------------------------------------
(* What the checks look at *)

Authentic == \A b \in SourceBlocks : source.data[b] = b

\* sourcefile.Verify: the inode identity, mtime and ctime included.
SourceUnchanged == source.version = run.version

\* ReadLease.Check: no recorded break, a live context (the lease's context is
\* derived from the command's) and F_GETLEASE still reporting the read lease.
LeaseHeld == ~broken /\ ~cancelled /\ lease = "held"

\* VerifyOpenDevice on the held descriptor: a disk that was unplugged no longer
\* answers, whatever the path names by now.
DescriptorAlive == run.fd # None /\ port = run.fd

\* Mutant: the snapshot is compared by device number, which is reused.
SameKernelDevice == port # None /\ ~mounted

\* validateAcquiredFullFlashTargetSnapshot on the device the path names now.
\* The identity token includes the disk sequence number.
SameTarget == port = run.target /\ ~mounted

SourceHealthy == LeaseHeld /\ SourceUnchanged

\* FullFlashTargetSession.Check and revalidateFullFlashExecutionLocked.
SessionHealthy == SourceHealthy /\ DescriptorAlive /\ SameTarget

-----------------------------------------------------------------------------
(* prepareFFUCLIReview *)

\* The trust bundle is activated, the source opened and its identity pinned.
InspectSource ==
  /\ At("inspect")
  /\ ~cancelled
  /\ run' = [run EXCEPT !.pc = "authenticate", !.version = source.version,
                        !.trust = trust]
  /\ Local

\* ResolveAuthenticatedSingleStoreV1FullFlash hashes every payload block.
Authenticate ==
  /\ At("authenticate")
  /\ ~cancelled
  /\ Authentic
  /\ Goto("discover")
  /\ Local

\* DiscoverFullFlashTargetPreflight: the path must name the wanted disk.
Discover ==
  /\ At("discover")
  /\ ~cancelled
  /\ port = run.want
  /\ run' = [run EXCEPT !.pc = "bind-review", !.target = port,
                        !.mounts = mounted]
  /\ Local

Binding == [version |-> run.version, trust |-> run.trust, target |-> run.target]

\* The last check of the source; the review emits its binding.
EmitReview ==
  /\ At("bind-review")
  /\ ~run.restore
  /\ SourceUnchanged
  /\ review' = Binding
  /\ Goto("cleanup")
  /\ UNCHANGED <<kernel, storage, broken, trust, cancelled>>

\* requireExpectedFFUCLIReviewBinding.
BindingMatches == review = Binding

\* A target that preflight saw mounted is refused as well.
RequireBinding ==
  /\ At("bind-review")
  /\ run.restore
  /\ SourceUnchanged
  /\ BindingMatches
  /\ ~run.mounts
  /\ Goto("lease")
  /\ Local

-----------------------------------------------------------------------------
(* The source lease and the target session *)

\* AcquireReadLease: F_SETLEASE fails while anyone has the file open for
\* writing.
AcquireLease ==
  /\ At("lease")
  /\ ~cancelled
  /\ SourceUnchanged
  /\ writer # "open"
  /\ lease' = "held"
  /\ broken' = FALSE
  /\ signalled' = FALSE
  /\ Goto("authenticate-leased")
  /\ UNCHANGED <<source, writer, port, attached, mounted, storage, trust, review,
                 cancelled>>

\* The complete decision is reproduced under the lease.
AuthenticateLeased ==
  /\ At("authenticate-leased")
  /\ Authentic
  /\ SourceHealthy
  /\ Goto("open-target")
  /\ Local

\* Open with O_RDWR|O_EXCL|O_NOFOLLOW: the kernel refuses a mounted disk and
\* opens whatever the path names now.
OpenTarget ==
  /\ At("open-target")
  /\ SourceHealthy
  /\ port # None /\ ~mounted
  /\ run' = [run EXCEPT !.pc = "bind-target", !.fd = port]
  /\ Local

\* Descriptor, policy, identity, mounts and geometry are verified after the
\* open, and the source again.
BindTarget ==
  /\ At("bind-target")
  /\ SessionHealthy
  /\ Goto("confirm")
  /\ Local

-----------------------------------------------------------------------------
(* Confirmation and authorization *)

\* ConfirmExclusiveFullFlashTarget compares the phrase byte for byte between
\* two checks of the session.
Confirm ==
  /\ At("confirm")
  /\ SessionHealthy
  /\ run.phrase
  /\ Goto("authorize")
  /\ Local

\* AuthorizeSinglePhaseFullFlashMutation reproduces the write order.
Authorize ==
  /\ At("authorize")
  /\ SessionHealthy
  /\ Goto("revalidate")
  /\ Local

-----------------------------------------------------------------------------
(* ExecuteAuthorizedSinglePhaseFullFlash *)

\* The live revalidation before the first write.
Revalidate ==
  /\ At("revalidate")
  /\ SessionHealthy
  /\ Goto("consume")
  /\ Local

\* The last look at the source; the authorization is consumed.
Consume ==
  /\ At("consume")
  /\ SourceHealthy
  /\ run' = [run EXCEPT !.pc = "write-check", !.consumed = TRUE]
  /\ Local

\* The checks at the head of the write loop.
WriteCheck ==
  /\ At("write-check")
  /\ run.i \in Steps
  /\ LeaseHeld
  /\ Goto("write-read")
  /\ Local

ReadChunk ==
  /\ At("write-read")
  /\ run' = [run EXCEPT !.pc = "write", !.buf = source.data[Plan[run.i].from]]
  /\ Local

\* writeFullFlashAt writes the whole chunk.
WriteChunk ==
  /\ At("write")
  /\ DescriptorAlive
  /\ cache' = [cache EXCEPT ![run.fd.disk][Plan[run.i].to] = run.buf]
  /\ run' = [run EXCEPT !.pc = "write-check", !.i = @ + 1, !.buf = None,
                        !.started = TRUE, !.touched = TRUE]
  /\ UNCHANGED <<kernel, media, broken, trust, review, cancelled>>

\* writeFullFlashAt writes a part of the chunk and fails.
WriteTorn ==
  /\ At("write")
  /\ DescriptorAlive
  /\ cache' = [cache EXCEPT ![run.fd.disk][Plan[run.i].to] = "torn"]
  /\ run' = [run EXCEPT !.pc = "cleanup", !.started = TRUE, !.touched = TRUE,
                        !.status = "partially-modified"]
  /\ UNCHANGED <<kernel, media, broken, trust, review, cancelled>>

EndWrites ==
  /\ At("write-check")
  /\ run.i \notin Steps
  /\ run' = [run EXCEPT !.pc = "sync", !.wrote = TRUE]
  /\ Local

\* Mutant: the fsync is left to the kernel.
SkipSync ==
  /\ At("sync")
  /\ run' = [run EXCEPT !.pc = "post-write", !.synced = TRUE]
  /\ Local

\* The durability boundary.
SyncTarget ==
  /\ At("sync")
  /\ DescriptorAlive
  /\ media' = [media EXCEPT ![run.fd.disk] = cache[run.fd.disk]]
  /\ run' = [run EXCEPT !.pc = "post-write", !.synced = TRUE]
  /\ UNCHANGED <<kernel, cache, broken, trust, review, cancelled>>

PostWriteRevalidate ==
  /\ At("post-write")
  /\ SessionHealthy
  /\ run' = [run EXCEPT !.pc = "readback-check", !.i = 1]
  /\ Local

ReadbackCheck ==
  /\ At("readback-check")
  /\ run.i \in Steps
  /\ LeaseHeld
  /\ Goto("readback-source")
  /\ Local

ReadbackSource ==
  /\ At("readback-source")
  /\ run' = [run EXCEPT !.pc = "readback-target",
                        !.buf = source.data[Plan[run.i].from]]
  /\ Local

\* Mutant: the readback compares one chunk over and over.
ReadbackStays ==
  /\ At("readback-target")
  /\ DescriptorAlive
  /\ cache[run.fd.disk][Plan[run.i].to] = run.buf
  /\ run' = [run EXCEPT !.pc = "readback-check", !.buf = None]
  /\ Local

\* bytes.Equal on what the held descriptor returns.
ReadbackTarget ==
  /\ At("readback-target")
  /\ DescriptorAlive
  /\ cache[run.fd.disk][Plan[run.i].to] = run.buf
  /\ run' = [run EXCEPT !.pc = "readback-check", !.i = @ + 1, !.buf = None]
  /\ Local

FinalRevalidate ==
  /\ At("readback-check")
  /\ run.i \notin Steps
  /\ SessionHealthy
  /\ run' = [run EXCEPT !.pc = "cleanup", !.status = "verified"]
  /\ Local

\* What is left of a command is the result it reported.
Report == [Idle EXCEPT !.status = run.status, !.target = run.target,
                       !.touched = run.touched]

\* Mutant: the command returns without closing the source lease.
LeaseLeaked ==
  /\ At("cleanup")
  /\ run' = Report
  /\ cancelled' = FALSE
  /\ UNCHANGED <<kernel, storage, broken, trust, review>>

\* targetSession.Close, sourceLease.Close, the close of the source and the end
\* of the signal context.
Cleanup ==
  /\ At("cleanup")
  /\ lease' = "none"
  /\ signalled' = FALSE
  /\ broken' = FALSE
  /\ cancelled' = FALSE
  /\ run' = Report
  /\ UNCHANGED <<source, writer, port, attached, mounted, storage, trust, review>>

-----------------------------------------------------------------------------
(* The lease watcher, the signal handler and the death of the process *)

\* ReadLease.watch: the queued SIGIO cancels the lease.
Watch ==
  /\ signalled
  /\ signalled' = FALSE
  /\ broken' = TRUE
  /\ UNCHANGED <<source, writer, lease, port, attached, mounted, storage, trust,
                 review, cancelled, run>>

Cancel ==
  /\ ~At("idle")
  /\ ~cancelled
  /\ cancelled' = TRUE
  /\ UNCHANGED <<kernel, storage, broken, trust, review, run>>

Kill ==
  /\ ~At("idle")
  /\ lease' = "none"
  /\ signalled' = FALSE
  /\ broken' = FALSE
  /\ cancelled' = FALSE
  /\ run' = [Idle EXCEPT !.status = "killed"]
  /\ UNCHANGED <<source, writer, port, attached, mounted, storage, trust, review>>

-----------------------------------------------------------------------------
(* Other processes, the kernel and the person at the machine *)

\* An open for writing: it succeeds, or blocks and starts to break the lease.
WriterOpens ==
  /\ writer = "none"
  /\ lease # "breaking"
  /\ IF lease = "none"
       THEN writer' = "open" /\ UNCHANGED <<lease, signalled>>
       ELSE writer' = "blocked" /\ lease' = "breaking" /\ signalled' = TRUE
  /\ UNCHANGED <<source, port, attached, mounted, storage, broken, trust, review,
                 cancelled, run>>

\* /proc/sys/fs/lease-break-time is over: the kernel removes the lease.
BreakByForce ==
  /\ lease = "breaking"
  /\ lease' = "none"
  /\ UNCHANGED <<source, writer, signalled, port, attached, mounted, storage, broken,
                 trust, review, cancelled, run>>

WriterProceeds ==
  /\ writer = "blocked"
  /\ lease = "none"
  /\ writer' = "open"
  /\ UNCHANGED <<source, lease, signalled, port, attached, mounted, storage, broken,
                 trust, review, cancelled, run>>

WriterAlters(b) ==
  /\ writer = "open"
  /\ source.version < MaxVersion
  /\ source' = [data |-> [source.data EXCEPT ![b] = "altered"],
                version |-> source.version + 1]
  /\ UNCHANGED <<writer, lease, signalled, port, attached, mounted, storage, broken,
                 trust, review, cancelled, run>>

WriterCloses ==
  /\ writer = "open"
  /\ writer' = "none"
  /\ UNCHANGED <<source, lease, signalled, port, attached, mounted, storage, broken,
                 trust, review, cancelled, run>>

\* chmod, rename or a hard link: the ctime changes, no lease is broken.
TouchSource ==
  /\ source.version < MaxVersion
  /\ source' = [source EXCEPT !.version = @ + 1]
  /\ UNCHANGED <<writer, lease, signalled, port, attached, mounted, storage, broken,
                 trust, review, cancelled, run>>

\* What the kernel has not written back is lost.
Unplug ==
  /\ port # None
  /\ port' = None
  /\ mounted' = FALSE
  /\ cache' = [cache EXCEPT ![port.disk] = media[port.disk]]
  /\ UNCHANGED <<source, writer, lease, signalled, attached, media, broken, trust,
                 review, cancelled, run>>

\* A disk appears at the same path with the same device number.
PlugIn(d) ==
  /\ port = None
  /\ attached < MaxAttach
  /\ attached' = attached + 1
  /\ port' = [disk |-> d, seq |-> attached + 1]
  /\ UNCHANGED <<source, writer, lease, signalled, mounted, storage, broken, trust,
                 review, cancelled, run>>

\* The kernel refuses to mount a disk that is open with O_EXCL.
Mount ==
  /\ port # None /\ ~mounted
  /\ run.fd # port
  /\ mounted' = TRUE
  /\ UNCHANGED <<source, writer, lease, signalled, port, attached, storage, broken,
                 trust, review, cancelled, run>>

Unmount ==
  /\ mounted
  /\ mounted' = FALSE
  /\ UNCHANGED <<source, writer, lease, signalled, port, attached, storage, broken,
                 trust, review, cancelled, run>>

Writeback(d, b) ==
  /\ media[d][b] # cache[d][b]
  /\ media' = [media EXCEPT ![d][b] = cache[d][b]]
  /\ UNCHANGED <<kernel, cache, broken, trust, review, cancelled, run>>

\* Another bundle is published in the trust store.
AdvanceTrust ==
  /\ trust < MaxTrust
  /\ trust' = trust + 1
  /\ UNCHANGED <<kernel, storage, broken, review, cancelled, run>>

-----------------------------------------------------------------------------
Init ==
  /\ source = [data |-> [b \in SourceBlocks |-> b], version |-> 0]
  /\ writer = "none"
  /\ lease = "none"
  /\ signalled = FALSE
  /\ broken = FALSE
  /\ port = None
  /\ attached = 0
  /\ mounted = FALSE
  /\ cache = [d \in Disks |-> [b \in TargetBlocks |-> "old"]]
  /\ media = cache
  /\ trust = 1
  /\ review = None
  /\ cancelled = FALSE
  /\ run = Idle

Command ==
  \/ InspectSource \/ Authenticate \/ Discover \/ EmitReview \/ RequireBinding
  \/ AcquireLease \/ AuthenticateLeased \/ OpenTarget \/ BindTarget
  \/ Confirm \/ Authorize
  \/ Revalidate \/ Consume \/ WriteCheck \/ ReadChunk \/ WriteChunk \/ WriteTorn
  \/ EndWrites \/ SyncTarget \/ PostWriteRevalidate
  \/ ReadbackCheck \/ ReadbackSource \/ ReadbackTarget \/ FinalRevalidate
  \/ Abort \/ Cleanup

Ports == [disk : Disks, seq : 1..MaxAttach]

Next ==
  \/ Command
  \/ \E restore, phrase \in BOOLEAN, want \in Ports : Begin(restore, phrase, want)
  \/ Watch \/ Cancel \/ Kill
  \/ WriterOpens \/ BreakByForce \/ WriterProceeds \/ WriterCloses \/ TouchSource
  \/ \E b \in SourceBlocks : WriterAlters(b)
  \/ Unplug \/ Mount \/ Unmount \/ AdvanceTrust
  \/ \E d \in Disks : PlugIn(d)
  \/ \E d \in Disks, b \in TargetBlocks : Writeback(d, b)

Spec == Init /\ [][Next]_vars

\* A started command goes on as long as it has something to do.
FairSpec == Spec /\ WF_vars(Command)

-----------------------------------------------------------------------------
(* Properties *)

SourceData == SourceBlocks \cup {"altered"}
TargetData == SourceData \cup {"old", "torn"}
Stages == {"idle", "inspect", "authenticate", "discover", "bind-review", "lease",
           "authenticate-leased", "open-target", "bind-target", "confirm",
           "authorize", "revalidate", "consume", "write-check", "write-read",
           "write", "sync", "post-write", "readback-check", "readback-source",
           "readback-target", "cleanup"}
Statuses == {"none", "refused", "not-started", "partially-modified", "written-unverified",
             "verified", "killed"}
Runs ==
  [pc : Stages, restore : BOOLEAN, phrase : BOOLEAN, want : Ports \cup {None},
   version : 0..MaxVersion, trust : 0..MaxTrust, target : Ports \cup {None},
   mounts : BOOLEAN, fd : Ports \cup {None}, i : 1..Len(Plan) + 1, buf : SourceData \cup {None},
   consumed : BOOLEAN, started : BOOLEAN, wrote : BOOLEAN, synced : BOOLEAN,
   status : Statuses, touched : BOOLEAN]

\* Every variable has its shape, a lease is only held (and a descriptor only
\* open) by a command that is past the step that acquires it, and a writer
\* never has the source open while the lease stands.
TypeOK ==
  /\ source \in [data : [SourceBlocks -> SourceData], version : 0..MaxVersion]
  /\ writer \in {"none", "blocked", "open"}
  /\ lease \in {"none", "held", "breaking"}
  /\ signalled \in BOOLEAN /\ broken \in BOOLEAN
  /\ port \in Ports \cup {None}
  /\ attached \in 0..MaxAttach
  /\ mounted \in BOOLEAN
  /\ cache \in [Disks -> [TargetBlocks -> TargetData]]
  /\ media \in [Disks -> [TargetBlocks -> TargetData]]
  /\ trust \in 1..MaxTrust
  /\ review \in [version : 0..MaxVersion, trust : 1..MaxTrust, target : Ports] \cup {None}
  /\ cancelled \in BOOLEAN
  /\ run \in Runs
  /\ lease # "none" => writer # "open"
  /\ run.pc = "idle" => lease = "none" /\ run.fd = None

\* The status of a FullFlashExecutionResult is true of the disk, whatever happened
\* to the source and the disk while the command ran.  "verified": every planned
\* block of the reviewed disk durably holds the authenticated bytes.
\* "written-unverified": every planned block is durably written.  "not-started"
\* (or no result at all): no byte of any disk was written.
StatusHonest ==
  /\ run.status = "verified" =>
       \A i \in Steps : media[run.target.disk][Plan[i].to] = Plan[i].from
  /\ run.status = "written-unverified" =>
       \A i \in Steps : media[run.target.disk][Plan[i].to] \in SourceData
  /\ run.status \in {"refused", "not-started"} => ~run.touched

\* A disk is only written while it is the very attachment that was reviewed,
\* unmounted, after the operator typed the right phrase, and from the source
\* file and trust bundle that were reviewed.
OnlyReviewed ==
  [][\A d \in Disks :
       cache'[d] # cache[d] /\ cache'[d] # media[d] =>
         /\ review # None /\ review = Binding
         /\ port = review.target /\ d = port.disk
         /\ run.phrase /\ ~mounted]_vars

\* Every command ends and gives the lease and the target back.
CommandEnds == (run.pc # "idle") ~> (run.pc = "idle" /\ lease = "none")
==============================================================================

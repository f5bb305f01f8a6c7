-------------------------------- MODULE FreeDOS --------------------------------
(***************************************************************************)
(* rufusarm64-freedos-format: a deterministic FreeDOS disk is written,     *)
(* extent by extent, over the reviewed disk.  There is no image; the       *)
(* target is opened so that partition tools may open it too, flocked,      *)
(* checked before the first write and again at the end, synced and read    *)
(* back.  The report says whether the medium was changed.                  *)
(***************************************************************************)
EXTENDS WriteCommand, FreeDOSLayout

Free(stage) == At("freedos", stage)

FreeStart(noUnmount) ==
  /\ w.pc = "start"
  /\ w' = [w EXCEPT !.pc = "discover", !.front = "tool", !.mode = "freedos",
                    !.noUnmount = noUnmount, !.verify = TRUE]
  /\ UNCHANGED <<disk, src>>

\* ResolveDevice, Find, ValidateExpectedIdentity, ValidateTarget.
FreeDiscover ==
  /\ Free("discover")
  /\ ValidateTarget
  /\ w' = [w EXCEPT !.pc = "mode", !.identity = port, !.listed = mounts]
  /\ UNCHANGED <<disk, src>>

\* The plan is the disk's size and a label.
BuildDevicePlan ==
  /\ Free("mode")
  /\ MediaPlanAccepted(Size[w.identity.disk])
  /\ ExtentsAccepted(Size[w.identity.disk])
  /\ w' = [w EXCEPT !.pc = "confirm", !.digest = "plan"]
  /\ UNCHANGED <<disk, src>>

\* Prepare: open, flock with some patience, verifyTarget, mounts, and the
\* command's closure.
FreeOpenTarget == Free("open") /\ OpenTarget("lock")

FreePrepare ==
  /\ Free("lock")
  /\ Bound
  /\ NoneMounted
  /\ Ask(FALSE, "prepared")
  /\ UNCHANGED <<disk, src>>

\* The same once more, right before the first write.
FreeBeforeDestructive ==
  /\ Free("prepared")
  /\ Bound
  /\ NoneMounted
  /\ Ask(FALSE, "begin")
  /\ UNCHANGED <<disk, src>>

\* MediaChanged is set before the first byte is written.
FreeBegin ==
  /\ Free("begin")
  /\ Bound
  /\ w' = [w EXCEPT !.pc = "write", !.touched = TRUE]
  /\ UNCHANGED <<disk, src>>

\* WriteMediaExtents: what lies before the partition comes first.
WriteHead ==
  /\ Free("write")
  /\ port = w.fd
  /\ Change("write-rest", [table |-> "plan", fs |-> "none"])

WriteMediaExtents ==
  /\ Free("write-rest")
  /\ port = w.fd
  /\ Change("flush", [Held EXCEPT !.fs = "plan"])

\* Sync, blockdev --flushbufs and sync, between two looks at the target.
FreeFlush == Free("flush") /\ Bound /\ Flush("readback")

\* Every extent is read from the medium.
VerifyMediaExtents ==
  /\ Free("readback")
  /\ Bound
  /\ Held = [table |-> "plan", fs |-> w.digest]
  /\ Pass("finish")

FreeFinish ==
  /\ Free("finish")
  /\ Bound
  /\ NoneMounted
  /\ Ask(FALSE, "finished")
  /\ UNCHANGED <<disk, src>>

\* A second sync, of nothing.
FreeSync == Free("finished") /\ Bound /\ Pass("undo")

FreeFail == Fail("freedos", {"open", "lock", "prepared", "begin", "write", "write-rest", "flush",
                             "readback", "finish", "finished"})
FreeFailTorn == FailTorn("freedos", {"write", "write-rest"})

\* Unlock and close.
FreeClose == Free("undo") /\ CloseTarget("report")

\* The report of a failed run says whether the medium was changed.
FinishExecutionReport ==
  /\ Free("report")
  /\ w' = [w EXCEPT !.pc = "returned",
                    !.claim = IF ~w.err THEN @ ELSE IF w.touched THEN "incomplete" ELSE "untouched"]
  /\ UNCHANGED <<disk, src>>

FreeDOSNext ==
  \/ \E noUnmount \in BOOLEAN : FreeStart(noUnmount)
  \/ FreeDiscover \/ BuildDevicePlan \/ FreeOpenTarget \/ FreePrepare \/ FreeBeforeDestructive
  \/ FreeBegin \/ WriteHead \/ WriteMediaExtents \/ FreeFlush \/ VerifyMediaExtents
  \/ FreeFinish \/ FreeSync \/ FreeFail \/ FreeFailTorn \/ FreeClose \/ FinishExecutionReport
==============================================================================

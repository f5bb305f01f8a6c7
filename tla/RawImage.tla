------------------------------- MODULE RawImage -------------------------------
(***************************************************************************)
(* Package imaging: the selected or prepared image is copied byte for byte *)
(* over the whole target.  The image is held or hashed, the target opened  *)
(* exclusively, checked by identity under its lock, cleared at both ends,  *)
(* written, synced and, when asked for, read back past the page cache.     *)
(***************************************************************************)
EXTENDS WriteCommand

\* main opens the image and asks for the strict check once before the writer.
RawOpen ==
  /\ At("raw", "open")
  /\ Verify
  /\ Ask(TRUE, "lease")
  /\ UNCHANGED <<disk, src>>

\* A prepared image is private and needs no lease.
RawHold ==
  /\ At("raw", "lease")
  /\ IF w.private THEN Goto("hash") /\ UNCHANGED <<disk, src>> ELSE AcquireReadLease("hash")

\* The digest taken while preparing is bound to the file's identity; any other
\* image is hashed now.
RawSnapshot == At("raw", "hash") /\ HashFirst("target")

\* O_EXCL refuses a disk in use.
RawOpenTarget ==
  /\ At("raw", "target")
  /\ mounts = {}
  /\ OpenTarget("before")

\* Mutant: the check under the lock compares the device number only.
RawBeforeWriteBound ==
  /\ At("raw", "before")
  /\ Ask(FALSE, "final")
  /\ UNCHANGED <<disk, src>>

RawBeforeWrite ==
  /\ At("raw", "before")
  /\ Ask(TRUE, "final")
  /\ UNCHANGED <<disk, src>>

\* The last looks before the first write.
RawFinalCheck ==
  /\ At("raw", "final")
  /\ VerifyPinned
  /\ LeaseIntact
  /\ Goto("clear")
  /\ UNCHANGED <<disk, src>>

\* clearTargetEdges through the descriptor, synced; targetChanged is set by
\* the first byte that is written.
RawClearEdges ==
  /\ At("raw", "clear")
  /\ port = w.fd
  /\ cache' = [cache EXCEPT ![w.fd.disk] = [table |-> "none", fs |-> "none"]]
  /\ media' = [media EXCEPT ![w.fd.disk] = [table |-> "none", fs |-> "none"]]
  /\ w' = [w EXCEPT !.pc = "write", !.touched = TRUE, !.changed = @ \cup {w.fd}]
  /\ UNCHANGED <<port, attached, mounts, parts, src>>

\* The copy loop, in two chunks: the first carries the image's table.
RawWriteFirst ==
  /\ At("raw", "write")
  /\ port = w.fd
  /\ Change("write-rest", [table |-> "plan", fs |-> Bytes])

RawWriteRest ==
  /\ At("raw", "write-rest")
  /\ port = w.fd
  /\ Change("sync", [Held EXCEPT !.fs = Mixed(@, Bytes)])

\* Sync, then the image's identity and the digest of what was written.  A
\* mismatch is an incomplete USB.
RawSync ==
  /\ At("raw", "sync")
  /\ IF VerifyPinned /\ Held.fs = w.digest
     THEN Flush("undo")
     ELSE /\ w' = [w EXCEPT !.pc = "undo", !.err = TRUE,
                            !.claim = IF VerifyPinned THEN "incomplete" ELSE @]
          /\ UNCHANGED <<disk, src>>

RawFail == Fail("raw", {"open", "lease", "hash", "target", "before", "final", "clear", "write",
                        "write-rest", "sync"})

\* A write that fails half-way has set targetChanged; what was written is synced.
RawFailWrite ==
  /\ w.mode = "raw"
  /\ w.pc \in {"clear", "write", "write-rest"}
  /\ port = w.fd
  /\ cache' = [cache EXCEPT ![w.fd.disk].fs = "torn"]
  /\ w' = [w EXCEPT !.pc = "undo", !.err = TRUE, !.touched = TRUE, !.changed = @ \cup {w.fd}]
  /\ UNCHANGED <<port, attached, mounts, parts, media, src>>

\* finishWriteTarget, then the lease.
RawCloseTarget == At("raw", "undo") /\ CloseTarget("release")
RawRelease == At("raw", "release") /\ FinishLease("returned")

\* main: the closure again, by device number.
RawPostCheck ==
  /\ At("raw", "returned")
  /\ ~w.err
  /\ Ask(FALSE, "flush")
  /\ UNCHANGED <<disk, src>>

\* FlushBuffers of whatever the path names now.
RawFlush ==
  /\ At("raw", "flush")
  /\ port # None
  /\ cache' = [cache EXCEPT ![port.disk] = media[port.disk]]
  /\ Goto(IF w.verify THEN "verify" ELSE "finish")
  /\ UNCHANGED <<port, attached, mounts, parts, media, src>>

\* VerifyTargetDigestWithOptions reads the medium.
RawVerify ==
  /\ At("raw", "verify")
  /\ port # None
  /\ Size[port.disk] = Size[w.identity.disk]
  /\ media[port.disk].fs = w.digest
  /\ Goto("finish")
  /\ UNCHANGED <<disk, src>>

\* The reread is only warned about; the image is closed and success announced.
RawFinish ==
  /\ At("raw", "finish")
  /\ w' = [w EXCEPT !.pc = "ended", !.status = "ok", !.announced = TRUE]
  /\ UNCHANGED <<disk, src>>

RawFailAfter ==
  /\ w.mode = "raw"
  /\ w.pc \in {"flush", "verify", "finish"}
  /\ End("failed")

RawNext ==
  \/ RawOpen \/ RawHold \/ RawSnapshot \/ RawOpenTarget \/ RawBeforeWrite
  \/ RawFinalCheck \/ RawClearEdges \/ RawWriteFirst \/ RawWriteRest \/ RawSync
  \/ RawFail \/ RawFailWrite \/ RawCloseTarget \/ RawRelease \/ RawPostCheck
  \/ RawFlush \/ RawVerify \/ RawFinish \/ RawFailAfter
==============================================================================

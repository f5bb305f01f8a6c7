------------------------------- MODULE Download -------------------------------
(***************************************************************************)
(* Download (internal/acquisition/download.go, resume.go): one image, one  *)
(* destination, any number of commands.  A download writes to a private    *)
(* partial file, verifies size and SHA-256 and renames the partial to the  *)
(* destination.  With --resume the partial has a fixed name, survives      *)
(* interruptions and is protected by a flock; otherwise it has a random    *)
(* name that no other process uses.                                        *)
(*                                                                         *)
(* A file is [len, good, private, foreign]: how many blocks it holds,      *)
(* whether they are the signed ones, whether its mode is 0600, and whether *)
(* the user put it there.  A file with no name and no descriptor is free.  *)
(***************************************************************************)
EXTENDS Integers

CONSTANTS
  Jobs,   \* download commands
  Files,  \* inodes
  Size,   \* signed size, in blocks
  Nil

ASSUME SizeAssumption == Size \in Nat \ {0}
ASSUME NilIsNoValue == Nil \notin Files \cup Jobs

VARIABLES
  file,    \* inodes
  part,    \* what the resumable partial's name refers to
  dest,    \* what the destination's name refers to
  locked,  \* the process whose descriptor holds the flock on an inode
  job      \* the commands in progress

downloadVars == <<file, part, dest, locked, job>>

-----------------------------------------------------------------------------
NoJob == [pc |-> "idle", resume |-> FALSE, replace |-> FALSE, file |-> Nil]
Empty == [len |-> 0, good |-> TRUE, private |-> TRUE, foreign |-> FALSE]

JobAt(p, stage) == job[p].pc = stage
Goto(p, stage) == job' = [job EXCEPT ![p].pc = stage]
End(p) == job' = [job EXCEPT ![p] = NoJob]

Free(f) == f \notin {part, dest} /\ \A p \in Jobs : job[p].file # f
Complete(f) == file[f].len = Size /\ file[f].good
Unlock(p) == locked' = [f \in Files |-> IF locked[f] = p THEN Nil ELSE locked[f]]

\* The name of p's partial refers to the file p has written.
OwnName(p) == job[p].resume => part = job[p].file

\* Removing the partial by its name.
RemovePart(p) == part' = IF job[p].resume THEN Nil ELSE part

-----------------------------------------------------------------------------
\* existingDownload: a complete destination is reused, and the command ends;
\* another file needs --replace.
StartDownload(p, resume, replace) ==
  /\ JobAt(p, "idle")
  /\ dest # Nil => ~Complete(dest) /\ replace
  /\ job' = [job EXCEPT ![p] = [pc |-> "open", resume |-> resume,
                                  replace |-> replace, file |-> Nil]]
  /\ UNCHANGED <<file, part, dest, locked>>

\* A new file, with a random name or, under O_CREAT, with the fixed one.
Create(p, f) ==
  /\ JobAt(p, "open")
  /\ Free(f)
  /\ job[p].resume => part = Nil
  /\ file' = [file EXCEPT ![f] = Empty]
  /\ part' = IF job[p].resume THEN f ELSE part
  /\ job' = [job EXCEPT ![p].file = f,
                          ![p].pc = IF job[p].resume THEN "lock" ELSE "transfer"]
  /\ UNCHANGED <<dest, locked>>

\* The retained partial is opened.
Reopen(p) ==
  /\ JobAt(p, "open")
  /\ job[p].resume
  /\ part # Nil
  /\ job' = [job EXCEPT ![p].file = part, ![p].pc = "lock"]
  /\ UNCHANGED <<file, part, dest, locked>>

\* flock(LOCK_EX|LOCK_NB).
LockPartial(p) ==
  /\ JobAt(p, "lock")
  /\ locked[job[p].file] = Nil
  /\ locked' = [locked EXCEPT ![job[p].file] = p]
  /\ Goto(p, "inspect")
  /\ UNCHANGED <<file, part, dest>>

Busy(p) ==
  /\ JobAt(p, "lock")
  /\ locked[job[p].file] # Nil
  /\ End(p)
  /\ UNCHANGED <<file, part, dest, locked>>

\* Mutant: the mode and the links of the opened file are not examined.
Unexamined(p) == TRUE

\* An owner-only file with exactly one link.
Reusable(p) == file[job[p].file].private /\ job[p].file \in {part, dest}

\* The retained bytes are hashed.
Inspect(p) ==
  /\ JobAt(p, "inspect")
  /\ Reusable(p)
  /\ file[job[p].file].len <= Size
  /\ Goto(p, "transfer")
  /\ UNCHANGED <<file, part, dest, locked>>

RefusePartial(p) ==
  /\ JobAt(p, "inspect")
  /\ ~Reusable(p)
  /\ Unlock(p)
  /\ End(p)
  /\ UNCHANGED <<file, part, dest>>

\* A partial larger than the image is removed, after it is closed.
RefuseOversize(p) ==
  /\ JobAt(p, "inspect")
  /\ Reusable(p)
  /\ file[job[p].file].len > Size
  /\ Unlock(p)
  /\ job' = [job EXCEPT ![p].pc = "remove again", ![p].file = Nil]
  /\ UNCHANGED <<file, part, dest>>

-----------------------------------------------------------------------------
\* The server sends a block, the right one or not; the reader is limited to
\* one block more than the signed size.
Receive(p, right) ==
  /\ JobAt(p, "transfer")
  /\ file[job[p].file].len \in 0..Size
  /\ file' = [file EXCEPT ![job[p].file].len = @ + 1,
                          ![job[p].file].good = @ /\ right]
  /\ UNCHANGED <<part, dest, locked, job>>

\* The space preflight, the request, the transfer or the sync of the finished
\* file fails, or the command is cancelled: a resumable partial is kept.
Interrupted(p) ==
  /\ job[p].pc \in {"transfer", "chmod"}
  /\ Unlock(p)
  /\ End(p)
  /\ UNCHANGED <<file, part, dest>>

\* A response that contradicts the request, or a body of another length.
ProtocolError(p) ==
  /\ JobAt(p, "transfer")
  /\ file[job[p].file].len # Size
  /\ Goto(p, "discard")
  /\ UNCHANGED <<file, part, dest, locked>>

Received(p) ==
  /\ JobAt(p, "transfer")
  /\ file[job[p].file].len = Size
  /\ Goto(p, "verify")
  /\ UNCHANGED <<file, part, dest, locked>>

\* Mutant: the digest covers the bytes of this transfer only.
DigestIgnored(p) == OwnName(p)

\* The size, the name and the SHA-256 are verified.
Verified(p) == OwnName(p) /\ file[job[p].file].good

Verify(p) ==
  /\ JobAt(p, "verify")
  /\ Goto(p, IF Verified(p) THEN "chmod" ELSE "discard")
  /\ UNCHANGED <<file, part, dest, locked>>

\* cleanup(true): the descriptor is closed, which drops the lock, and the
\* name removed; the deferred function removes the name once more.
Discard(p) ==
  /\ JobAt(p, "discard")
  /\ Unlock(p)
  /\ job' = [job EXCEPT ![p].pc = "remove", ![p].file = Nil]
  /\ UNCHANGED <<file, part, dest>>

Remove(p) ==
  /\ JobAt(p, "remove")
  /\ RemovePart(p)
  /\ Goto(p, "remove again")
  /\ UNCHANGED <<file, dest, locked>>

RemoveAgain(p) ==
  /\ JobAt(p, "remove again")
  /\ RemovePart(p)
  /\ End(p)
  /\ UNCHANGED <<file, dest, locked>>

-----------------------------------------------------------------------------
Chmod(p) ==
  /\ JobAt(p, "chmod")
  /\ file' = [file EXCEPT ![job[p].file].private = FALSE]
  /\ Goto(p, "close")
  /\ UNCHANGED <<part, dest, locked>>

\* The lock is dropped; a random name still refers to the file.
Close(p) ==
  /\ JobAt(p, "close")
  /\ Unlock(p)
  /\ job' = [job EXCEPT ![p].pc = "install",
                          ![p].file = IF job[p].resume THEN Nil ELSE @]
  /\ UNCHANGED <<file, part, dest>>

\* What the name of p's partial refers to.
Named(p) == IF job[p].resume THEN part ELSE job[p].file

\* Mutant: the destination was examined before the transfer.
MayReplace(p) == TRUE

\* Rename, or a rename that refuses an existing destination.
Installable(p) == job[p].replace \/ dest = Nil

Install(p) ==
  /\ JobAt(p, "install")
  /\ Named(p) # Nil
  /\ Installable(p)
  /\ dest' = Named(p)
  /\ RemovePart(p)
  /\ job' = [job EXCEPT ![p].pc = "unlink", ![p].file = Nil]
  /\ UNCHANGED <<file, locked>>

\* The rename fails: the destination has appeared or the partial is gone.
InstallRefused(p) ==
  /\ JobAt(p, "install")
  /\ Named(p) = Nil \/ ~Installable(p)
  /\ End(p)
  /\ UNCHANGED <<file, part, dest, locked>>

\* The name is removed after the rename; the command reports success.
Unlink(p) ==
  /\ JobAt(p, "unlink")
  /\ RemovePart(p)
  /\ End(p)
  /\ UNCHANGED <<file, dest, locked>>

\* The process dies; the kernel closes its descriptor.
Kill(p) ==
  /\ ~JobAt(p, "idle")
  /\ Unlock(p)
  /\ End(p)
  /\ UNCHANGED <<file, part, dest>>

\* The user puts a file of their own at the destination, or moves one away.
UserCreates(f) ==
  /\ dest = Nil
  /\ Free(f)
  /\ file' = [file EXCEPT ![f] = [Empty EXCEPT !.foreign = TRUE]]
  /\ dest' = f
  /\ UNCHANGED <<part, locked, job>>

UserRemoves ==
  /\ dest # Nil
  /\ dest' = Nil
  /\ UNCHANGED <<file, part, locked, job>>

-----------------------------------------------------------------------------
DownloadInit ==
  /\ file = [f \in Files |-> Empty]
  /\ part = Nil
  /\ dest = Nil
  /\ locked = [f \in Files |-> Nil]
  /\ job = [p \in Jobs |-> NoJob]

DownloadNext ==
  \/ \E p \in Jobs :
       \/ \E resume, replace \in BOOLEAN : StartDownload(p, resume, replace)
       \/ \E f \in Files : Create(p, f)
       \/ Reopen(p) \/ LockPartial(p) \/ Busy(p)
       \/ Inspect(p) \/ RefusePartial(p) \/ RefuseOversize(p)
       \/ \E right \in BOOLEAN : Receive(p, right)
       \/ Interrupted(p) \/ ProtocolError(p) \/ Received(p) \/ Verify(p)
       \/ Discard(p) \/ Remove(p) \/ RemoveAgain(p)
       \/ Chmod(p) \/ Close(p) \/ Install(p) \/ InstallRefused(p) \/ Unlink(p)
       \/ Kill(p)
  \/ \E f \in Files : UserCreates(f)
  \/ UserRemoves

DownloadSpec == DownloadInit /\ [][DownloadNext]_downloadVars

-----------------------------------------------------------------------------
(* Properties *)

\* Whatever other downloads of the same image do with its partial file, the
\* destination is the user's own file or has the signed size and digest:
\* docs/acquisition-catalog.md:14.
InstalledVerified == dest # Nil => file[dest].foreign \/ Complete(dest)

\* A verified file is never written again, although commands that opened the
\* partial before it was renamed, or before its name was removed, still hold a
\* descriptor of that very file and may lock it once its writer closes it; nor
\* do two commands ever write one file.
FinishedUntouched ==
  \A p \in Jobs : JobAt(p, "transfer") =>
    /\ file[job[p].file].private
    /\ \A q \in Jobs \ {p} : JobAt(q, "transfer") => job[q].file # job[p].file

\* A file that the user put at the destination, at whatever moment of a
\* download, is replaced only by a command that was told --replace.
ForeignKept ==
  [][dest # Nil /\ dest' \notin {Nil, dest}
       => \E p \in Jobs : job[p].replace /\ job'[p].pc = "unlink"]_downloadVars
==============================================================================

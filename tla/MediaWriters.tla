------------------------------ MODULE MediaWriters -----------------------------
(***************************************************************************)
(* Every writer of bootable media behind its command, beside whoever edits *)
(* the image, pulls or swaps the disk, and mounts what is on it.           *)
(***************************************************************************)
EXTENDS RawImage, WindowsMedia, WindowsToGo, PersistentMedia, ExtractedMedia, FreeDOS,
        DeviceQualify

Next ==
  \/ CommandNext
  \/ RawNext
  \/ WindowsNext
  \/ ToGoNext
  \/ PersistentNext
  \/ ExtractedNext
  \/ FreeDOSNext
  \/ QualifyNext
  \/ Others
  \/ Stopped

Spec == SessionInit /\ [][Next]_session

-----------------------------------------------------------------------------
(* What the commands promise *)

\* The state and the writer have their types.
TypeOK ==
  /\ DiskTypeOK
  /\ src \in [ver : Versions, mtime : 0..MaxEdits, ctime : 0..MaxEdits,
              others : 0..MaxOthers, lease : {"none", "held", "broken"},
              past : SUBSET Versions]
  /\ w.mode \in Modes \cup {"none", "extracted"}
  /\ w.identity \in Attachments \cup {None}
  /\ w.fd \in Attachments \cup {None}
  /\ w.listed \subseteq MountRoots
  /\ w.own \subseteq {"iso", "overlay"} \cup TargetMounts
  /\ w.known \subseteq w.own
  /\ w.changed \subseteq Attachments
  /\ {w.image, w.digest, w.plan, w.staged} \subseteq Digests \cup {None}
  /\ w.held \in {"no", "lease", "passes"}
  /\ w.status \in {"none", "refused", "planned", "ok", "failed"}

\* Writers that publish the completion before their deferred functions run.
Early == {"windows-to-go", "extracted-fat32", "extracted-ntfs"}

\* One attachment is changed, of the selected capacity.  It is the selected
\* one wherever the last check compares identities (raw, the helper); the other
\* writers and the tools, whose closure knows the device number only, may be
\* handed a disk that took the selected one's place between RevalidateTarget
\* and their open.
ErasesReviewed ==
  \A a \in w.changed :
    /\ w.changed = {a}
    /\ Size[a.disk] = Size[w.identity.disk]
    /\ a # w.identity => w.swapped /\ w.front # "helper" /\ w.mode # "raw"

\* What a completed command leaves is the image as it was when it was hashed,
\* although the image, a shared file, may be edited while it is inspected,
\* staged and copied in several steps; a FreeDOS disk is the planned one.  Only
\* a medium that lies about its writes keeps something else, and not where the
\* medium is read back.
OneSource ==
  (w.announced \/ w.status = "ok") /\ w.mode # "qualify" =>
    \A a \in w.changed :
      /\ media[a.disk].table = "plan"
      /\ \/ media[a.disk].fs = w.digest /\ w.digest \in Versions \cup {"plan"}
         \/ w.flawed /\ ~w.verify

\* The user is told that the USB was not changed only if it was not.
ClaimHonest == w.claim = "untouched" => w.changed = {}

\* A command that succeeds has nothing left mounted, open or leased, and no
\* workspace; a completion that is published after the deferred functions
\* (emitPersistentCompletion, main) belongs to a command that succeeds.
EndsClean ==
  /\ w.status = "ok" => /\ w.own = {} /\ ~w.work /\ w.fd = None
                        /\ src.lease = "none" /\ w.announced
  /\ w.announced /\ w.mode \notin Early => w.status \in {"none", "ok"} /\ ~w.err

\* A drive passes only if it keeps each tested region on its own, whatever an
\* earlier test left on it and however the page cache is written back; the
\* full profile tests all of them.  Aliasing is reported of no other drive.
VerdictTrue ==
  w.mode = "qualify" /\ w.pc = "ended" =>
    /\ w.test.verdict = "passed" => Holds(w.test.drive, RegionIndices(w.test.profile))
    /\ w.test.verdict = "alias" =>
         \E a, b \in Addresses : a # b /\ w.test.drive.store[a] = w.test.drive.store[b]
    /\ w.status = "ok" => w.test.verdict = "passed"
==============================================================================

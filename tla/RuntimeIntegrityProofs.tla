------------------------ MODULE RuntimeIntegrityProofs ------------------------
(***************************************************************************)
(* Proofs about RuntimeIntegrity, for any number of changes by another     *)
(* program, calls, failures, deaths and power losses.                      *)
(***************************************************************************)
EXTENDS RuntimeIntegrity, TLAPS

(* The stages of a call, in their order *)
Publishing == {"stage-backup", "publish-backup"}
Replacing == {"stage-wrapper", "replace"}
Listing == {"enumerate", "hash", "generate", "stage-manifest", "publish-manifest"}
Verifying == {"verify-enumerate", "verify-hash", "verify"}
Wrapped == {"sync-wrapper", "sync-manifest"} \cup Listing \cup Verifying
Installing == Publishing \cup {"sync-backup"} \cup Replacing \cup Wrapped
UndoStages == {"undo-temporary", "undo-manifest", "undo-stage", "undo-replace", "undo-backup"}
Checking == {"check-enumerate", "check-hash", "check"}
Restoring == {"stage-original", "restore"}
Restored == {"sync-restored", "remove-backup"}
Gone == {"remove-manifest", "sync-gone", "check-removed"}
Removing == Restoring \cup Restored \cup {"sync-removed"} \cup Gone
RedoStages == {"redo-stage-wrapper", "redo-wrapper", "redo-stage-backup", "redo-backup",
               "redo-stage-manifest", "redo-manifest"}
Syncing == {"undo-sync-boot", "undo-sync-root"}
Busy == Installing \cup UndoStages \cup Checking \cup Removing \cup RedoStages \cup Syncing

\* What manifests say of the loaders, and what a call is.
Wrappers == {m \in Manifests : m.wrapper = "wrapper"} \cup {None}
Flags == {"backup", "wrapper", "manifest"}
Calls ==
  [op : {"none", "install", "remove"}, pc : {"idle"} \cup Busy,
   original : Contents \cup {None}, wrapper : Contents \cup {None},
   manifest : Wrappers, temporary : BOOLEAN, done : SUBSET Flags,
   stale : BOOLEAN, rootChanged : BOOLEAN, hashed : Listings \cup {None}, failed : BOOLEAN,
   before : Befores \cup {None}, result : {"none", "installed", "removed", "restored", "failed"}]

Types ==
  /\ tree \in Trees /\ manifest \in Wrappers /\ litter \in BOOLEAN
  /\ durable \in [tree : Trees, manifest : Wrappers]
  /\ call \in Calls
  /\ changes \in 0..MaxChanges
  /\ exposed \in BOOLEAN /\ excused \in BOOLEAN

\* What the call knows of itself: an installation starts from a tree without backup
\* and manifest, a removal from the manifest of an installation.
CallInv ==
  /\ call.op = "none" <=> At("idle")
  /\ At("idle") => ~call.temporary
  /\ ~At("idle") => call.result = "none" /\ call.before \in Befores
  /\ call.pc \in Forward => ~call.failed
  /\ call.pc \in Installing \cup UndoStages =>
       /\ call.op = "install" /\ call.wrapper = "wrapper"
       /\ call.original # None /\ call.original = call.before.boot["fallback"]
       /\ call.before.boot["backup"] = None /\ call.before.manifest = None
  /\ call.pc \in Checking \cup Removing \cup RedoStages =>
       /\ call.op = "remove" /\ call.before.manifest # None
       /\ call.manifest = call.before.manifest
  /\ call.pc \in Removing \cup RedoStages =>
       /\ call.wrapper = "wrapper" /\ call.wrapper = call.before.boot["fallback"]
       /\ call.original # None /\ call.original = call.before.boot["backup"]
       /\ call.original = call.manifest.original

\* Which changes the call has made.
DoneInv ==
  /\ call.pc \in Publishing \cup Checking \cup Restoring => call.done = {}
  /\ call.pc \in {"sync-backup"} \cup Replacing => call.done = {"backup"}
  /\ call.pc \in {"sync-wrapper"} \cup Listing => call.done = {"backup", "wrapper"}
  /\ call.pc \in UndoStages /\ "wrapper" \in call.done => "backup" \in call.done
  /\ call.pc = "undo-replace" => "wrapper" \in call.done
  /\ call.pc \in (Removing \ Restoring) \cup RedoStages => "wrapper" \in call.done
  /\ call.pc \in {"sync-manifest"} \cup Verifying =>
       call.done = {"backup", "wrapper", "manifest"}

\* What the loaders and the manifest are, by what was changed and what is undone.
TreeInv ==
  /\ call.pc \in Installing \cup UndoStages =>
       /\ tree["backup"] = IF "backup" \in call.done THEN call.original ELSE None
       /\ "wrapper" \notin call.done => tree["fallback"] = call.original
       /\ "manifest" \notin call.done => manifest = None
  /\ call.pc \in Wrapped => tree["fallback"] = call.wrapper
  /\ call.pc \in {"undo-stage", "undo-replace", "undo-backup"} /\ ~call.failed => manifest = None
  /\ call.pc = "undo-backup" /\ (~call.failed \/ ~excused) => tree["fallback"] = call.original
  /\ call.pc \in Checking \cup Restoring =>
       /\ tree["fallback"] = call.before.boot["fallback"]
       /\ tree["backup"] = call.before.boot["backup"]
       /\ manifest = call.before.manifest
  /\ call.pc \in (Removing \ Restoring) \cup {"redo-stage-wrapper", "redo-wrapper"} =>
       tree["fallback"] = call.original
  /\ call.pc \in Restored => tree["backup"] = call.original
  /\ call.pc \in RedoStages \ {"redo-stage-wrapper", "redo-wrapper"} /\ ~call.failed =>
       tree["fallback"] = call.wrapper
  /\ call.pc \in {"redo-stage-manifest", "redo-manifest"} /\ ~call.failed =>
       tree["backup"] = call.original
  /\ call.pc \in Syncing /\ ~call.failed =>
       /\ \A f \in Boot : tree[f] = call.before.boot[f]
       /\ manifest = call.before.manifest

\* What is on the disk.
DurableInv ==
  /\ call.pc \in Replacing \cup Wrapped => durable.tree["backup"] = tree["backup"]
  /\ call.pc \in Listing \cup {"sync-manifest"} \cup Verifying =>
       durable.tree["fallback"] = tree["fallback"]
  /\ call.pc \in Verifying \cup {"check-removed"} => durable.manifest = manifest
  /\ call.pc \in {"remove-backup", "sync-removed"} \cup Gone =>
       durable.tree["fallback"] = tree["fallback"]
  /\ call.pc \in Gone => durable.tree["backup"] = tree["backup"] /\ tree["backup"] = None
  /\ call.pc = "sync-removed" => tree["backup"] = None
  /\ call.pc = "undo-sync-root" /\ ~call.failed =>
       \A f \in Boot : durable.tree[f] = tree[f]

\* What was read for the manifest, unless it was changed since.
HashedInv ==
  /\ call.pc \in {"generate", "verify"} => call.hashed \in Listings
  /\ call.pc = "verify" => call.stale \/ call.rootChanged \/ call.hashed.files = tree

\* The original loader: it is one of the two, and, unless a removal is not synced,
\* one of the two holds it both in the tree and on the disk, so that it survives a
\* power loss whichever entries were written back.
OriginalInv ==
  ~excused =>
    /\ call.pc \in Installing \cup UndoStages \cup Removing \cup RedoStages =>
         call.original = "original"
    /\ call.pc \notin Irreplaceable => "original" \in {tree["fallback"], tree["backup"]}
    /\ ~exposed => \/ {tree["fallback"], durable.tree["fallback"]} = {"original"}
                   \/ {tree["backup"], durable.tree["backup"]} = {"original"}

Core == CallInv /\ DoneInv /\ TreeInv /\ DurableInv /\ HashedInv /\ OriginalInv

\* The inductive invariant.
Inv == Types /\ Core

USE NoneIsNoContent DEF At

-----------------------------------------------------------------------------
(* What a step of each shape does *)

\* What most steps leave of the call.
Rest ==
  /\ call'.op = call.op /\ call'.before = call.before /\ call'.failed = call.failed
  /\ call'.original = call.original /\ call'.wrapper = call.wrapper
  /\ call'.result = call.result
Marks ==
  call'.stale = call.stale /\ call'.rootChanged = call.rootChanged /\ call'.hashed = call.hashed

\* A call that moves on, with or without a temporary, and records a change.
LEMMA MoveShape ==
  ASSUME Types, NEW to \in Busy, NEW t \in BOOLEAN, NEW d \in SUBSET Flags,
         call' = [call EXCEPT !.pc = to, !.temporary = t, !.done = d]
  PROVE  /\ call' \in Calls /\ Rest /\ Marks /\ call'.manifest = call.manifest
         /\ call'.pc = to /\ call'.done = d
<1>1. call \in Calls
  BY DEF Types
<1>2. call' \in Calls
  <2>1. to \in {"idle"} \cup Busy
    OBVIOUS
  <2> QED BY <1>1, <2>1 DEF Calls
<1> QED BY <1>1, <1>2 DEF Calls, Rest, Marks

\* A temporary is written: no name changes.
LEMMA StageShape ==
  ASSUME Types, NEW from, NEW to \in Busy, Stage(from, to)
  PROVE  /\ Types' /\ Rest /\ Marks /\ call'.manifest = call.manifest
         /\ call.pc = from /\ call'.pc = to /\ call'.done = call.done
         /\ UNCHANGED <<tree, manifest, durable, exposed, excused>>
<1>1. call' = [call EXCEPT !.pc = to, !.temporary = TRUE, !.done = call.done]
  BY DEF Stage, Types, Calls
<1>2. call.done \in SUBSET Flags /\ TRUE \in BOOLEAN
  BY DEF Types, Calls
<1>3. /\ call' \in Calls /\ Rest /\ Marks /\ call'.manifest = call.manifest
      /\ call'.pc = to /\ call'.done = call.done
  BY <1>1, <1>2, MoveShape
<1>4. call.pc = from /\ UNCHANGED <<tree, manifest, litter, durable, changes, exposed, excused>>
  BY DEF Stage, Quiet, media
<1> QED BY <1>3, <1>4 DEF Types

\* A step with nothing to do.
LEMMA SkipShape ==
  ASSUME Types, NEW to \in Busy, Goto(to), Quiet
  PROVE  /\ Types' /\ Rest /\ Marks /\ call'.manifest = call.manifest
         /\ call'.pc = to /\ call'.done = call.done
         /\ UNCHANGED <<tree, manifest, durable, exposed, excused>>
<1>1. call' = [call EXCEPT !.pc = to, !.temporary = call.temporary, !.done = call.done]
  BY DEF Types, Calls, Goto
<1>2. call.done \in SUBSET Flags /\ call.temporary \in BOOLEAN
  BY DEF Types, Calls
<1>3. /\ call' \in Calls /\ Rest /\ Marks /\ call'.manifest = call.manifest
      /\ call'.pc = to /\ call'.done = call.done
  BY <1>1, <1>2, MoveShape
<1>4. UNCHANGED <<tree, manifest, litter, durable, changes, exposed, excused>>
  BY DEF Quiet, media
<1> QED BY <1>3, <1>4 DEF Types

\* A loader gets its new content under its name.
LEMMA RenameShape ==
  ASSUME Types, NEW from, NEW name \in Files, NEW content \in Contents \cup {None},
         NEW flag \in SUBSET Flags, NEW to \in Busy, Rename(from, name, content, flag, to)
  PROVE  /\ Types' /\ Rest /\ Marks /\ call'.manifest = call.manifest
         /\ call.pc = from /\ call'.pc = to /\ call'.done = call.done \cup flag
<1>1. call' = [call EXCEPT !.pc = to, !.temporary = FALSE, !.done = call.done \cup flag]
  BY DEF Rename, Types, Calls
<1>2. call.done \cup flag \in SUBSET Flags /\ FALSE \in BOOLEAN
  BY DEF Types, Calls
<1>3. /\ tree' \in Trees
      /\ \A f \in Files : tree'[f] = IF f = name THEN content ELSE tree[f]
  BY DEF Rename, Types, Trees
<1>4. exposed' \in BOOLEAN /\ exposed' = IF from \in Exposing THEN TRUE ELSE exposed
  BY DEF Rename, Types, Expose
<1>5. /\ call' \in Calls /\ Rest /\ Marks /\ call'.manifest = call.manifest
      /\ call'.pc = to /\ call'.done = call.done \cup flag
  BY <1>1, <1>2, MoveShape
<1> QED BY <1>3, <1>4, <1>5 DEF Rename, Types

\* A loader is removed.
LEMMA RemoveShape ==
  ASSUME Types, NEW from, NEW name \in Files, NEW to \in Busy, Remove(from, name, to)
  PROVE  /\ Types' /\ Rest /\ Marks /\ call'.manifest = call.manifest
         /\ call.pc = from /\ call'.pc = to /\ call'.done = call.done
<1>1. call' = [call EXCEPT !.pc = to, !.temporary = call.temporary, !.done = call.done]
  BY DEF Remove, Types, Calls, Goto
<1>2. call.done \in SUBSET Flags /\ call.temporary \in BOOLEAN
  BY DEF Types, Calls
<1>3. /\ tree' \in Trees
      /\ \A f \in Files : tree'[f] = IF f = name THEN None ELSE tree[f]
  BY DEF Remove, Types, Trees
<1>4. exposed' \in BOOLEAN /\ exposed' = IF from \in Exposing THEN TRUE ELSE exposed
  BY DEF Remove, Types, Expose
<1>5. /\ call' \in Calls /\ Rest /\ Marks /\ call'.manifest = call.manifest
      /\ call'.pc = to /\ call'.done = call.done
  BY <1>1, <1>2, MoveShape
<1> QED BY <1>3, <1>4, <1>5 DEF Remove, Types

\* The manifest is published.
LEMMA RenameManifestShape ==
  ASSUME Types, NEW from, NEW content \in Wrappers, NEW flag \in SUBSET Flags, NEW to \in Busy,
         RenameManifest(from, content, flag, to)
  PROVE  /\ Types' /\ Rest /\ Marks /\ call'.manifest = call.manifest
         /\ call.pc = from /\ call'.pc = to /\ call'.done = call.done \cup flag
         /\ manifest' = content
         /\ UNCHANGED <<tree, durable, exposed, excused>>
<1>1. call' = [call EXCEPT !.pc = to, !.temporary = FALSE, !.done = call.done \cup flag]
  BY DEF RenameManifest, Types, Calls
<1>2. call.done \cup flag \in SUBSET Flags /\ FALSE \in BOOLEAN
  BY DEF Types, Calls
<1>3. /\ call' \in Calls /\ Rest /\ Marks /\ call'.manifest = call.manifest
      /\ call'.pc = to /\ call'.done = call.done \cup flag
  BY <1>1, <1>2, MoveShape
<1> QED BY <1>3 DEF RenameManifest, Types

\* The manifest is removed.
LEMMA RemoveManifestShape ==
  ASSUME Types, NEW from, NEW to \in Busy, RemoveManifest(from, to)
  PROVE  /\ Types' /\ Rest /\ Marks /\ call'.manifest = call.manifest
         /\ call.pc = from /\ call'.pc = to /\ call'.done = call.done
         /\ manifest' = None
         /\ UNCHANGED <<tree, durable, exposed, excused>>
<1>1. call' = [call EXCEPT !.pc = to, !.temporary = call.temporary, !.done = call.done]
  BY DEF RemoveManifest, Types, Calls, Goto
<1>2. call.done \in SUBSET Flags /\ call.temporary \in BOOLEAN
  BY DEF Types, Calls
<1>3. /\ call' \in Calls /\ Rest /\ Marks /\ call'.manifest = call.manifest
      /\ call'.pc = to /\ call'.done = call.done
  BY <1>1, <1>2, MoveShape
<1>4. manifest' \in Wrappers
  BY DEF RemoveManifest, Wrappers
<1> QED BY <1>3, <1>4 DEF RemoveManifest, Types

\* EFI/BOOT reaches the disk.
LEMMA SyncBootShape ==
  ASSUME Types, NEW from, NEW to \in Busy, SyncBoot(from, to)
  PROVE  /\ Types' /\ Rest /\ Marks /\ call'.manifest = call.manifest
         /\ call.pc = from /\ call'.pc = to /\ call'.done = call.done
         /\ \A f \in Boot : durable'.tree[f] = tree[f]
         /\ durable'.manifest = durable.manifest
         /\ exposed' = FALSE
         /\ UNCHANGED <<tree, manifest, excused>>
<1>1. call' = [call EXCEPT !.pc = to, !.temporary = call.temporary, !.done = call.done]
  BY DEF SyncBoot, Types, Calls, Goto
<1>2. call.done \in SUBSET Flags /\ call.temporary \in BOOLEAN
  BY DEF Types, Calls
<1>3. /\ call' \in Calls /\ Rest /\ Marks /\ call'.manifest = call.manifest
      /\ call'.pc = to /\ call'.done = call.done
  BY <1>1, <1>2, MoveShape
<1>4. /\ durable' \in [tree : Trees, manifest : Wrappers]
      /\ \A f \in Boot : durable'.tree[f] = tree[f]
      /\ durable'.manifest = durable.manifest
  BY DEF SyncBoot, Types, Trees, Boot, Files
<1> QED BY <1>3, <1>4 DEF SyncBoot, Types

\* The media root reaches the disk.
LEMMA SyncRootShape ==
  ASSUME Types, NEW from, NEW to \in Busy, SyncRoot(from, to)
  PROVE  /\ Types' /\ Rest /\ Marks /\ call'.manifest = call.manifest
         /\ call.pc = from /\ call'.pc = to /\ call'.done = call.done
         /\ \A f \in Boot : durable'.tree[f] = durable.tree[f]
         /\ durable'.manifest = manifest
         /\ UNCHANGED <<tree, manifest, exposed, excused>>
<1>1. call' = [call EXCEPT !.pc = to, !.temporary = call.temporary, !.done = call.done]
  BY DEF SyncRoot, Types, Calls, Goto
<1>2. call.done \in SUBSET Flags /\ call.temporary \in BOOLEAN
  BY DEF Types, Calls
<1>3. /\ call' \in Calls /\ Rest /\ Marks /\ call'.manifest = call.manifest
      /\ call'.pc = to /\ call'.done = call.done
  BY <1>1, <1>2, MoveShape
<1>4. /\ durable' \in [tree : Trees, manifest : Wrappers]
      /\ \A f \in Boot : durable'.tree[f] = durable.tree[f]
      /\ durable'.manifest = manifest
  BY DEF SyncRoot, Types, Trees, Boot, Files
<1> QED BY <1>3, <1>4 DEF SyncRoot, Types

\* A call that ends.
LEMMA EndShape ==
  ASSUME NEW r \in {"none", "installed", "removed", "restored", "failed"},
         call' = [Idle EXCEPT !.result = r]
  PROVE  call' \in Calls /\ call'.op = "none" /\ call'.pc = "idle" /\ ~call'.temporary
         /\ call'.result = r
BY DEF Idle, Calls, Wrappers

\* From here on each step is checked against every part of the invariant.
USE DEF Boot, Publishing, Replacing, Listing, Verifying, Wrapped, Installing, UndoStages,
        Checking, Restoring, Restored, Gone, Removing, RedoStages, Syncing, Forward,
        Irreplaceable, Exposing, Flags, Rest, Core, CallInv, DoneInv, TreeInv, DurableInv,
        HashedInv, OriginalInv

-----------------------------------------------------------------------------
(* installARM64 *)

\* The copy of the original is written under a temporary name.
LEMMA StageBackupKeeps == ASSUME Inv, StageBackup PROVE Inv'
<1>1. Stage("stage-backup", "publish-backup") /\ Types
      /\ "publish-backup" \in Busy
  BY DEF StageBackup, Inv, Busy
<1>2. /\ Types' /\ Rest /\ call.pc = "stage-backup" /\ call'.pc = "publish-backup"
      /\ call'.manifest = call.manifest
      /\ call'.done = call.done /\ UNCHANGED <<tree, manifest, durable, exposed, excused>>
  BY <1>1, StageShape
<1> QED BY <1>1, <1>2 DEF Inv

\* The copy becomes the backup.
LEMMA PublishBackupKeeps == ASSUME Inv, PublishBackup PROVE Inv'
<1> DEFINE flag == {"backup"}
<1>1. /\ Rename("publish-backup", "backup", call.original, flag, "sync-backup") /\ Types
      /\ call.original \in Contents \cup {None} /\ flag \in SUBSET Flags
      /\ "backup" \in Files /\ "sync-backup" \in Busy
  BY DEF PublishBackup, Inv, Types, Calls, Files, Busy
<1>2. /\ Types' /\ Rest /\ call.pc = "publish-backup" /\ call'.pc = "sync-backup"
      /\ call'.done = call.done \cup flag /\ call'.manifest = call.manifest
  <2> HIDE DEF flag
  <2> QED BY <1>1, RenameShape
<1>3. /\ tree'["backup"] = call.original /\ tree'["fallback"] = tree["fallback"]
      /\ exposed' = exposed /\ UNCHANGED <<manifest, durable, excused>>
  BY <1>1 DEF Rename, Expose, Types, Trees, Files
<1> QED BY <1>1, <1>2, <1>3 DEF Inv

\* Loader and backup are on the disk before the loader is replaced.
LEMMA SyncBackupKeeps == ASSUME Inv, SyncBackup PROVE Inv'
<1>1. SyncBoot("sync-backup", "stage-wrapper") /\ Types
      /\ "stage-wrapper" \in Busy
  BY DEF SyncBackup, Inv, Busy
<1>2. /\ Types' /\ Rest /\ call.pc = "sync-backup" /\ call'.pc = "stage-wrapper"
      /\ call'.manifest = call.manifest
      /\ call'.done = call.done
      /\ \A f \in Boot : durable'.tree[f] = tree[f]
      /\ durable'.manifest = durable.manifest /\ ~exposed'
      /\ UNCHANGED <<tree, manifest, excused>>
  BY <1>1, SyncBootShape
<1> QED BY <1>1, <1>2 DEF Inv

\* The wrapper is written under a temporary name.
LEMMA StageWrapperKeeps == ASSUME Inv, StageWrapper PROVE Inv'
<1>1. Stage("stage-wrapper", "replace") /\ Types
      /\ "replace" \in Busy
  BY DEF StageWrapper, Inv, Busy
<1>2. /\ Types' /\ Rest /\ call.pc = "stage-wrapper" /\ call'.pc = "replace"
      /\ call'.manifest = call.manifest
      /\ call'.done = call.done /\ UNCHANGED <<tree, manifest, durable, exposed, excused>>
  BY <1>1, StageShape
<1> QED BY <1>1, <1>2 DEF Inv

\* The wrapper replaces the loader, of which the disk holds the backup.
LEMMA ReplaceFallbackKeeps == ASSUME Inv, ReplaceFallback PROVE Inv'
<1> DEFINE flag == {"wrapper"}
<1>1. /\ Rename("replace", "fallback", call.wrapper, flag, "sync-wrapper") /\ Types
      /\ call.wrapper \in Contents \cup {None} /\ flag \in SUBSET Flags
      /\ "fallback" \in Files /\ "sync-wrapper" \in Busy
  BY DEF ReplaceFallback, Inv, Types, Calls, Files, Busy
<1>2. /\ Types' /\ Rest /\ call.pc = "replace" /\ call'.pc = "sync-wrapper"
      /\ call'.done = call.done \cup flag /\ call'.manifest = call.manifest
  <2> HIDE DEF flag
  <2> QED BY <1>1, RenameShape
<1>3. /\ tree'["fallback"] = call.wrapper /\ tree'["backup"] = tree["backup"]
      /\ exposed' = exposed /\ UNCHANGED <<manifest, durable, excused>>
  BY <1>1 DEF Rename, Expose, Types, Trees, Files
<1> QED BY <1>1, <1>2, <1>3 DEF Inv

\* Wrapper and backup are on the disk.
LEMMA SyncWrapperKeeps == ASSUME Inv, SyncWrapper PROVE Inv'
<1>1. SyncBoot("sync-wrapper", "enumerate") /\ Types
      /\ "enumerate" \in Busy
  BY DEF SyncWrapper, Inv, Busy
<1>2. /\ Types' /\ Rest /\ call.pc = "sync-wrapper" /\ call'.pc = "enumerate"
      /\ call'.manifest = call.manifest
      /\ call'.done = call.done
      /\ \A f \in Boot : durable'.tree[f] = tree[f]
      /\ durable'.manifest = durable.manifest /\ ~exposed'
      /\ UNCHANGED <<tree, manifest, excused>>
  BY <1>1, SyncBootShape
<1> QED BY <1>1, <1>2 DEF Inv

\* The manifest is written under a temporary name.
LEMMA StageManifestKeeps == ASSUME Inv, StageManifest PROVE Inv'
<1>1. Stage("stage-manifest", "publish-manifest") /\ Types
      /\ "publish-manifest" \in Busy
  BY DEF StageManifest, Inv, Busy
<1>2. /\ Types' /\ Rest /\ call.pc = "stage-manifest" /\ call'.pc = "publish-manifest"
      /\ call'.manifest = call.manifest
      /\ call'.done = call.done /\ UNCHANGED <<tree, manifest, durable, exposed, excused>>
  BY <1>1, StageShape
<1> QED BY <1>1, <1>2 DEF Inv

\* The manifest is on the disk.
LEMMA SyncManifestKeeps == ASSUME Inv, SyncManifest PROVE Inv'
<1>1. SyncRoot("sync-manifest", "verify-enumerate") /\ Types
      /\ "verify-enumerate" \in Busy
  BY DEF SyncManifest, Inv, Busy
<1>2. /\ Types' /\ Rest /\ call.pc = "sync-manifest" /\ call'.pc = "verify-enumerate"
      /\ call'.manifest = call.manifest
      /\ call'.done = call.done
      /\ \A f \in Boot : durable'.tree[f] = durable.tree[f]
      /\ durable'.manifest = manifest
      /\ UNCHANGED <<tree, manifest, exposed, excused>>
  BY <1>1, SyncRootShape
<1> QED BY <1>1, <1>2 DEF Inv

-----------------------------------------------------------------------------
(* RemoveARM64 *)

\* The original is written under a temporary name.
LEMMA StageOriginalKeeps == ASSUME Inv, StageOriginal PROVE Inv'
<1>1. Stage("stage-original", "restore") /\ Types
      /\ "restore" \in Busy
  BY DEF StageOriginal, Inv, Busy
<1>2. /\ Types' /\ Rest /\ call.pc = "stage-original" /\ call'.pc = "restore"
      /\ call'.manifest = call.manifest
      /\ call'.done = call.done /\ UNCHANGED <<tree, manifest, durable, exposed, excused>>
  BY <1>1, StageShape
<1> QED BY <1>1, <1>2 DEF Inv

\* The original replaces the wrapper, while the backup is still there.
LEMMA RestoreOriginalKeeps == ASSUME Inv, RestoreOriginal PROVE Inv'
<1> DEFINE flag == {"wrapper"}
<1>1. /\ Rename("restore", "fallback", call.original, flag, "sync-restored") /\ Types
      /\ call.original \in Contents \cup {None} /\ flag \in SUBSET Flags
      /\ "fallback" \in Files /\ "sync-restored" \in Busy
  BY DEF RestoreOriginal, Inv, Types, Calls, Files, Busy
<1>2. /\ Types' /\ Rest /\ call.pc = "restore" /\ call'.pc = "sync-restored"
      /\ call'.done = call.done \cup flag /\ call'.manifest = call.manifest
  <2> HIDE DEF flag
  <2> QED BY <1>1, RenameShape
<1>3. /\ tree'["fallback"] = call.original /\ tree'["backup"] = tree["backup"]
      /\ exposed' = exposed /\ UNCHANGED <<manifest, durable, excused>>
  BY <1>1 DEF Rename, Expose, Types, Trees, Files
<1> QED BY <1>1, <1>2, <1>3 DEF Inv

\* The restored loader is on the disk before the backup goes.
LEMMA SyncRestoredKeeps == ASSUME Inv, SyncRestored PROVE Inv'
<1>1. SyncBoot("sync-restored", "remove-backup") /\ Types
      /\ "remove-backup" \in Busy
  BY DEF SyncRestored, Inv, Busy
<1>2. /\ Types' /\ Rest /\ call.pc = "sync-restored" /\ call'.pc = "remove-backup"
      /\ call'.manifest = call.manifest
      /\ call'.done = call.done
      /\ \A f \in Boot : durable'.tree[f] = tree[f]
      /\ durable'.manifest = durable.manifest /\ ~exposed'
      /\ UNCHANGED <<tree, manifest, excused>>
  BY <1>1, SyncBootShape
<1> QED BY <1>1, <1>2 DEF Inv

\* The backup goes.
LEMMA RemoveBackupKeeps == ASSUME Inv, RemoveBackup PROVE Inv'
<1>1. /\ Remove("remove-backup", "backup", "sync-removed") /\ Types
      /\ "backup" \in Files /\ "sync-removed" \in Busy
  BY DEF RemoveBackup, Inv, Files, Busy
<1>2. /\ Types' /\ Rest /\ call.pc = "remove-backup" /\ call'.pc = "sync-removed"
      /\ call'.done = call.done /\ call'.manifest = call.manifest
  BY <1>1, RemoveShape
<1>3. /\ tree'["backup"] = None /\ tree'["fallback"] = tree["fallback"]
      /\ exposed' = exposed /\ UNCHANGED <<manifest, durable, excused>>
  BY <1>1 DEF Remove, Expose, Types, Trees, Files
<1> QED BY <1>1, <1>2, <1>3 DEF Inv

\* The removal of the backup is on the disk.
LEMMA SyncRemovedKeeps == ASSUME Inv, SyncRemoved PROVE Inv'
<1>1. SyncBoot("sync-removed", "remove-manifest") /\ Types
      /\ "remove-manifest" \in Busy
  BY DEF SyncRemoved, Inv, Busy
<1>2. /\ Types' /\ Rest /\ call.pc = "sync-removed" /\ call'.pc = "remove-manifest"
      /\ call'.manifest = call.manifest
      /\ call'.done = call.done
      /\ \A f \in Boot : durable'.tree[f] = tree[f]
      /\ durable'.manifest = durable.manifest /\ ~exposed'
      /\ UNCHANGED <<tree, manifest, excused>>
  BY <1>1, SyncBootShape
<1> QED BY <1>1, <1>2 DEF Inv

\* The removal of the manifest is on the disk.
LEMMA SyncGoneKeeps == ASSUME Inv, SyncGone PROVE Inv'
<1>1. SyncRoot("sync-gone", "check-removed") /\ Types
      /\ "check-removed" \in Busy
  BY DEF SyncGone, Inv, Busy
<1>2. /\ Types' /\ Rest /\ call.pc = "sync-gone" /\ call'.pc = "check-removed"
      /\ call'.manifest = call.manifest
      /\ call'.done = call.done
      /\ \A f \in Boot : durable'.tree[f] = durable.tree[f]
      /\ durable'.manifest = manifest
      /\ UNCHANGED <<tree, manifest, exposed, excused>>
  BY <1>1, SyncRootShape
<1> QED BY <1>1, <1>2 DEF Inv

-----------------------------------------------------------------------------
(* Reading the tree, and the ends of a call *)

\* A step that reads: files and disk stay, and the call moves on.
Reads(from, to) ==
  /\ Types' /\ Rest /\ call.pc = from /\ call'.pc = to /\ call'.done = call.done
  /\ UNCHANGED <<tree, manifest, durable, exposed, excused>>

\* enumerateDirectory, within one reading or for a new one.
LEMMA EnumerateShape ==
  ASSUME Types, NEW from, NEW to \in Busy, Enumerate(from, to) \/ EnumerateAnew(from, to)
  PROVE  Reads(from, to) /\ call'.manifest = call.manifest
<1>1. call \in Calls /\ FALSE \in BOOLEAN /\ to \in {"idle"} \cup Busy
  BY DEF Types
<1>2. CASE Enumerate(from, to)
  <2>1. call' \in Calls
    BY <1>1, <1>2 DEF Enumerate, Calls
  <2> QED BY <1>1, <1>2, <2>1 DEF Enumerate, Reads, Quiet, media, Calls, Types
<1>3. CASE EnumerateAnew(from, to)
  <2>1. call' \in Calls
    BY <1>1, <1>3 DEF EnumerateAnew, Calls
  <2> QED BY <1>1, <1>3, <2>1 DEF EnumerateAnew, Reads, Quiet, media, Calls, Types
<1> QED BY <1>2, <1>3

\* hashEntries.
LEMMA HashShape ==
  ASSUME Types, NEW from, NEW to \in Busy, HashEntries(from, to)
  PROVE  /\ Reads(from, to) /\ call'.manifest = call.manifest
         /\ call'.hashed = Listed /\ Listed \in Listings
<1>1. call \in Calls /\ Listed \in Listings /\ to \in {"idle"} \cup Busy
  BY DEF Types, Listed, Listings
<1>2. call' \in Calls
  <2>1. call' = [call EXCEPT !.pc = to, !.hashed = Listed] /\ Listed \in Listings \cup {None}
    BY <1>1 DEF HashEntries
  <2> HIDE DEF Listed
  <2> QED BY <1>1, <2>1 DEF Calls
<1> QED BY <1>1, <1>2 DEF HashEntries, Reads, Quiet, media, Calls, Types

\* The readings of an installation and of a removal.
LEMMA ReadsKeep ==
  ASSUME Inv,
         \/ Enumerate("enumerate", "hash") \/ HashEntries("hash", "generate")
         \/ EnumerateAnew("verify-enumerate", "verify-hash")
         \/ HashEntries("verify-hash", "verify")
         \/ EnumerateAnew("check-enumerate", "check-hash") \/ HashEntries("check-hash", "check")
  PROVE  Inv'
<1> USE DEF Reads
<1>1. Types /\ {"hash", "generate", "verify-hash", "verify", "check-hash", "check"} \subseteq Busy
  BY DEF Inv, Busy
<1>2. CASE Enumerate("enumerate", "hash")
  <2>1. Reads("enumerate", "hash") /\ call'.manifest = call.manifest
    BY <1>1, <1>2, EnumerateShape
  <2> QED BY <2>1 DEF Inv
<1>3. CASE EnumerateAnew("verify-enumerate", "verify-hash")
  <2>1. Reads("verify-enumerate", "verify-hash") /\ call'.manifest = call.manifest
    BY <1>1, <1>3, EnumerateShape
  <2> QED BY <2>1 DEF Inv
<1>4. CASE EnumerateAnew("check-enumerate", "check-hash")
  <2>1. Reads("check-enumerate", "check-hash") /\ call'.manifest = call.manifest
    BY <1>1, <1>4, EnumerateShape
  <2> QED BY <2>1 DEF Inv
<1>5. CASE HashEntries("hash", "generate")
  <2>1. Reads("hash", "generate") /\ call'.manifest = call.manifest /\ call'.hashed \in Listings
    BY <1>1, <1>5, HashShape
  <2> QED BY <2>1 DEF Inv
<1>6. CASE HashEntries("verify-hash", "verify")
  <2>1. /\ Reads("verify-hash", "verify") /\ call'.manifest = call.manifest
        /\ call'.hashed \in Listings /\ call'.hashed.files = tree
    BY <1>1, <1>6, HashShape DEF Listings, Listed
  <2> QED BY <2>1 DEF Inv
<1>7. CASE HashEntries("check-hash", "check")
  <2>1. Reads("check-hash", "check") /\ call'.manifest = call.manifest
    BY <1>1, <1>7, HashShape
  <2> QED BY <2>1 DEF Inv
<1> QED BY <1>2, <1>3, <1>4, <1>5, <1>6, <1>7

\* An installation begins with a loader and neither backup nor manifest.
LEMMA BeginInstallKeeps == ASSUME Inv, BeginInstall PROVE Inv'
<1> DEFINE before == [boot |-> [f \in Boot |-> tree[f]], manifest |-> manifest]
<1>1. /\ before \in Befores /\ before.boot["fallback"] = tree["fallback"]
      /\ before.boot["backup"] = None /\ before.manifest = None
  BY DEF BeginInstall, Inv, Types, Trees, Files, Befores, Wrappers
<1>2. /\ tree["fallback"] \in Contents /\ "wrapper" \in Contents
      /\ "stage-backup" \in {"idle"} \cup Busy /\ before \in Befores \cup {None}
  BY <1>1 DEF BeginInstall, Inv, Types, Trees, Files, Contents, Busy
<1> HIDE DEF before
<1>3. call' = [Idle EXCEPT !.op = "install", !.pc = "stage-backup", !.before = before,
                           !.original = tree["fallback"], !.wrapper = "wrapper"]
  BY DEF BeginInstall, Idle, before
<1>4. /\ call' \in Calls /\ call'.op = "install" /\ call'.pc = "stage-backup"
      /\ call'.before = before /\ call'.original = tree["fallback"] /\ call'.wrapper = "wrapper"
      /\ call'.done = {} /\ ~call'.failed /\ call'.result = "none"
  BY <1>2, <1>3 DEF Idle, Calls, Wrappers
<1>5. /\ call.pc = "idle" /\ tree["backup"] = None /\ manifest = None
      /\ UNCHANGED <<tree, manifest, litter, durable, changes, exposed, excused>>
  BY DEF BeginInstall, Quiet, media
<1> QED BY <1>1, <1>2, <1>4, <1>5 DEF Inv, Types, Contents

\* A removal begins with the manifest of an installation.
LEMMA BeginRemoveKeeps == ASSUME Inv, BeginRemove PROVE Inv'
<1> DEFINE before == [boot |-> [f \in Boot |-> tree[f]], manifest |-> manifest]
<1>1. /\ before \in Befores /\ \A f \in Boot : before.boot[f] = tree[f]
      /\ before.manifest = manifest
  BY DEF BeginRemove, Inv, Types, Trees, Files, Befores, Wrappers
<1>2. /\ manifest \in Wrappers /\ manifest # None
      /\ "check-enumerate" \in {"idle"} \cup Busy /\ before \in Befores \cup {None}
  BY <1>1 DEF BeginRemove, Inv, Types, Busy
<1> HIDE DEF before
<1>3. call' = [Idle EXCEPT !.op = "remove", !.pc = "check-enumerate", !.before = before,
                           !.manifest = manifest]
  BY DEF BeginRemove, Idle, before
<1>4. /\ call' \in Calls /\ call'.op = "remove" /\ call'.pc = "check-enumerate"
      /\ call'.before = before /\ call'.manifest = manifest
      /\ call'.done = {} /\ ~call'.failed /\ call'.result = "none"
  BY <1>2, <1>3 DEF Idle, Calls
<1>5. /\ call.pc = "idle"
      /\ UNCHANGED <<tree, manifest, litter, durable, changes, exposed, excused>>
  BY DEF BeginRemove, Quiet, media
<1> QED BY <1>1, <1>2, <1>4, <1>5 DEF Inv, Types

\* The manifest is made from what was read, and names the wrapper.
LEMMA GenerateKeeps == ASSUME Inv, Generate PROVE Inv'
<1> DEFINE new == [listed |-> call.hashed, original |-> call.original, wrapper |-> call.wrapper]
<1>1. new \in Wrappers
  BY DEF Generate, Inv, Types, Calls, Wrappers, Manifests, Contents
<1> HIDE DEF new
<1>2. call' = [call EXCEPT !.pc = "stage-manifest", !.manifest = new] /\ call \in Calls
      /\ "stage-manifest" \in {"idle"} \cup Busy
  BY DEF Generate, new, Inv, Types, Busy
<1>3. /\ call' \in Calls /\ Rest /\ call.pc = "generate" /\ call'.pc = "stage-manifest"
      /\ call'.done = call.done
  BY <1>1, <1>2 DEF Calls, Generate
<1>4. UNCHANGED <<tree, manifest, litter, durable, changes, exposed, excused>>
  BY DEF Generate, Quiet, media
<1> QED BY <1>3, <1>4 DEF Inv, Types

\* The manifest gets its name.
LEMMA PublishManifestKeeps == ASSUME Inv, PublishManifest PROVE Inv'
<1> DEFINE flag == {"manifest"}
<1>1. /\ RenameManifest("publish-manifest", call.manifest, flag, "sync-manifest") /\ Types
      /\ call.manifest \in Wrappers /\ flag \in SUBSET Flags /\ "sync-manifest" \in Busy
  BY DEF PublishManifest, Inv, Types, Calls, Busy
<1>2. /\ Types' /\ Rest /\ call.pc = "publish-manifest" /\ call'.pc = "sync-manifest"
      /\ call'.done = call.done \cup flag /\ call'.manifest = call.manifest
  <2> HIDE DEF flag
  <2> QED BY <1>1, RenameManifestShape
<1>3. UNCHANGED <<tree, durable, exposed, excused>>
  BY <1>1 DEF RenameManifest
<1> QED BY <1>1, <1>2, <1>3 DEF Inv

\* The backup and the wrapper are those the manifest names, and the backup is
\* the original.
LEMMA CheckInstalledKeeps == ASSUME Inv, CheckInstalled PROVE Inv'
<1>1. /\ call \in Calls /\ tree["fallback"] \in Contents \cup {None}
      /\ tree["backup"] \in Contents \cup {None} /\ "stage-original" \in {"idle"} \cup Busy
  BY DEF Inv, Types, Trees, Files, Busy
<1>2. /\ call' \in Calls /\ call'.op = call.op /\ call'.before = call.before
      /\ call'.failed = call.failed /\ call'.result = call.result
      /\ call'.manifest = call.manifest /\ call'.done = call.done
      /\ call.pc = "check" /\ call'.pc = "stage-original"
      /\ call'.wrapper = tree["fallback"] /\ call'.original = tree["backup"]
  BY <1>1 DEF CheckInstalled, Calls
<1>3. UNCHANGED <<tree, manifest, litter, durable, changes, exposed, excused>>
  BY DEF CheckInstalled, Quiet, media
<1>4. call.manifest \in Manifests /\ call.manifest.wrapper = "wrapper"
  BY <1>1, <1>2 DEF Inv, Calls, Wrappers
<1>5. tree["fallback"] = "wrapper" /\ tree["backup"] = call.manifest.original
      /\ call.manifest.original \in Contents
  BY <1>4 DEF CheckInstalled, Manifests
<1> QED BY <1>1, <1>2, <1>3, <1>4, <1>5 DEF Inv, Types, Contents

\* A removal unlinks the manifest last.
LEMMA RemoveOldManifestKeeps == ASSUME Inv, RemoveOldManifest PROVE Inv'
<1>1. RemoveManifest("remove-manifest", "sync-gone") /\ Types /\ "sync-gone" \in Busy
  BY DEF RemoveOldManifest, Inv, Busy
<1>2. /\ Types' /\ Rest /\ call.pc = "remove-manifest" /\ call'.pc = "sync-gone"
      /\ call'.done = call.done /\ call'.manifest = call.manifest
  BY <1>1, RemoveManifestShape
<1>3. UNCHANGED <<tree, durable, exposed, excused>>
  BY <1>1 DEF RemoveManifest
<1> QED BY <1>1, <1>2, <1>3 DEF Inv

\* A call that ends leaves the original where it is.
LEMMA EndKeeps ==
  ASSUME Inv, Types', call'.pc = "idle", call'.op = "none", ~call'.temporary,
         call.pc \notin Irreplaceable,
         \A f \in Boot : durable'.tree[f] = durable.tree[f],
         UNCHANGED <<tree, exposed, excused>>
  PROVE  Inv'
BY DEF Inv

\* Both calls end well.
LEMMA SucceedKeeps == ASSUME Inv, VerifyInstalled \/ CheckRemoved PROVE Inv'
<1>1. PICK r \in {"installed", "removed"} : Ended(r)
  BY DEF VerifyInstalled, CheckRemoved
<1>2. call' \in Calls /\ call'.op = "none" /\ call'.pc = "idle" /\ ~call'.temporary
  BY <1>1, EndShape DEF Ended
<1>3. UNCHANGED <<tree, manifest, litter, durable, changes, exposed, excused>>
  BY DEF VerifyInstalled, CheckRemoved, Quiet, media
<1>4. call.pc \notin Irreplaceable
  BY DEF VerifyInstalled, CheckRemoved
<1> QED BY <1>2, <1>3, <1>4, EndKeeps DEF Inv, Types

-----------------------------------------------------------------------------
(* Rollback *)

\* A step with nothing to do.
LEMMA SkipKeeps ==
  ASSUME Inv,
         \/ "manifest" \notin call.done /\ At("undo-manifest") /\ Goto("undo-stage") /\ Quiet
         \/ "wrapper" \notin call.done /\ At("undo-stage") /\ Goto("undo-backup") /\ Quiet
         \/ "backup" \notin call.done /\ At("undo-backup") /\ Goto("undo-sync-boot") /\ Quiet
  PROVE  Inv'
<1>1. Types /\ {"undo-stage", "undo-backup", "undo-sync-boot"} \subseteq Busy
  BY DEF Inv, Busy
<1>2. PICK to \in {"undo-stage", "undo-backup", "undo-sync-boot"} :
        /\ Goto(to) /\ Quiet
        /\ to = "undo-stage" => call.pc = "undo-manifest" /\ "manifest" \notin call.done
        /\ to = "undo-backup" => call.pc = "undo-stage" /\ "wrapper" \notin call.done
        /\ to = "undo-sync-boot" => call.pc = "undo-backup" /\ "backup" \notin call.done
  OBVIOUS
<1>3. /\ Types' /\ Rest /\ call'.pc = to /\ call'.done = call.done
      /\ call'.manifest = call.manifest
      /\ UNCHANGED <<tree, manifest, durable, exposed, excused>>
  BY <1>1, <1>2, SkipShape
<1> QED BY <1>2, <1>3 DEF Inv

\* The temporary of the failed step goes.
LEMMA UndoTemporaryKeeps == ASSUME Inv, UndoTemporary PROVE Inv'
<1>1. call' = [call EXCEPT !.pc = "undo-manifest", !.temporary = FALSE, !.done = call.done]
  BY DEF UndoTemporary, Inv, Types, Calls
<1>2. /\ Types /\ call.done \in SUBSET Flags /\ FALSE \in BOOLEAN /\ "undo-manifest" \in Busy
  BY DEF Inv, Types, Calls, Busy
<1>3. /\ call' \in Calls /\ Rest /\ call'.pc = "undo-manifest" /\ call'.done = call.done
      /\ call'.manifest = call.manifest
  BY <1>1, <1>2, MoveShape
<1>4. /\ call.pc = "undo-temporary"
      /\ UNCHANGED <<tree, manifest, litter, durable, changes, exposed, excused>>
  BY DEF UndoTemporary, Quiet, media
<1> QED BY <1>3, <1>4 DEF Inv, Types

\* The published manifest goes.
LEMMA UndoManifestKeeps == ASSUME Inv, UndoManifest PROVE Inv'
<1>1. CASE RemoveManifest("undo-manifest", "undo-stage")
  <2>1. Types /\ "undo-stage" \in Busy
    BY DEF Inv, Busy
  <2>2. /\ Types' /\ Rest /\ call.pc = "undo-manifest" /\ call'.pc = "undo-stage"
        /\ call'.done = call.done /\ call'.manifest = call.manifest
    BY <1>1, <2>1, RemoveManifestShape
  <2>3. manifest' = None /\ UNCHANGED <<tree, durable, exposed, excused>>
    BY <1>1 DEF RemoveManifest
  <2> QED BY <2>2, <2>3 DEF Inv
<1> QED BY <1>1, SkipKeeps DEF UndoManifest

\* The loader gets its old content again, or the original stays in the backup.
LEMMA UndoWrapperKeeps == ASSUME Inv, UndoWrapper PROVE Inv'
<1>1. Types /\ {"undo-replace", "undo-backup"} \subseteq Busy
  BY DEF Inv, Busy
<1>2. CASE "wrapper" \in call.done /\ Stage("undo-stage", "undo-replace")
  <2>1. /\ Types' /\ Rest /\ call.pc = "undo-stage" /\ call'.pc = "undo-replace"
        /\ call'.done = call.done /\ call'.manifest = call.manifest
        /\ UNCHANGED <<tree, manifest, durable, exposed, excused>>
    BY <1>1, <1>2, StageShape
  <2> QED BY <1>2, <2>1 DEF Inv
<1>3. CASE Rename("undo-replace", "fallback", call.original, {}, "undo-backup")
  <2> DEFINE flag == {}
  <2>1. /\ Rename("undo-replace", "fallback", call.original, flag, "undo-backup")
        /\ call.original \in Contents \cup {None} /\ flag \in SUBSET Flags
        /\ "fallback" \in Files
    BY <1>3 DEF Inv, Types, Calls, Files
  <2>2. /\ Types' /\ Rest /\ call.pc = "undo-replace" /\ call'.pc = "undo-backup"
        /\ call'.done = call.done \cup flag /\ call'.manifest = call.manifest
    <3> HIDE DEF flag
    <3> QED BY <1>1, <2>1, RenameShape
  <2>3. /\ tree'["fallback"] = call.original /\ tree'["backup"] = tree["backup"]
        /\ exposed' = exposed /\ UNCHANGED <<manifest, durable, excused>>
    BY <1>1, <2>1 DEF Rename, Expose, Types, Trees, Files
  <2> QED BY <2>2, <2>3 DEF Inv
<1> QED BY <1>2, <1>3, SkipKeeps DEF UndoWrapper

\* The backup goes, when the loader is the original again.
LEMMA UndoBackupKeeps == ASSUME Inv, UndoBackup PROVE Inv'
<1>1. CASE Remove("undo-backup", "backup", "undo-sync-boot")
  <2>1. Types /\ "backup" \in Files /\ "undo-sync-boot" \in Busy
    BY DEF Inv, Files, Busy
  <2>2. /\ Types' /\ Rest /\ call.pc = "undo-backup" /\ call'.pc = "undo-sync-boot"
        /\ call'.done = call.done /\ call'.manifest = call.manifest
    BY <1>1, <2>1, RemoveShape
  <2>3. /\ tree'["backup"] = None /\ tree'["fallback"] = tree["fallback"]
        /\ exposed' /\ UNCHANGED <<manifest, durable, excused>>
    BY <1>1, <2>1 DEF Remove, Expose, Types, Trees, Files
  <2> QED BY <2>2, <2>3 DEF Inv
<1> QED BY <1>1, SkipKeeps DEF UndoBackup

\* What the rollback did to the loaders is on the disk.
LEMMA UndoSyncKeeps == ASSUME Inv, UndoSync PROVE Inv'
<1>1. SyncBoot("undo-sync-boot", "undo-sync-root") /\ Types /\ "undo-sync-root" \in Busy
  BY DEF UndoSync, Inv, Busy
<1>2. /\ Types' /\ Rest /\ call.pc = "undo-sync-boot" /\ call'.pc = "undo-sync-root"
      /\ call'.manifest = call.manifest /\ call'.done = call.done
      /\ \A f \in Boot : durable'.tree[f] = tree[f]
      /\ durable'.manifest = durable.manifest /\ ~exposed'
      /\ UNCHANGED <<tree, manifest, excused>>
  BY <1>1, SyncBootShape
<1> QED BY <1>1, <1>2 DEF Inv

\* The rollback ends.
LEMMA UndoEndsKeeps == ASSUME Inv, UndoEnds PROVE Inv'
<1>1. PICK r \in {"failed", "restored"} : Ended(r)
  BY DEF UndoEnds
<1>2. call' \in Calls /\ call'.op = "none" /\ call'.pc = "idle" /\ ~call'.temporary
  BY <1>1, EndShape DEF Ended
<1>3. /\ durable' \in [tree : Trees, manifest : Wrappers]
      /\ \A f \in Boot : durable'.tree[f] = durable.tree[f]
  BY DEF UndoEnds, Inv, Types, Trees, Files
<1>4. /\ UNCHANGED <<tree, manifest, litter, changes, exposed, excused>>
      /\ call.pc \notin Irreplaceable
  BY DEF UndoEnds
<1> QED BY <1>2, <1>3, <1>4, EndKeeps DEF Inv, Types

\* A step of the rollback fails, which it remembers, and the next one is tried.
LEMMA UndoFailsKeeps == ASSUME Inv, UndoFails PROVE Inv'
<1>1. litter' \in BOOLEAN /\ UNCHANGED <<tree, manifest, durable, changes, exposed>>
  BY DEF UndoFails, Inv, Types
<1>2. /\ excused' \in BOOLEAN /\ (excused => excused')
      /\ call.pc \in Irreplaceable \cup {"undo-stage", "undo-replace"} => excused'
  BY DEF UndoFails, Inv, Types
<1>3. CASE At("undo-sync-root")
  <2>1. call' = Idle
    BY <1>3 DEF UndoFails
  <2>2. call' \in Calls /\ call'.op = "none" /\ call'.pc = "idle" /\ ~call'.temporary
    BY <2>1 DEF Idle, Calls, Wrappers
  <2>3. excused' = excused
    BY <1>3 DEF UndoFails, Inv, Types
  <2> QED BY <1>1, <1>3, <2>2, <2>3, EndKeeps DEF Inv, Types
<1>4. CASE ~At("undo-sync-root")
  <2> DEFINE to == AfterFailure[call.pc]
  <2>1. /\ call.pc \in {"undo-temporary", "undo-manifest", "undo-stage", "undo-replace",
                        "undo-backup", "undo-sync-boot"} \cup RedoStages
        /\ to = CASE call.pc = "undo-temporary" -> "undo-manifest"
                  [] call.pc = "undo-manifest" -> "undo-stage"
                  [] call.pc \in {"undo-stage", "undo-replace"} -> "undo-backup"
                  [] call.pc \in {"redo-stage-wrapper", "redo-wrapper"} -> "redo-stage-backup"
                  [] call.pc \in {"redo-stage-backup", "redo-backup"} -> "redo-stage-manifest"
                  [] call.pc \in {"undo-backup", "redo-stage-manifest", "redo-manifest"} ->
                       "undo-sync-boot"
                  [] call.pc = "undo-sync-boot" -> "undo-sync-root"
    BY <1>4 DEF UndoFails, Attempted, AfterFailure
  <2> HIDE DEF to
  <2>2. to \in {"idle"} \cup Busy
    BY <2>1 DEF Busy
  <2>3. call' = [call EXCEPT !.pc = to, !.temporary = FALSE, !.failed = TRUE]
    BY <1>4 DEF UndoFails, to
  <2>4. /\ call' \in Calls /\ call'.op = call.op /\ call'.before = call.before /\ call'.failed
        /\ call'.original = call.original /\ call'.wrapper = call.wrapper
        /\ call'.result = call.result /\ call'.manifest = call.manifest
        /\ call'.done = call.done /\ call'.pc = to
    BY <2>2, <2>3 DEF Inv, Types, Calls
  <2>5. CallInv' /\ DoneInv'
    BY <2>1, <2>4 DEF Inv
  <2>6. TreeInv'
    BY <1>1, <1>2, <2>1, <2>4 DEF Inv
  <2>7. DurableInv' /\ HashedInv'
    BY <1>1, <2>1, <2>4 DEF Inv
  <2>8. OriginalInv'
    BY <1>1, <1>2, <2>1, <2>4 DEF Inv
  <2> QED BY <1>1, <1>2, <2>4, <2>5, <2>6, <2>7, <2>8 DEF Inv, Types
<1> QED BY <1>3, <1>4

\* The installed state is restored: wrapper, backup, manifest.
LEMMA RedoKeeps == ASSUME Inv, Redo PROVE Inv'
<1>1. Types /\ RedoStages \cup {"undo-sync-boot"} \subseteq Busy
  BY DEF Inv, Busy
<1>2. CASE Stage("redo-stage-wrapper", "redo-wrapper")
  <2>1. /\ Types' /\ Rest /\ call.pc = "redo-stage-wrapper" /\ call'.pc = "redo-wrapper"
        /\ call'.done = call.done /\ call'.manifest = call.manifest
        /\ UNCHANGED <<tree, manifest, durable, exposed, excused>>
    BY <1>1, <1>2, StageShape
  <2> QED BY <2>1 DEF Inv
<1>3. CASE Rename("redo-wrapper", "fallback", call.wrapper, {}, "redo-stage-backup")
  <2> DEFINE flag == {}
  <2>1. /\ Rename("redo-wrapper", "fallback", call.wrapper, flag, "redo-stage-backup")
        /\ call.wrapper \in Contents \cup {None} /\ flag \in SUBSET Flags /\ "fallback" \in Files
    BY <1>3 DEF Inv, Types, Calls, Files
  <2>2. /\ Types' /\ Rest /\ call.pc = "redo-wrapper" /\ call'.pc = "redo-stage-backup"
        /\ call'.done = call.done \cup flag /\ call'.manifest = call.manifest
    <3> HIDE DEF flag
    <3> QED BY <1>1, <2>1, RenameShape
  <2>3. /\ tree'["fallback"] = call.wrapper /\ tree'["backup"] = tree["backup"]
        /\ exposed' /\ UNCHANGED <<manifest, durable, excused>>
    BY <1>1, <2>1 DEF Rename, Expose, Types, Trees, Files
  <2> QED BY <2>2, <2>3 DEF Inv
<1>4. CASE Stage("redo-stage-backup", "redo-backup")
  <2>1. /\ Types' /\ Rest /\ call.pc = "redo-stage-backup" /\ call'.pc = "redo-backup"
        /\ call'.done = call.done /\ call'.manifest = call.manifest
        /\ UNCHANGED <<tree, manifest, durable, exposed, excused>>
    BY <1>1, <1>4, StageShape
  <2> QED BY <2>1 DEF Inv
<1>5. CASE Rename("redo-backup", "backup", call.original, {}, "redo-stage-manifest")
  <2> DEFINE flag == {}
  <2>1. /\ Rename("redo-backup", "backup", call.original, flag, "redo-stage-manifest")
        /\ call.original \in Contents \cup {None} /\ flag \in SUBSET Flags /\ "backup" \in Files
    BY <1>5 DEF Inv, Types, Calls, Files
  <2>2. /\ Types' /\ Rest /\ call.pc = "redo-backup" /\ call'.pc = "redo-stage-manifest"
        /\ call'.done = call.done \cup flag /\ call'.manifest = call.manifest
    <3> HIDE DEF flag
    <3> QED BY <1>1, <2>1, RenameShape
  <2>3. /\ tree'["backup"] = call.original /\ tree'["fallback"] = tree["fallback"]
        /\ exposed' = exposed /\ UNCHANGED <<manifest, durable, excused>>
    BY <1>1, <2>1 DEF Rename, Expose, Types, Trees, Files
  <2> QED BY <2>2, <2>3 DEF Inv
<1>6. CASE Stage("redo-stage-manifest", "redo-manifest")
  <2>1. /\ Types' /\ Rest /\ call.pc = "redo-stage-manifest" /\ call'.pc = "redo-manifest"
        /\ call'.done = call.done /\ call'.manifest = call.manifest
        /\ UNCHANGED <<tree, manifest, durable, exposed, excused>>
    BY <1>1, <1>6, StageShape
  <2> QED BY <2>1 DEF Inv
<1>7. CASE RenameManifest("redo-manifest", call.before.manifest, {}, "undo-sync-boot")
  <2> DEFINE flag == {}
  <2>1. /\ RenameManifest("redo-manifest", call.before.manifest, flag, "undo-sync-boot")
        /\ flag \in SUBSET Flags
    BY <1>7
  <2>2. call.before.manifest \in Wrappers
    BY <1>7 DEF RenameManifest, Inv, Types, Calls
  <2>3. /\ Types' /\ Rest /\ call.pc = "redo-manifest" /\ call'.pc = "undo-sync-boot"
        /\ call'.done = call.done \cup flag /\ call'.manifest = call.manifest
    <3> HIDE DEF flag
    <3> QED BY <1>1, <2>1, <2>2, RenameManifestShape
  <2>4. manifest' = call.before.manifest /\ UNCHANGED <<tree, durable, exposed, excused>>
    BY <2>1 DEF RenameManifest
  <2> QED BY <2>3, <2>4 DEF Inv
<1> QED BY <1>2, <1>3, <1>4, <1>5, <1>6, <1>7 DEF Redo

-----------------------------------------------------------------------------
(* Failure *)

\* A record of no call.
LEMMA IdleCall ==
  Idle \in Calls /\ Idle.op = "none" /\ Idle.pc = "idle" /\ ~Idle.temporary
BY DEF Idle, Calls, Wrappers

\* A step fails: what the call has changed so far is what its rollback undoes.
LEMMA FailKeeps == ASSUME Inv, Fail PROVE Inv'
<1>1. /\ litter' \in BOOLEAN /\ UNCHANGED <<tree, manifest, durable, changes, exposed, excused>>
      /\ call.pc \in Forward
  BY DEF Fail, Inv, Types
<1>2. CASE call' = Idle
  BY <1>1, <1>2, IdleCall, EndKeeps DEF Inv, Types
<1>3. ASSUME NEW to \in {"undo-temporary", "redo-stage-wrapper"},
             call' = [call EXCEPT !.pc = to],
             to = "undo-temporary" => call.op = "install",
             to = "redo-stage-wrapper" => call.op = "remove" /\ "wrapper" \in call.done
      PROVE  Inv'
  <2>1. to \in {"idle"} \cup Busy
    BY DEF Busy
  <2>2. /\ call' \in Calls /\ Rest /\ call'.manifest = call.manifest
        /\ call'.done = call.done /\ call'.pc = to
    BY <1>3, <2>1 DEF Inv, Types, Calls
  <2> QED BY <1>1, <1>3, <2>2 DEF Inv, Types
<1> QED BY <1>2, <1>3 DEF Fail

\* The process dies: what it did remains.
LEMMA KillKeeps == ASSUME Inv, Kill PROVE Inv'
<1>1. /\ call' = Idle /\ litter' \in BOOLEAN /\ excused' \in BOOLEAN
      /\ excused' = IF call.pc \in Irreplaceable THEN TRUE ELSE excused
      /\ UNCHANGED <<tree, manifest, durable, changes, exposed>>
  BY DEF Kill, Inv, Types, Calls
<1> QED BY <1>1, IdleCall DEF Inv, Types

\* The kernel writes an entry back: no copy that is on the disk gets lost that is
\* not lost in the tree.
LEMMA WritebackKeeps == ASSUME Inv, Writeback PROVE Inv'
<1>1. UNCHANGED <<tree, manifest, litter, call, changes, exposed, excused>>
  BY DEF Writeback
<1>2. /\ durable' \in [tree : Trees, manifest : Wrappers]
      /\ \A f \in Boot : durable'.tree[f] \in {tree[f], durable.tree[f]}
      /\ durable'.manifest \in {manifest, durable.manifest}
  <2>1. CASE \E f \in Files : durable' = [durable EXCEPT !.tree[f] = tree[f]]
    BY <2>1 DEF Inv, Types, Trees, Files
  <2>2. CASE durable' = [durable EXCEPT !.manifest = manifest]
    BY <2>2 DEF Inv, Types
  <2> QED BY <2>1, <2>2 DEF Writeback
<1>3. CallInv' /\ DoneInv' /\ TreeInv' /\ HashedInv'
  BY <1>1 DEF Inv
<1>4. DurableInv'
  BY <1>1, <1>2 DEF Inv
<1>5. OriginalInv'
  BY <1>1, <1>2 DEF Inv
<1> QED BY <1>1, <1>2, <1>3, <1>4, <1>5 DEF Inv, Types

\* The power goes: the disk holds a copy unless a removal was not synced.
LEMMA PowerLossKeeps == ASSUME Inv, PowerLoss PROVE Inv'
<1>1. /\ call' = Idle /\ litter' \in BOOLEAN /\ excused' \in BOOLEAN /\ exposed' = FALSE
      /\ ~excused' => ~excused /\ ~exposed /\ call.pc \notin Irreplaceable
      /\ tree' = durable.tree /\ manifest' = durable.manifest /\ UNCHANGED <<durable, changes>>
  BY DEF PowerLoss, Inv, Types, Calls
<1>2. Types'
  BY <1>1, IdleCall DEF Inv, Types
<1>3. CallInv' /\ DoneInv' /\ TreeInv' /\ DurableInv' /\ HashedInv'
  BY <1>1, IdleCall
<1>4. OriginalInv'
  BY <1>1, IdleCall DEF Inv
<1> QED BY <1>2, <1>3, <1>4 DEF Inv

\* Another program changes a file that is no loader.
LEMMA ChangeKeeps == ASSUME Inv, Change PROVE Inv'
<1>1. /\ UNCHANGED <<manifest, litter, durable, exposed, excused>>
      /\ changes' \in 0..MaxChanges
  BY ChangesAssumption DEF Change, Inv, Types
<1>2. tree' \in Trees /\ \A f \in Boot : tree'[f] = tree[f]
  BY DEF Change, Inv, Types, Trees, Files, Contents
<1>3. /\ call' \in Calls /\ Rest /\ call'.pc = call.pc /\ call'.done = call.done
      /\ call'.manifest = call.manifest /\ call'.hashed = call.hashed
      /\ call'.temporary = call.temporary
      /\ call.pc # "idle" => call'.stale \/ call'.rootChanged
  <2>1. call \in Calls /\ (call.pc # "idle") \in BOOLEAN
    BY DEF Inv, Types
  <2>2. CASE call' = [call EXCEPT !.stale = call.pc # "idle"]
    BY <2>1, <2>2 DEF Calls
  <2>3. CASE call' = [call EXCEPT !.rootChanged = call.pc # "idle"]
    BY <2>1, <2>3 DEF Calls
  <2> QED BY <2>2, <2>3 DEF Change
<1> QED BY <1>1, <1>2, <1>3 DEF Inv, Types

-----------------------------------------------------------------------------
(* The inductive invariant *)

\* The first state: boot media with the original loader alone.
LEMMA InitKeeps == Init => Inv
<1> SUFFICES ASSUME Init PROVE Inv
  OBVIOUS
<1>1. /\ tree \in Trees /\ tree["fallback"] = "original" /\ durable.tree = tree
      /\ manifest = None /\ call = Idle
  BY DEF Init, Trees, Files, Contents
<1>2. /\ durable \in [tree : Trees, manifest : Wrappers] /\ manifest \in Wrappers
      /\ changes \in 0..MaxChanges /\ litter \in BOOLEAN
      /\ exposed \in BOOLEAN /\ excused \in BOOLEAN
  <2>1. durable = [tree |-> tree, manifest |-> None] /\ None \in Wrappers
    BY DEF Init, Wrappers
  <2>2. durable \in [tree : Trees, manifest : Wrappers]
    BY <1>1, <2>1
  <2>3. changes = 0 /\ litter = FALSE /\ exposed = FALSE /\ excused = FALSE
    BY DEF Init
  <2>4. changes \in 0..MaxChanges
    BY <2>3, ChangesAssumption
  <2> QED BY <1>1, <2>1, <2>2, <2>3, <2>4, Zenon
<1> QED BY <1>1, <1>2, IdleCall DEF Inv, Types

\* Every step keeps it.
LEMMA NextKeeps == ASSUME Inv, [Next]_vars PROVE Inv'
<1>1. CASE Install
  BY <1>1, BeginInstallKeeps, StageBackupKeeps, PublishBackupKeeps, SyncBackupKeeps,
     StageWrapperKeeps, ReplaceFallbackKeeps, SyncWrapperKeeps, ReadsKeep, GenerateKeeps,
     StageManifestKeeps, PublishManifestKeeps, SyncManifestKeeps, SucceedKeeps DEF Install
<1>2. CASE RemoveCall
  BY <1>2, BeginRemoveKeeps, ReadsKeep, CheckInstalledKeeps, StageOriginalKeeps,
     RestoreOriginalKeeps, SyncRestoredKeeps, RemoveBackupKeeps, SyncRemovedKeeps,
     RemoveOldManifestKeeps, SyncGoneKeeps, SucceedKeeps DEF RemoveCall
<1>3. CASE Undo
  BY <1>3, UndoTemporaryKeeps, UndoManifestKeeps, UndoWrapperKeeps, UndoBackupKeeps,
     UndoSyncKeeps, UndoEndsKeeps, UndoFailsKeeps DEF Undo
<1>4. CASE UNCHANGED vars
  BY <1>4 DEF vars, media, Inv, Types
<1> QED BY <1>1, <1>2, <1>3, <1>4, RedoKeeps, FailKeeps, KillKeeps, WritebackKeeps,
           PowerLossKeeps, ChangeKeeps DEF Next

\* The invariant holds.
LEMMA Invariant == Spec => []Inv
BY InitKeeps, NextKeeps, PTL DEF Spec

-----------------------------------------------------------------------------
(* Theorems *)

\* Only three steps of a call make a result.
LEMMA ResultSteps ==
  ASSUME Inv, [Next]_vars, ~At("idle"), call'.result # "none"
  PROVE  UndoEnds \/ VerifyInstalled \/ CheckRemoved
<1> USE DEF Goto
<1>1. call \in Calls /\ call.result = "none" /\ Idle.result = "none"
  BY DEF Inv, Types, Idle
<1>2. CASE Install
  <2>1. \A from, to : ~Stage(from, to) /\ ~SyncBoot(from, to) /\ ~SyncRoot(from, to)
                      /\ ~Enumerate(from, to) /\ ~EnumerateAnew(from, to)
                      /\ ~HashEntries(from, to)
    BY <1>1 DEF Stage, SyncBoot, SyncRoot, Enumerate, EnumerateAnew, HashEntries, Calls
  <2>2. ~BeginInstall /\ ~Generate
    BY <1>1 DEF BeginInstall, Generate, Calls
  <2>3. ~PublishBackup /\ ~ReplaceFallback /\ ~PublishManifest
    BY <1>1 DEF PublishBackup, ReplaceFallback, PublishManifest, Rename, RenameManifest, Calls
  <2> QED BY <1>2, <2>1, <2>2, <2>3 DEF Install, StageBackup, SyncBackup, StageWrapper,
             SyncWrapper, StageManifest, SyncManifest
<1>3. CASE RemoveCall
  <2>1. \A from, to : ~Stage(from, to) /\ ~SyncBoot(from, to) /\ ~SyncRoot(from, to)
                      /\ ~EnumerateAnew(from, to) /\ ~HashEntries(from, to)
    BY <1>1 DEF Stage, SyncBoot, SyncRoot, EnumerateAnew, HashEntries, Calls
  <2>2. ~BeginRemove /\ ~CheckInstalled
    BY <1>1 DEF BeginRemove, CheckInstalled, Calls
  <2>3. ~RestoreOriginal /\ ~RemoveBackup /\ ~RemoveOldManifest
    BY <1>1 DEF RestoreOriginal, RemoveBackup, RemoveOldManifest, Rename, Remove,
                RemoveManifest, Calls
  <2> QED BY <1>3, <2>1, <2>2, <2>3 DEF RemoveCall, StageOriginal, SyncRestored, SyncRemoved,
             SyncGone
<1>4. CASE Undo
  <2>1. ~UndoTemporary /\ ~UndoManifest /\ ~UndoWrapper /\ ~UndoBackup
    BY <1>1 DEF UndoTemporary, UndoManifest, UndoWrapper, UndoBackup, RemoveManifest, Stage,
                Rename, Remove, Calls
  <2>2. ~UndoSync /\ ~UndoFails
    BY <1>1 DEF UndoSync, SyncBoot, UndoFails, Calls
  <2> QED BY <1>4, <2>1, <2>2 DEF Undo
<1>5. ~Redo
  BY <1>1 DEF Redo, Stage, Rename, RenameManifest, Calls
<1>6. ~Fail /\ ~Kill /\ ~Writeback /\ ~PowerLoss /\ ~Change /\ ~UNCHANGED vars
  BY <1>1 DEF Fail, Kill, Writeback, PowerLoss, Change, vars, Calls
<1> QED BY <1>2, <1>3, <1>4, <1>5, <1>6 DEF Next

\* Every variable keeps its shape; between calls nothing is owned.
THEOREM TypeCorrect == Spec => []TypeOK
<1>1. ASSUME Inv PROVE TypeOK
  <2>1. call.pc \in {"idle"} \cup Forward \cup DOMAIN AfterFailure
    BY <1>1 DEF Inv, Types, Calls, Busy, AfterFailure
  <2>2. /\ manifest = None \/ manifest \in Manifests
        /\ durable.manifest = None \/ durable.manifest \in Manifests
        /\ call.manifest = None \/ call.manifest \in Manifests
    BY <1>1 DEF Inv, Types, Calls, Wrappers
  <2>3. /\ call.op \in {"none", "install", "remove"} /\ call.original \in Contents \cup {None}
        /\ call.hashed = None \/ call.hashed \in Listings
        /\ call.before = None \/ call.before \in Befores
        /\ call.done \subseteq Flags
        /\ (call.op = "none") <=> At("idle")
        /\ At("idle") => ~call.temporary
    BY <1>1 DEF Inv, Types, Calls
  <2> HIDE DEF At
  <2> QED BY <1>1, <2>1, <2>2, <2>3 DEF Inv, Types, TypeOK
<1> QED BY <1>1, Invariant, PTL

\* However a call of InstallARM64 or RemoveARM64 fails, dies or loses power, the
\* original loader is one of the two files, save where a rollback could not write it.
THEOREM OriginalKeptHolds == Spec => []OriginalKept
<1>1. ASSUME Inv PROVE OriginalKept
  BY <1>1 DEF Inv, OriginalKept
<1> QED BY <1>1, Invariant, PTL

\* rollbackInstall and restoreInstalledState, when none of their steps fails,
\* restore loader, backup and manifest exactly, in the tree and on the disk.
THEOREM UndoExactHolds == Spec => UndoExact
<1> DEFINE Exact == /\ \A f \in Boot : {tree'[f], durable'.tree[f]} = {call.before.boot[f]}
                    /\ {manifest', durable'.manifest} = {call.before.manifest}
<1>1. ASSUME Inv, [Next]_vars, ~At("idle"), call'.result = "restored"
      PROVE  Exact
  <2>1. UndoEnds
    <3>1. ~VerifyInstalled /\ ~CheckRemoved
      BY <1>1 DEF VerifyInstalled, CheckRemoved, Ended, Idle
    <3> QED BY <1>1, <3>1, ResultSteps
  <2>2. call.pc = "undo-sync-root" /\ ~call.failed
    BY <1>1, <2>1 DEF UndoEnds, Ended, Idle
  <2>3. /\ \A f \in Boot : durable'.tree[f] = durable.tree[f]
        /\ durable'.manifest = manifest /\ tree' = tree /\ manifest' = manifest
    BY <1>1, <2>1 DEF UndoEnds, Inv, Types, Trees, Files
  <2> QED BY <1>1, <2>2, <2>3 DEF Inv
<1>2. ASSUME Inv, [Next]_vars
      PROVE  [~At("idle") /\ call'.result = "restored" => Exact]_vars
  BY <1>1, <1>2
<1> QED BY <1>2, Invariant, PTL DEF Spec, UndoExact

\* What InstallARM64 or RemoveARM64 reports as done is on the disk.
THEOREM SuccessDurableHolds == Spec => SuccessDurable
<1> DEFINE Done ==
       /\ \A f \in Boot : durable'.tree[f] = tree'[f]
       /\ durable'.manifest = manifest'
       /\ IF call'.result = "installed"
            THEN /\ tree'["fallback"] = "wrapper" /\ tree'["backup"] = call.original
                 /\ call.stale \/ manifest'.listed.files = tree'
            ELSE /\ tree'["fallback"] = call.before.manifest.original
                 /\ tree'["backup"] = None /\ manifest' = None
<1>1. ASSUME Inv, [Next]_vars, ~At("idle"), call'.result \in {"installed", "removed"}
      PROVE  Done
  <2>1. ~UndoEnds
    BY <1>1 DEF UndoEnds, Ended, Idle
  <2>2. CASE VerifyInstalled
    <3>1. /\ call'.result = "installed" /\ call.pc = "verify" /\ ~call.rootChanged
          /\ manifest.listed = call.hashed
          /\ UNCHANGED <<tree, manifest, durable>>
      BY <2>2 DEF VerifyInstalled, Ended, Idle, RootUnchanged, Valid, Quiet, media
    <3> QED BY <1>1, <3>1 DEF Inv
  <2>3. CASE CheckRemoved
    <3>1. /\ call'.result = "removed" /\ call.pc = "check-removed"
          /\ tree["fallback"] = call.manifest.original
          /\ tree["backup"] = None /\ manifest = None
          /\ UNCHANGED <<tree, manifest, durable>>
      BY <2>3 DEF CheckRemoved, Ended, Idle, Quiet, media
    <3> QED BY <1>1, <3>1 DEF Inv
  <2> QED BY <1>1, <2>1, <2>2, <2>3, ResultSteps
<1>2. ASSUME Inv, [Next]_vars
      PROVE  [~At("idle") /\ call'.result \in {"installed", "removed"} => Done]_vars
  BY <1>1, <1>2
<1> QED BY <1>2, Invariant, PTL DEF Spec, SuccessDurable
==============================================================================

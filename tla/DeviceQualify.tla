----------------------------- MODULE DeviceQualify -----------------------------
(***************************************************************************)
(* rufusarm64-device-qualify: every tested region of a drive is filled     *)
(* with a pattern of its address, the page cache is dropped, and all of    *)
(* them are read back, once for each of several patterns.  A drive may     *)
(* hold less than it says: addresses wrap around, or writes to some of     *)
(* them are lost, and it may hold the patterns of an earlier test.         *)
(***************************************************************************)
EXTENDS WriteCommand, Sequences

CONSTANTS
  TotalRegions,      \* of the region size on the drive
  QuickRegionCount   \* sampled by the quick profile

ASSUME RegionAssumption == TotalRegions \in Nat \ {0} /\ QuickRegionCount \in Nat \ {0}

Qual(stage) == At("qualify", stage)
Addresses == 0..TotalRegions - 1

Lowest(S) == CHOOSE a \in S : \A b \in S : a <= b

-----------------------------------------------------------------------------
(* BuildPlan *)

\* regionIndices.
RegionIndices(profile) ==
  LET count == IF TotalRegions < QuickRegionCount THEN TotalRegions ELSE QuickRegionCount
  IN  IF profile = "full" THEN Addresses
      ELSE IF count = 1 THEN {0}
      ELSE {((TotalRegions - 1) * sample) \div (count - 1) : sample \in 0..count - 1}

\* makeSentinelIndices: they are verified first.
SentinelIndices(profile) ==
  IF profile = "quick" THEN RegionIndices(profile)
  ELSE {((TotalRegions - 1) * quarter) \div 4 : quarter \in 0..4}

\* Mutant: one pattern is enough to tell addresses apart.
OnePattern(profile) == <<"address-b">>

DefaultPatterns(profile) ==
  IF profile = "quick" THEN <<"address-a", "address-b">>
  ELSE <<"address-a", "address-b", "address-c", "address-d">>

-----------------------------------------------------------------------------
(* The drive: where an address is stored, which cells keep what is written   *)

Drives ==
  {[store |-> [a \in Addresses |-> a % real], kept |-> Addresses] : real \in 1..TotalRegions}
    \cup {[store |-> [a \in Addresses |-> a], kept |-> 0..real - 1] : real \in Addresses}

\* It holds something else, or what a test of either profile left.
Leftovers ==
  {[a \in Addresses |-> <<"other", a>>]}
    \cup {[a \in Addresses |-> <<pattern, a>>] : pattern \in {"address-b", "address-d"}}

\* The drive keeps each of these regions on its own.
Holds(drive, regions) ==
  /\ \A a, b \in regions : drive.store[a] = drive.store[b] => a = b
  /\ \A a \in regions : drive.store[a] \in drive.kept

-----------------------------------------------------------------------------

QualifyStart(profile, noUnmount) ==
  /\ w.pc = "start"
  /\ w' = [w EXCEPT !.pc = "discover", !.front = "tool", !.mode = "qualify",
                    !.noUnmount = noUnmount, !.test = [profile |-> profile, verdict |-> "none"]]
  /\ UNCHANGED <<disk, src>>

\* The target is found and checked, and the regions are planned.
QualifyDiscover ==
  /\ Qual("discover")
  /\ ValidateTarget
  /\ w' = [w EXCEPT !.pc = "confirm", !.identity = port, !.listed = mounts]
  /\ UNCHANGED <<disk, src>>

\* O_EXCL, then number and capacity.
QualifyOpen ==
  /\ Qual("open")
  /\ mounts = {}
  /\ OpenTarget("before")

BeforeWrite ==
  /\ Qual("before")
  /\ Bound
  /\ Ask(FALSE, "ready")
  /\ UNCHANGED <<disk, src>>

\* The engine starts, on whatever drive this is.
QualifyRun ==
  /\ Qual("ready")
  /\ Bound
  /\ \E drive \in Drives, cells \in Leftovers :
       w' = [w EXCEPT !.pc = "write",
                      !.test = [profile |-> @.profile, verdict |-> "passed", pass |-> 1,
                                left |-> RegionIndices(@.profile), drive |-> drive,
                                cells |-> cells, cached |-> [a \in {} |-> None]]]
  /\ UNCHANGED <<disk, src>>

Pattern(a) == <<DefaultPatterns(w.test.profile)[w.test.pass], a>>

\* writeRegion leaves the region in the page cache.
WriteRegion ==
  /\ Qual("write")
  /\ port = w.fd
  /\ LET a == Lowest(w.test.left)
         cached == [b \in DOMAIN w.test.cached \cup {a} |->
                      IF b = a THEN Pattern(a) ELSE w.test.cached[b]]
         left == w.test.left \ {a}
     IN  w' = [w EXCEPT !.pc = IF left = {} THEN "sync" ELSE "write", !.changed = @ \cup {w.fd},
                        !.test.cached = cached, !.test.left = left]
  /\ cache' = [cache EXCEPT ![w.fd.disk] = [table |-> "torn", fs |-> "torn"]]
  /\ UNCHANGED <<port, attached, mounts, parts, media, src>>

\* The regions of the page cache that reach a cell.
Stored(test, c) ==
  {a \in DOMAIN test.cached : test.drive.store[a] = c /\ c \in test.drive.kept}

\* What fsync may leave, in any order of writing back: the last one of them.
WrittenBack(test) ==
  {[c \in Addresses |-> IF Stored(test, c) = {} THEN test.cells[c] ELSE test.cached[last[c]]] :
     last \in {f \in [Addresses -> Addresses] :
                 \A c \in Addresses : f[c] \in IF Stored(test, c) = {} THEN {c}
                                               ELSE Stored(test, c)}}

\* Mutant: the page cache is not dropped.
SyncKeepsCache ==
  /\ Qual("sync")
  /\ Bound
  /\ w' = [w EXCEPT !.pc = "verify", !.test.left = RegionIndices(w.test.profile)]
  /\ media' = [media EXCEPT ![w.fd.disk] = Held]
  /\ UNCHANGED <<port, attached, mounts, parts, cache, src>>

\* flushedDeviceBackend.Sync: fsync, BLKFLSBUF, VerifyOpenDevice.
SyncRegions ==
  /\ Qual("sync")
  /\ Bound
  /\ \E cells \in WrittenBack(w.test) :
       w' = [w EXCEPT !.pc = "verify", !.test.left = RegionIndices(w.test.profile),
                      !.test.cells = cells, !.test.cached = [a \in {} |-> None]]
  /\ media' = [media EXCEPT ![w.fd.disk] = Held]
  /\ UNCHANGED <<port, attached, mounts, parts, cache, src>>

Read(a) ==
  IF a \in DOMAIN w.test.cached THEN w.test.cached[a] ELSE w.test.cells[w.test.drive.store[a]]

\* The sentinels come first.
Verifying ==
  LET first == w.test.left \cap SentinelIndices(w.test.profile)
  IN  Lowest(IF first = {} THEN w.test.left ELSE first)

\* verifyRegion finds the pattern of the region; after the last region comes
\* the next pattern, after the last pattern the final look at the target.
VerifyRegion ==
  /\ Qual("verify")
  /\ port = w.fd
  /\ LET a == Verifying
         test == w.test
         again == test.pass < Len(DefaultPatterns(test.profile))
     IN  /\ Read(a) = Pattern(a)
         /\ w' = IF test.left # {a} THEN [w EXCEPT !.test.left = @ \ {a}]
                 ELSE IF again
                 THEN [w EXCEPT !.pc = "write", !.test.pass = @ + 1,
                                !.test.left = RegionIndices(test.profile)]
                 ELSE [w EXCEPT !.pc = "final", !.test.left = {}]
  /\ UNCHANGED <<disk, src>>

\* It finds something else: the pattern of another tested region, or not.
Mismatch ==
  /\ Qual("verify")
  /\ port = w.fd
  /\ Read(Verifying) # Pattern(Verifying)
  /\ w' = [w EXCEPT !.pc = "undo", !.err = TRUE,
                    !.test.verdict =
                      IF \E b \in RegionIndices(w.test.profile) : Read(Verifying) = Pattern(b)
                      THEN "alias" ELSE "failed"]
  /\ UNCHANGED <<disk, src>>

QualifyFinalCheck == Qual("final") /\ Bound /\ Pass("undo")

\* An error before the engine starts leaves no report.
QualifyRefuse == Fail("qualify", {"open", "before", "ready"})

\* A read, write or sync fails, or the command is cancelled, which Sync
\* reports as a failure.
QualifyFail(verdict) ==
  /\ \/ w.mode = "qualify" /\ w.pc \in {"write", "verify"}
     \/ Qual("sync") /\ verdict = "failed"
  /\ w' = [w EXCEPT !.pc = "undo", !.err = TRUE, !.test.verdict = verdict]
  /\ UNCHANGED <<disk, src>>

\* The last look at the target refuses it.
QualifyFinalFails == Fail("qualify", {"final"})

QualifyClose == Qual("undo") /\ CloseTarget("report")

\* finishDeviceRun: a report must not stay passed when something failed.
FinishDeviceRun ==
  /\ Qual("report")
  /\ w' = [w EXCEPT !.pc = "returned",
                    !.test.verdict = IF w.err /\ @ = "passed" THEN "failed" ELSE @]
  /\ UNCHANGED <<disk, src>>

QualifyNext ==
  \/ \E profile \in {"quick", "full"}, noUnmount \in BOOLEAN : QualifyStart(profile, noUnmount)
  \/ QualifyDiscover \/ QualifyOpen \/ BeforeWrite \/ QualifyRun \/ WriteRegion \/ SyncRegions
  \/ VerifyRegion \/ Mismatch \/ QualifyFinalCheck \/ QualifyRefuse
  \/ \E verdict \in {"failed", "cancelled"} : QualifyFail(verdict)
  \/ QualifyFinalFails \/ QualifyClose \/ FinishDeviceRun
==============================================================================

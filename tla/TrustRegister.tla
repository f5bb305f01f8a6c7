---------------------------- MODULE TrustRegister ----------------------------
(***************************************************************************)
(* What the FFU trust store promises its callers: one trust record that    *)
(* only moves forward, and never behind a record that some call reported.  *)
(***************************************************************************)
EXTENDS Integers, Sequences

CONSTANT None

VARIABLES
  value,     \* the record the store would load
  reported   \* the last record a call returned

Terminal(r) == r # None /\ r.ev[Len(r.ev)].kind = "withdraw"

\* The sequence moves forward, or the same bundle is published again.
Precedes(a, b) ==
  \/ a = None
  \/ /\ b # None
     /\ \/ a.name.seq < b.name.seq
        \/ /\ a.name.seq = b.name.seq
           /\ a.name.payload.bundle = b.name.payload.bundle

Init == value = None /\ reported = None

\* A new record takes effect; a withdrawn one is the last.
Advance ==
  /\ ~Terminal(value)
  /\ value' # None
  /\ Precedes(value, value')
  /\ UNCHANGED reported

\* A record that nobody reported is taken back, by a rollback or a power loss.
TakeBack ==
  /\ value # reported
  /\ Precedes(value', value)
  /\ value' = reported \/ Precedes(reported, value')
  /\ UNCHANGED reported

Report ==
  /\ value # None
  /\ reported' = value
  /\ UNCHANGED value

Next == Advance \/ TakeBack \/ Report

Spec == Init /\ [][Next]_<<value, reported>>
=============================================================================

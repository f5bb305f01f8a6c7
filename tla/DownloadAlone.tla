---------------------------- MODULE DownloadAlone -----------------------------
(***************************************************************************)
(* Behaviours of Download in which the user does, or does not, wait for    *)
(* one command to end before starting the next.                            *)
(***************************************************************************)
EXTENDS Download

VARIABLE alone  \* whether commands run one at a time in this behaviour

OneAtATime == \A p, q \in Jobs : ~JobAt(p, "idle") /\ ~JobAt(q, "idle") => p = q

AloneInit == DownloadInit /\ alone \in BOOLEAN

AloneNext == DownloadNext /\ (alone => OneAtATime') /\ UNCHANGED alone

AloneSpec == AloneInit /\ [][AloneNext]_<<downloadVars, alone>>

-----------------------------------------------------------------------------
\* With one command at a time, killed, cancelled, resumed and served wrong
\* bytes in any order, the destination is the user's own file or has the signed
\* size and digest.
AloneVerified == alone => InstalledVerified
==============================================================================

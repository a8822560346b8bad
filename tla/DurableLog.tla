----------------------------- MODULE DurableLog -----------------------------
(***************************************************************************)
(* What the metadata store of a raw pool promises to its callers.  log is  *)
(* the sequence of transactions a caller has been told are durable.  It    *)
(* only ever grows: a commit adds to it, and an open may add transactions  *)
(* that had reached the disks before their outcome could be reported, but  *)
(* an open never comes back without one that was reported.                 *)
(***************************************************************************)
EXTENDS SequencesExt

VARIABLES log, serving

logVars == <<log, serving>>

LogInit == log = << >> /\ ~serving

\* A commit, an event or a sync is acknowledged.
Report == serving /\ IsPrefix(log, log') /\ UNCHANGED serving

\* A writable open completes.
Serve == ~serving /\ serving' /\ IsPrefix(log, log')

\* Clean unmount or crash.
Stop == serving /\ ~serving' /\ UNCHANGED log

LogNext == Report \/ Serve \/ Stop

LogSpec == LogInit /\ [][LogNext]_logVars

=============================================================================

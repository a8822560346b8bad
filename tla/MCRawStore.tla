----------------------------- MODULE MCRawStore -----------------------------
(* Instances of RawStore, and the abstract specification they implement.   *)
(* The members are interchangeable: nothing in the code or in the model    *)
(* tells one disk id from another.                                         *)
EXTENDS RawStore, TLC

CONSTANTS d1, d2, d3

Sym == Permutations(Members)

Log == INSTANCE DurableLog WITH log <- acked, serving <- phase = "up"

\* The pool implements a durable log: no open, crash, fault or roll back ever
\* takes back a transaction that was reported durable.
ImplementsDurableLog == Log!LogSpec

=============================================================================

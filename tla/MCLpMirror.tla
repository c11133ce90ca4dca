----------------------------- MODULE MCLpMirror -----------------------------
(***************************************************************************)
(* TLC instance of LpMirror: one user's deposits and withdrawals.          *)
(***************************************************************************)
EXTENDS LpMirror, TLC

tx(kind, units, lamports, slot) == [kind |-> kind, units |-> units, lamports |-> lamports, slot |-> slot]

\* A deposit, a withdrawal with a gain, a request that is cancelled, and a deposit in the
\* slot of the cancellation.
History == << tx("deposit", 10, 5, 1), tx("request", 4, 0, 2), tx("complete", 4, 6, 3),
              tx("request", 3, 0, 4), tx("cancel", 3, 0, 5), tx("deposit", 6, 7, 5) >>

\* Ingests are alike.
WorkerSymmetry == Permutations(Ingests)

=============================================================================

------------------------------- MODULE Totals -------------------------------
(***************************************************************************)
(* The sum f[1] + ... + f[n], as a running total so that both TLC and the  *)
(* provers can use it.  The program never computes it: it keeps counters   *)
(* (VaultV2State) that are claimed to equal such sums over accounts.       *)
(***************************************************************************)
EXTENDS Integers

running_total(f, n) ==
    LET s[i \in 0..n] == IF i = 0 THEN 0 ELSE s[i-1] + f[i]
    IN  s

Total(f, n) == running_total(f, n)[n]

=============================================================================

-------------------------------- MODULE Sums --------------------------------
(***************************************************************************)
(* Sums over the rows of a table: what Sum('remaining_amount') and the     *)
(* ledger's totals add up.  The partial sums are a recursive function, so   *)
(* that CashbackProofs can establish their laws.                            *)
(***************************************************************************)
EXTENDS Integers

\* PartialSums(f)[n] = f[1] + ... + f[n]
PartialSums(f) ==
    LET s[n \in Nat] == IF n = 0 THEN 0 ELSE s[n - 1] + f[n] IN s

SumTo(f, n) == PartialSums(f)[n]

=============================================================================

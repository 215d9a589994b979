------------------------------- MODULE Serial -------------------------------
(***************************************************************************)
(* Serial number arithmetic (go/pion-sctp-patched/util.go, RFC 1982) for   *)
(* numbers modulo m: the code has it for m = 2^32 (TSNs, message           *)
(* identifiers) and for m = 2^16 (stream sequence numbers).                *)
(***************************************************************************)
EXTENDS Integers

Half(m) == m \div 2

snaLT(m, i, j) == (i < j /\ j - i < Half(m)) \/ (i > j /\ i - j > Half(m))
snaLTE(m, i, j) == i = j \/ snaLT(m, i, j)
snaGT(m, i, j) == (i < j /\ j - i >= Half(m)) \/ (i > j /\ i - j <= Half(m))
snaGTE(m, i, j) == i = j \/ snaGT(m, i, j)

\* Unsigned addition and subtraction of the Go integers.
Plus(m, i, k) == (i + k) % m
Minus(m, i, j) == (i - j + m) % m
=============================================================================

------------------------------- MODULE Amounts -------------------------------
(* Python's abs, max and min, on whole numbers.                             *)
EXTENDS Integers

Size(n) == IF n < 0 THEN -n ELSE n
Larger(m, n) == IF m >= n THEN m ELSE n
Lesser(m, n) == IF m <= n THEN m ELSE n
=============================================================================

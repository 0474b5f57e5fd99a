------------------------------- MODULE Totals -------------------------------
(***************************************************************************)
(* Python's sum() over a sequence of numbers and its comprehensions with a *)
(* condition, as functions of how many elements were taken, so that the    *)
(* provers can follow them step by step.                                   *)
(***************************************************************************)
EXTENDS Naturals, Sequences

\* The sums of the first 0, 1, 2, ... numbers of a sequence.
Sums(numbers) ==
    LET sum[n \in 0 .. Len(numbers)] == IF n = 0 THEN 0 ELSE sum[n - 1] + numbers[n]
    IN  sum

Total(numbers) == Sums(numbers)[Len(numbers)]

Ones(mask) == [i \in DOMAIN mask |-> IF mask[i] THEN 1 ELSE 0]

\* sum(mask)
Count(mask) == Total(Ones(mask))

\* The places that the mask keeps, among the first 0, 1, 2, ...
Kept(mask) ==
    LET kept[n \in 0 .. Len(mask)] ==
            IF n = 0 THEN << >> ELSE IF mask[n] THEN Append(kept[n - 1], n) ELSE kept[n - 1]
    IN  kept

\* [x for x, keep in zip(s, mask) if keep]
Masked(s, mask) ==
    LET kept == Kept(mask)[Len(mask)] IN [k \in DOMAIN kept |-> s[kept[k]]]
==============================================================================

-------------------------- MODULE FilteredSequences --------------------------
(* The comprehension [x for x in s if x in R] of the code, as a recursive   *)
(* function: what is kept of the first i elements.                          *)
EXTENDS Naturals, Sequences

Keeping(s, R) ==
    LET kept[i \in 0 .. Len(s)] ==
            IF i = 0 THEN <<>>
            ELSE IF s[i] \in R THEN Append(kept[i - 1], s[i])
            ELSE kept[i - 1]
    IN  kept[Len(s)]
=============================================================================

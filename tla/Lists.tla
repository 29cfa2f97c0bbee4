-------------------------------- MODULE Lists --------------------------------
(***************************************************************************)
(* Filtering a sequence, by recursion over its length: the theorems about  *)
(* queues and lists of entries reason about what it keeps.                 *)
(***************************************************************************)
EXTENDS Naturals, Sequences

\* The members of s outside es, in their order.
Others(s, es) ==
    LET kept[k \in 0..Len(s)] ==
            IF k = 0 THEN <<>>
            ELSE IF s[k] \in es THEN kept[k - 1]
            ELSE Append(kept[k - 1], s[k])
    IN  kept[Len(s)]
=============================================================================

-------------------------------- MODULE Lists --------------------------------
(***************************************************************************)
(* What the code's lists are filtered by (Array.filter): of a sequence,    *)
(* what stands at some of its places, and what belongs to a set.           *)
(***************************************************************************)
EXTENDS Naturals, Sequences

Picked(s, places) ==
    LET upTo[n \in 0..Len(s)] ==
            IF n = 0 THEN <<>>
            ELSE IF n \in places THEN Append(upTo[n - 1], s[n])
            ELSE upTo[n - 1]
    IN  upTo[Len(s)]

Filter(s, kept) == Picked(s, {i \in DOMAIN s : s[i] \in kept})
==============================================================================

----------------------------- MODULE Selections -----------------------------
(***************************************************************************)
(* What the list comprehensions and filters of the program leave of a list:*)
(* the elements at some of its places, in their order.  (SelectSeq, which  *)
(* takes an operator, is beyond the provers.)                              *)
(***************************************************************************)
EXTENDS Integers, Sequences

Kept(list, places) ==
  LET upTo[n \in 0..Len(list)] ==
        IF n = 0 THEN <<>>
        ELSE IF n \in places THEN Append(upTo[n - 1], list[n]) ELSE upTo[n - 1]
  IN  upTo[Len(list)]
=============================================================================

------------------------------- MODULE Lists -------------------------------
(***************************************************************************)
(* What the modules say of lists and the community modules do not.         *)
(***************************************************************************)
EXTENDS Naturals, Sequences

(* The elements of a list that are in S, in their order: what the loops    *)
(* that split a linked list in two leave in one of its parts.              *)
Among(list, S) ==
  LET upTo[i \in 0..Len(list)] ==
        IF i = 0 THEN <<>>
        ELSE IF list[i] \in S THEN Append(upTo[i - 1], list[i])
        ELSE upTo[i - 1]
  IN  upTo[Len(list)]

(* What a loop adds up. *)
Total(numbers) ==
  LET upTo[n \in 0..Len(numbers)] == IF n = 0 THEN 0 ELSE upTo[n - 1] + numbers[n]
  IN  upTo[Len(numbers)]

=============================================================================

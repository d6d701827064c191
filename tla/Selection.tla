------------------------------- MODULE Selection -------------------------------
(***************************************************************************)
(* The elements of a sequence that belong to a set, in their order: what a *)
(* loop that copies or erases some elements of a container leaves.  It is  *)
(* SelectSeq of the standard modules with a set for a test, defined by a   *)
(* recursive function so that what it selects can be proved.               *)
(***************************************************************************)
EXTENDS Integers, Sequences

Selected(s, S) ==
    LET prefix[i \in 0..Len(s)] ==
            IF i = 0 THEN <<>>
            ELSE IF s[i] \in S THEN Append(prefix[i - 1], s[i]) ELSE prefix[i - 1]
    IN  prefix[Len(s)]

=============================================================================

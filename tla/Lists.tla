--------------------------------- MODULE Lists ---------------------------------
(***************************************************************************)
(* Scans over a sequence, written as functions of how far they came: what  *)
(* such a function computes can be proved by induction over that number.   *)
(***************************************************************************)
EXTENDS Naturals, Sequences

(* The elements of a sequence that are among some, in their order. *)
Kept(seq, some) ==
    LET kept[i \in 0..Len(seq)] ==
            IF i = 0 THEN <<>>
            ELSE IF seq[i] \in some THEN Append(kept[i - 1], seq[i])
            ELSE kept[i - 1]
    IN kept[Len(seq)]

(* The pieces between the elements that equal a mark. *)
Split(seq, mark) ==
    LET pieces[i \in 0..Len(seq)] ==
            IF i = 0 THEN <<<<>>>>
            ELSE LET before == pieces[i - 1]
                 IN IF seq[i] = mark THEN Append(before, <<>>)
                    ELSE [before EXCEPT ![Len(before)] = Append(@, seq[i])]
    IN pieces[Len(seq)]

(* The number that digits between 48 and 57 spell. *)
Spelled(digits) ==
    LET value[i \in 0..Len(digits)] ==
            IF i = 0 THEN 0 ELSE value[i - 1] * 10 + (digits[i] - 48)
    IN value[Len(digits)]
================================================================================

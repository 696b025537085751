------------------------------ MODULE Refusals ------------------------------
(* The answer of an algorithm that refuses its input, and how it is told from *)
(* the others: the answers are records, none of which has this one field only. *)
LOCAL INSTANCE Naturals

Refused(why) == [refused |-> why]
IsRefused(a) == DOMAIN a = {"refused"}
\* A list read entry by entry is refused for its first entry that is.
FirstRefusedOr(read, answer) ==
  LET bad == {i \in DOMAIN read : IsRefused(read[i])}
  IN IF bad = {} THEN answer ELSE read[CHOOSE i \in bad : \A j \in bad : i <= j]
=============================================================================

------------------------------ MODULE FileText ------------------------------
(* What a save is promised of the serializer: the text of the list reaches   *)
(* the file in one write, from its beginning and as far as there is room, or *)
(* nothing of it does.                                                       *)
EXTENDS Naturals

CONSTANT Whole    \* the pieces the text has

VARIABLES
    text,    \* the pieces of the list's text, known with the list
    file,    \* how many of them are in the file
    outcome  \* "pending", "saved" or "failed"

Init == text \in Whole /\ file = 0 /\ outcome = "pending"

Write ==
    /\ outcome = "pending"
    /\ \E n \in 0 .. text :
           file' = n /\ outcome' = IF n = text THEN "saved" ELSE "failed"
    /\ UNCHANGED text

GiveUp ==
    /\ outcome = "pending"
    /\ outcome' = "failed"
    /\ UNCHANGED <<text, file>>

Spec == Init /\ [][Write \/ GiveUp]_<<text, file, outcome>>
=============================================================================

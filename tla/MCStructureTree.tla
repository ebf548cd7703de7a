--------------------------- MODULE MCStructureTree ---------------------------
(* A structure `r` with a number, an array of numbers that has a component, *)
(* and an array of structures of type `t`, one of them not decoded; the     *)
(* same server after `r` became an array of numbers; and one on which a     *)
(* component of `r` leads back to it.                                       *)
EXTENDS StructureTree, TLC

CONSTANTS r, num, arr, recs, t, inner

MCNode == {r, num, arr, recs, t, inner}

Plain == [value |-> "plain", elements |-> << >>, components |-> << >>]

Tree == (r :> [value |-> "structure", elements |-> << >>, components |-> <<num, arr, recs>>])
     @@ (num :> Plain)
     @@ (arr :> [Plain EXCEPT !.elements = <<NoType, NoType>>, !.components = <<num>>])
     @@ (recs :> [value |-> "structure", elements |-> <<t, NoType>>, components |-> <<inner>>])
     @@ (t :> [value |-> "unreadable", elements |-> << >>, components |-> <<num, inner>>])
     @@ (inner :> [value |-> "unreadable", elements |-> << >>, components |-> <<arr>>])

\* `r` holds two numbers, and the records, now without elements, are found below
\* `num`: together the two servers lead in a circle, none of them does alone.
Retyped == [Tree EXCEPT ![r] = [Plain EXCEPT !.elements = <<NoType, NoType>>,
                                             !.components = <<num, arr>>],
                        ![num].components = <<recs>>,
                        ![recs].elements = << >>, ![recs].components = << >>]

\* A field of the records leads back up.
Cyclic == [Tree EXCEPT ![inner].components = <<recs>>, ![recs].elements = << >>,
                       ![r].components = <<recs, num>>]

MCServers == {Tree, Retyped, Cyclic}
MCRoots == {r, recs}
=============================================================================

------------------------------- MODULE Trail -------------------------------
(***************************************************************************)
(* What the history of visited nodes promises an operator: `path` is a     *)
(* bounded back-trail that starts where the session entered the server;    *)
(* going back uncovers the previous entry and never leaves the first one.  *)
(* A visit that finds the trail full is not recorded, and the listing of a *)
(* childless node returns to `base` without recording anything.            *)
(***************************************************************************)
EXTENDS Naturals, Sequences

CONSTANTS
    Place,       \* the places that can be visited
    Nowhere,     \* where a session is before it enters
    Limit        \* the longest trail kept

VARIABLES here, path, base

vars == <<here, path, base>>

Init == here = Nowhere /\ path = << >> /\ base \in Place

\* The connection is up, its root is still being looked for.
Arrive ==
    /\ path = << >>
    /\ here' = base
    /\ UNCHANGED <<path, base>>

Enter(p) ==
    /\ path = << >>
    /\ base' = p
    /\ here' = p
    /\ path' = <<p>>

Visit(p) ==
    /\ path # << >>
    /\ here' = p
    /\ path' = IF Len(path) < Limit THEN Append(path, p) ELSE path
    /\ UNCHANGED base

Back ==
    /\ Len(path) > 1
    /\ path' = SubSeq(path, 1, Len(path) - 1)
    /\ here' = path[Len(path) - 1]
    /\ UNCHANGED base

\* The trail keeps what was walked, not where the operator now is.
ReturnToBase ==
    /\ path # << >>
    /\ here' = base
    /\ UNCHANGED <<path, base>>

ChangeBase(p) ==
    /\ base' = p
    /\ UNCHANGED <<here, path>>

Next ==
    \/ \E p \in Place : Visit(p)
    \/ \E p \in Place \cup {Nowhere} : Enter(p) \/ ChangeBase(p)
    \/ Arrive \/ Back \/ ReturnToBase

Spec == Init /\ [][Next]_vars
=============================================================================

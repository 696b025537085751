------------------------------ MODULE MCBringUp ------------------------------
(* A small instance of BringUp: a `web` that needs a healthy `db` and a      *)
(* `job` that has run to its end, and would like a `seed` to have run.       *)
EXTENDS BringUp

CONSTANTS seed, job, db, web, front, back

OrderOfAll == <<seed, job, db, web>>
Needs      == [s \in Services |-> IF s = web THEN {seed, job, db} ELSE {}]
NeedsWell  == [s \in Services |-> IF s = web THEN {db} ELSE {}]
NeedsEnded == [s \in Services |-> IF s = web THEN {job} ELSE {}]
MakeNets   == <<front, back>>
Joins      == [s \in Services |-> IF s = web THEN {front, back} ELSE {back}]

\* Detached, of everything; and in the foreground, `up web`.
InBack  == [detach |-> TRUE, named |-> {}, force |-> FALSE]
InFront == [detach |-> FALSE, named |-> {web}, force |-> FALSE]
AllAsks == {InBack, InFront}

\* What may be there before: a network or none, containers that run as the file
\* describes them or otherwise.
Some  == {{front}}
None  == {{}}
UpNow == [by |-> "before", runs |-> TRUE, fits |-> TRUE]
UpOld == [by |-> "before", runs |-> TRUE, fits |-> FALSE]
Left  == [s \in Services |-> IF s \in OneShot THEN {} ELSE {UpNow, UpOld}]
=============================================================================

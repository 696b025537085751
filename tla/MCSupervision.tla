--------------------------- MODULE MCSupervision ---------------------------
(* A small instance of RestartSupervision.                                 *)
EXTENDS RestartSupervision

CONSTANTS db, job

MCPolicy ==
  [s \in Services |-> IF s = db THEN [mode |-> "always", max |-> 0]
                                ELSE [mode |-> "on-failure", max |-> 1]]
MCBackoff == <<0, 2>>
=============================================================================

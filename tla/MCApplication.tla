--------------------------- MODULE MCApplication ----------------------------
(* The application with a slow and a fast task. *)
EXTENDS Application

SlowAndFast == [t \in Tasks |-> IF t = 1 THEN 3 ELSE 1]
=============================================================================

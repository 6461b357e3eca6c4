------------------------------- MODULE MCDatabase -------------------------------
(* A small instance of Database: one migration, the creation of an         *)
(* opportunity with its amounts, two numbers of an id sequence, one update *)
(* and one reader of the opportunity.                                      *)
EXTENDS Database

CONSTANTS m1, create, n1, n2, update, reader

MCWriters == {m1, create, n1, n2}
MCSingles == {update}
MCReaders == {reader}
MCNumbered == {n1, n2}
MCMigrations == <<m1>>
MCStatements == [w \in MCWriters |-> IF w \in MCNumbered THEN 1 ELSE 2]
MCSubject == [r \in MCReaders |-> create]
================================================================================

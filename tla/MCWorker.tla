------------------------------ MODULE MCWorker ------------------------------
(***************************************************************************)
(* An instance of Worker for TLC: two ids that the database keeps, and one *)
(* that it gives back as another.                                          *)
(***************************************************************************)
EXTENDS Worker

MCIds    == {"7", "8", "007"}
MCStored == [i \in MCIds |-> IF i = "007" THEN "7" ELSE i]

\* Ids that the database gives back as they are.
MCPlainIds    == {"7", "8"}
MCPlainStored == [i \in MCPlainIds |-> i]
=============================================================================

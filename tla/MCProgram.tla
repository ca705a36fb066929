------------------------------- MODULE MCProgram -------------------------------
(***************************************************************************)
(* An instance of Program for TLC: files with two identities that are kept *)
(* and one that comes back as another, and a file without a broker.        *)
(***************************************************************************)
EXTENDS Program

MCFile(identity, broker) ==
    [identity |-> identity, broker |-> broker, portwatcher |-> "portwatcher"]

MCFiles == {MCFile("7", "broker"), MCFile("b7", "broker"), MCFile("b7", Null),
            MCFile("007", "broker")}
MCInRow == [identity \in {"7", "007", "b7"} |->
               IF identity = "007" THEN "7" ELSE identity]
=============================================================================

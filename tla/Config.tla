-------------------------------- MODULE Config --------------------------------
(***************************************************************************)
(* Where the program gets its configuration: get_config of config.c takes  *)
(* the row of its database if there is one, and otherwise reads            *)
(* /etc/seabeagle.conf and writes the row for the starts to come.          *)
(***************************************************************************)
CONSTANTS
    Files,      \* what the file may say: for each key, its last value or Null
    InRow,      \* the identity the database gives back for one written to it
    Null        \* no value

\* The columns are declared "string", which gives them numeric affinity: an
\* identity that reads as a number comes back in that number's usual form.
ASSUME ConfigAssumption ==
    \A f \in Files :
        /\ DOMAIN f = {"identity", "broker", "portwatcher"}
        /\ f.identity # Null =>
              /\ f.identity \in DOMAIN InRow
              /\ InRow[f.identity] \in DOMAIN InRow
              /\ InRow[InRow[f.identity]] = InRow[f.identity]

VARIABLES
    file,    \* /etc/seabeagle.conf
    row,     \* the row of the config table, Null without one
    config,  \* config_t, Null when get_config has left it empty
    up       \* the process has come through get_config and has not ended

configVars == <<file, row, config, up>>

ConfigInit ==
    /\ file \in Files
    /\ row = Null
    /\ config = Null
    /\ up = FALSE

\* What parse_config asks of the file.
Complete(f) == \A key \in DOMAIN f : f[key] # Null

Written(f) == [f EXCEPT !.identity = InRow[@]]

\* The database cannot be opened or read.  get_config says so, and main does
\* not listen.
OpenFails ==
    /\ ~up
    /\ up' = TRUE
    /\ config' = Null
    /\ UNCHANGED <<file, row>>

UseRow ==
    /\ ~up
    /\ row # Null
    /\ up' = TRUE
    /\ config' = row
    /\ UNCHANGED <<file, row>>

\* A slip: the file is read whether there is a row or not.
UseFileFirst ==
    /\ ~up
    /\ Complete(file)
    /\ up' = TRUE
    /\ config' = file
    /\ row' \in {row, Written(file)}
    /\ row # Null => row' = row
    /\ UNCHANGED file

\* Without a row the file is read and put into the database, or not: a failure
\* of the insert is reported to main like that of the open.  Without a file, or
\* with one that is not complete, the program exits.
UseFile ==
    /\ ~up
    /\ row = Null
    /\ Complete(file)
    /\ up' = TRUE
    /\ config' = file
    /\ row' \in {row, Written(file)}
    /\ UNCHANGED file

GetConfig == OpenFails \/ UseRow \/ UseFile

\* The process ends, for whatever reason, and may be started again.
End ==
    /\ up
    /\ up' = FALSE
    /\ config' = Null
    /\ UNCHANGED <<file, row>>

\* Somebody edits the file.
EditFile ==
    /\ file' \in Files \ {file}
    /\ UNCHANGED <<row, config, up>>
=============================================================================

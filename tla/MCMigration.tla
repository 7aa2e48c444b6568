---------------------------- MODULE MCMigration ----------------------------
(* Command lines for TLC.                                                  *)
EXTENDS Migration

\* ./mysql2ydb with no flag.
Plain == [NoConfig EXCEPT !.tables = Tables]

\* Command lines with every flag of Config, alone or together.
AllModes ==
    {Plain,
     [Plain EXCEPT !.schemaOnly = TRUE],
     [Plain EXCEPT !.parallelTables = 2],
     [Plain EXCEPT !.parallelTables = 2, !.force = TRUE],
     [Plain EXCEPT !.dataOnly = TRUE],
     [Plain EXCEPT !.dataOnly = TRUE, !.forceRecreate = TRUE],
     [Plain EXCEPT !.tables = {1}],
     [Plain EXCEPT !.forceRecreate = TRUE],
     [Plain EXCEPT !.forceRecreate = TRUE, !.tables = {1}]}

RecreateModes == {Plain, [Plain EXCEPT !.forceRecreate = TRUE]}
=============================================================================

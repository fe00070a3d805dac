----------------------------- MODULE MCTableData ------------------------------
(* The scopes of the runs of TableData.                                      *)
EXTENDS TableData, TLC

\* Rows against what gives them other rowids, against a script's transaction and
\* against exports; columns against each other.
RowsSchemaAndExports ==
    {{"insert", "show", "vacuum"}, {"insert", "show", "modify"}, {"insert", "show", "script"},
     {"insert", "modify", "script"}, {"insert", "show", "drop"}, {"insert", "show", "export"},
     {"insert", "export"}, {"modify", "schema"}, {"modify", "drop"}}

Changes == {{"modify"}}

\* Exports need a third row, that comes while they run.
RowsIn == [s \in SUBSET {"insert", "show", "modify", "vacuum", "script", "export", "schema", "drop"} |->
               IF s = {"insert", "export"} THEN 3 ELSE 2]

Symmetry == Permutations(Request) \cup Permutations(Column)
=============================================================================

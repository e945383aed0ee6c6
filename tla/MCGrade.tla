--------------------------------- MODULE MCGrade ------------------------------
(* grade-lab1's first tests, and another test with a run of its own. *)
EXTENDS GradeTests

MCTESTS == <<"jos", "printf", "part", "user">>
MCparent == [t \in Tests |-> IF t = "printf" THEN "jos" ELSE "none"]
MCpoints == [t \in Tests |-> CASE t = "jos" -> 0 [] t = "printf" -> 20 [] t = "user" -> 5]
MCWants == [t \in Tests |-> IF t = "printf" THEN {"6828"} ELSE {}]
MCScripts == {<<>>, <<"entering", "6828">>, <<"leaving", "stop here", "leaving">>}
MCSelections == {{}, {"printf"}, {"printf", "user"}}

ASSUME GroupsAssumption == InGroups
===============================================================================

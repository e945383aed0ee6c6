-------------------------------- MODULE MCMonitor -----------------------------
(* Two letters that name three commands, a space, a rubout key and DEL, which is
   stored if the line is empty, both ends of a line, and a control character that
   is ignored. *)
EXTENDS Monitor

MCPrompt == <<62>>
MCInputs == {97, 98, SPACE, BS, DEL, NL, CR, 3}
(* Two stale pointers, one of them into the line. *)
MCLeftovers == {-2, 0}
MCWHITESPACE == {TAB, CR, NL, SPACE}
MCcommands == [f \in {"mon_help", "mon_kerninfo", "mon_backtrace"} |->
                CASE f = "mon_help" -> <<97>> [] f = "mon_kerninfo" -> <<98>> [] f = "mon_backtrace" -> <<97, 97>>]
===============================================================================

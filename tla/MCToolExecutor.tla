--------------------------- MODULE MCToolExecutor ---------------------------
(***************************************************************************)
(* Small instances of ToolExecutor: a file read, a Bash command that must  *)
(* run alone, a Sleep that a new message may cancel, a tool that does not  *)
(* exist.                                                                  *)
(***************************************************************************)
EXTENDS ToolExecutor

Read == [known |-> TRUE, safe |-> TRUE, bash |-> FALSE, cancel |-> FALSE]
Bash == [known |-> TRUE, safe |-> FALSE, bash |-> TRUE, cancel |-> FALSE]
Sleep == [known |-> TRUE, safe |-> TRUE, bash |-> FALSE, cancel |-> TRUE]
Missing == [known |-> FALSE, safe |-> TRUE, bash |-> FALSE, cancel |-> FALSE]

MCKinds == {Read, Bash, Sleep, Missing}
=============================================================================

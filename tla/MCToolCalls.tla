------------------------------ MODULE MCToolCalls ------------------------------
(* The tool calls of a turn for TLC: shell commands, which run in parallel *)
(* and have one key, and patches, which run alone and have one per file.   *)
EXTENDS ToolCalls, TLC

CONSTANTS command, file1, file2

Shell(asks) ==
    [exclusive |-> FALSE, asks |-> asks, patch |-> FALSE, named |-> TRUE, keys |-> {command}]
Patch(asks, files) ==
    [exclusive |-> TRUE, asks |-> asks, patch |-> TRUE, named |-> TRUE, keys |-> files]
Nameless == [Shell(FALSE) EXCEPT !.named = FALSE]

MCTools == {Shell(TRUE), Shell(FALSE), Patch(TRUE, {file1}), Patch(FALSE, {file1}),
            Patch(TRUE, {file1, file2}), Nameless}

(* For the progress of the calls, one kind of either. *)
MCFewTools == {Shell(TRUE), Patch(FALSE, {file1})}

Symmetry == Permutations(Calls)
=============================================================================

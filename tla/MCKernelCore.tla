--------------------------- MODULE MCKernelCore ---------------------------
(***************************************************************************)
(* Messages for the model checking of KernelCore.                          *)
(***************************************************************************)
EXTENDS KernelCoreInvariant, TLC

Exec(silent, store, stop) ==
    [kind |-> "execute_request", channel |-> "shell",
     silent |-> silent, store |-> store, stop |-> stop]
Other(kind, channel) ==
    [kind |-> kind, channel |-> channel, silent |-> FALSE, store |-> FALSE, stop |-> FALSE]

Executions == {Exec(FALSE, TRUE, TRUE), Exec(FALSE, FALSE, FALSE),
               Exec(TRUE, TRUE, TRUE), Exec(FALSE, TRUE, FALSE)}

\* Every kind of request, on the channel that clients use for it.
EveryKind == Executions \cup
    {Other("complete_request", "shell"), Other("history_request", "shell"),
     Other("history_request", "control"), Other("comm_msg", "shell"),
     Other("unknown_request", "shell"), Other("debug_request", "control"),
     Other("interrupt_request", "control"), Other("shutdown_request", "control")}

\* What can wait in the shell queue behind a failing execution, a message whose
\* type cannot be turned into the type of a reply included.
Garbled == {Exec(FALSE, TRUE, TRUE), Exec(FALSE, FALSE, FALSE), Exec(TRUE, TRUE, TRUE),
            Other("complete_request", "shell"), Other("garbled", "shell")}

\* Without a debugger; the message types end in "_request" or are comm messages.
Answerable == {Exec(FALSE, TRUE, TRUE), Other("comm_msg", "shell"),
               Other("debug_request", "control"), Other("shutdown_request", "control")}

Symmetry == Permutations(Requests)
===========================================================================

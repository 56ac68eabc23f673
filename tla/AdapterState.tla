---------------------------- MODULE AdapterState ----------------------------
(***************************************************************************)
(* What a run of either provider adapter keeps (the process structs of     *)
(* crates/bastet-adapter-codex/src/stdio.rs and of                         *)
(* crates/bastet-adapter-agy/src/process.rs and the loop of                *)
(* crates/bastet-daemon/src/provider_executor.rs that drives them).        *)
(***************************************************************************)
CONSTANT QueueItems   \* OUTPUT_QUEUE_ITEMS, of the output queue

VARIABLES
    pc,           \* where the run thread is
    cancelled,    \* the run's CancellationToken
    child,        \* OwnedAdapterChild: none, live, clean, lost
    overflowed,   \* the output queue has failed
    eof,          \* the reader has returned
    held,         \* pending_terminal
    text,         \* the final output: none, some, overflowed
    outcome,      \* what run_codex_with_launcher or run_agy_with_launcher has returned
    \* history
    log,          \* what the child sent, in order
    why           \* what ended the run when it was not the child's own word
=============================================================================

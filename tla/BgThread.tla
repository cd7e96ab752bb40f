------------------------------ MODULE BgThread -----------------------------
(***************************************************************************)
(* What BgThread promises to whoever starts one, for MainWindow to rely    *)
(* on: a thread that has been cancelled stays so and returns from run(),   *)
(* a thread that has returned is deleted and never runs again.             *)
(***************************************************************************)
VARIABLES
    state,          \* "running", "done" (run() has returned), "deleted"
    mShouldCancel

vars == <<state, mShouldCancel>>

Init == state = "running" /\ mShouldCancel = FALSE

\* cancel(), by another thread or from execute() itself.
cancel ==
    /\ state = "running"
    /\ mShouldCancel' = TRUE
    /\ UNCHANGED state

\* execute() returns or throws: run() emits threadDone and returns.
run ==
    /\ state = "running" /\ state' = "done"
    /\ UNCHANGED mShouldCancel

\* The pool deletes what it has run.
delete ==
    /\ state = "done" /\ state' = "deleted"
    /\ UNCHANGED mShouldCancel

\* The whole process goes down.
terminate ==
    /\ state # "deleted" /\ state' = "deleted"
    /\ UNCHANGED mShouldCancel

Next == cancel \/ run \/ delete \/ terminate

Spec == /\ Init /\ [][Next]_vars
        /\ WF_vars(mShouldCancel /\ run)
        /\ WF_vars(delete)
============================================================================

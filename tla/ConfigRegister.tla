--------------------------- MODULE ConfigRegister ---------------------------
(***************************************************************************)
(* What the service expects of its configuration file: a register that is  *)
(* read when the service starts and written as a whole.  A write that is   *)
(* interrupted or fails has happened or has not.                           *)
(***************************************************************************)
CONSTANTS
    Configurations, \* what a configuration file may hold
    Default,        \* the configuration of a service that has no file
    Down,           \* no service process, so nothing in memory
    MayForget       \* the exception: a write may lose the old content first

VARIABLES
    mem,            \* the configuration the service works with
    stored,         \* what a service that starts now would read
    saving          \* a write is under way

Init ==
    /\ mem = Down
    /\ stored \in Configurations
    /\ saving = FALSE

Load ==
    /\ mem = Down
    /\ mem' = stored
    /\ UNCHANGED <<stored, saving>>

Change ==
    /\ mem # Down /\ ~saving
    /\ mem' \in Configurations
    /\ UNCHANGED <<stored, saving>>

Begin ==
    /\ mem # Down /\ ~saving
    /\ saving' = TRUE
    /\ UNCHANGED <<mem, stored>>

\* The write takes effect, with what is in memory.
Commit ==
    /\ saving
    /\ stored' = mem
    /\ saving' = FALSE
    /\ UNCHANGED mem

Fail ==
    /\ saving
    /\ saving' = FALSE
    /\ UNCHANGED <<mem, stored>>

Forget ==
    /\ MayForget /\ saving
    /\ stored' = Default
    /\ UNCHANGED <<mem, saving>>

\* The process ends, or the machine does.
Stop ==
    /\ mem' = Down
    /\ saving' = FALSE
    /\ UNCHANGED stored

Next == Load \/ Change \/ Begin \/ Commit \/ Fail \/ Forget \/ Stop

Spec == Init /\ [][Next]_<<mem, stored, saving>>
=============================================================================

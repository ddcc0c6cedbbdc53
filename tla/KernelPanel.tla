----------------------------- MODULE KernelPanel ----------------------------
(***************************************************************************)
(* The panel that shows a kernel update (src/hooks/useKernelUpdate.ts).    *)
(* In service mode the update is a task of the service and the panel polls *)
(* its phase; otherwise it is a call to update_kernel of the GUI process   *)
(* (src-tauri/src/lib.rs), which sends its phases as events.  How the      *)
(* service runs a task is KernelUpdate's subject: here a task runs, may    *)
(* be cancelled too late, and ends.                                        *)
(***************************************************************************)
EXTENDS Naturals, Sequences

CONSTANTS
    Clicks,         \* bound on the calls of switchKernel
    Tasks,          \* task ids of the service
    NoTask,
    PanelFaults     \* subset of {"lost", "crash", "refuse", "restore"}

ASSUME PanelAssumption == NoTask \notin Tasks /\ Clicks \in Nat

VARIABLES
    mode,           \* serviceMode
    panel,          \* kernelUpdate: phase and task_id
    call,           \* the calls of switchKernel
    cancelling,     \* cancelKernelUpdate
    poll,           \* the effect that polls, and the answer it waits for
    task,           \* the service's tasks
    thread,         \* tasks whose thread runs
    lock,           \* update_lock of the service
    local,          \* update_kernel of the GUI process
    flag,           \* CANCEL_UPDATE of the GUI process
    mail,           \* its events and answers on the way to the window
    finished,       \* history: the tasks that were completed; NoTask is local
    crashed         \* history: the service has lost its tasks

panelVars == <<mode, panel, call, cancelling, poll, task, thread, lock,
               local, flag, mail, finished, crashed>>
server == <<task, thread, lock, finished, crashed>>
machine == <<local, flag>>

KERNEL_TERMINAL_PHASES == {"completed", "failed", "cancelled"}
WorkPhases == {"checking", "queued", "working"}
PanelStates == [phase : {"none"} \cup WorkPhases \cup KERNEL_TERMINAL_PHASES,
          task : Tasks \cup {NoTask}]
Answers == {"none", "error"} \cup WorkPhases \cup KERNEL_TERMINAL_PHASES
NoPoll == [pc |-> "off", ans |-> "none"]
NextPoll == [pc |-> "ask", ans |-> "none"]

Updating == panel.phase \notin {"none"} \cup KERNEL_TERMINAL_PHASES

\* The panel is set.  The effect that polls is restarted when the task or the
\* phase has changed, and what the old one waits for is dropped; it rests
\* when there is no task or the phase is final.
Put(phase, t) ==
    /\ panel' = [phase |-> phase, task |-> t]
    /\ poll' = IF t = NoTask \/ phase \in KERNEL_TERMINAL_PHASES THEN NoPoll ELSE NextPoll

(***************************************************************************)
(* switchKernel.                                                           *)
(***************************************************************************)

\* A click, and the question whether to go on.
Switch(c) ==
    /\ call[c].pc = "idle" /\ ~Updating
    /\ call' = [call EXCEPT ![c].pc = "confirm"]
    /\ UNCHANGED <<mode, panel, cancelling, poll, server, machine, mail>>

Confirm(c) ==
    /\ call[c].pc = "confirm"
    /\ \/ call' = [call EXCEPT ![c].pc = "sent"] /\ Put("checking", NoTask)
       \/ call' = [call EXCEPT ![c].pc = "idle"] /\ UNCHANGED <<panel, poll>>
    /\ UNCHANGED <<mode, cancelling, server, machine, mail>>

\* The service takes the request: a new task, unless update_lock is set.
UpdateRequest(c) ==
    /\ mode /\ call[c].pc = "sent" /\ call[c].ans = "none"
    /\ \/ /\ ~lock
          /\ \E t \in Tasks :
               /\ task[t] = "none"
               /\ task' = [task EXCEPT ![t] = "queued"]
               /\ thread' = thread \cup {t}
               /\ call' = [call EXCEPT ![c].ans = "queued", ![c].task = t]
          /\ lock' = TRUE
       \/ /\ lock \/ "refuse" \in PanelFaults
          /\ call' = [call EXCEPT ![c].ans = "error"]
          /\ UNCHANGED <<task, thread, lock>>
    /\ UNCHANGED <<mode, panel, cancelling, poll, machine, mail, finished, crashed>>

\* Mutant: the message of the error is taken for the phase.
UpdateAnswerRaw(c) ==
    /\ call[c].pc = "sent" /\ call[c].ans # "none"
    /\ call' = [call EXCEPT ![c] = [pc |-> "idle", ans |-> "none", task |-> NoTask]]
    /\ Put(call[c].ans, call[c].task)
    /\ UNCHANGED <<mode, cancelling, server, machine, mail>>

\* Its answer.  An error is shown with the task the panel has by then.
UpdateAnswer(c) ==
    /\ call[c].pc = "sent" /\ call[c].ans # "none"
    /\ call' = [call EXCEPT ![c] = [pc |-> "idle", ans |-> "none", task |-> NoTask]]
    /\ IF call[c].ans = "error" THEN Put("failed", panel.task)
                                ELSE Put(call[c].ans, call[c].task)
    /\ UNCHANGED <<mode, cancelling, server, machine, mail>>

(***************************************************************************)
(* Polling.                                                                *)
(***************************************************************************)

\* get_task_status.  A task the service does not know, or a request that
\* does not get through, is an error.
PollRequest ==
    /\ poll.pc = "ask"
    /\ \/ poll' = [pc |-> "got", ans |-> IF task[panel.task] = "lost" THEN "error"
                                         ELSE task[panel.task]]
       \/ "lost" \in PanelFaults /\ poll' = [pc |-> "got", ans |-> "error"]
    /\ UNCHANGED <<mode, panel, call, cancelling, server, machine, mail>>

\* Mutant: whatever is final counts as completed.
ShownCoarse(ans) == IF ans \in KERNEL_TERMINAL_PHASES THEN "completed" ELSE ans

\* The phase shown for the phase of a task (its status is the same word):
\* one that is final is failed, cancelled, or else completed.
ShownPhase(ans) ==
    IF ans \notin KERNEL_TERMINAL_PHASES THEN ans
    ELSE IF ans \in {"failed", "cancelled"} THEN ans ELSE "completed"

\* Mutant: an error ends the polling.
PollAnswerGivesUp ==
    /\ poll.pc = "got"
    /\ IF poll.ans = "error" THEN poll' = NoPoll /\ UNCHANGED panel
       ELSE IF ShownPhase(poll.ans) = panel.phase THEN poll' = NextPoll /\ UNCHANGED panel
       ELSE Put(ShownPhase(poll.ans), panel.task)
    /\ UNCHANGED <<mode, call, cancelling, server, machine, mail>>

\* An answer is shown; an error is not.  Either way the next request follows
\* unless the phase is final.
PollAnswer ==
    /\ poll.pc = "got"
    /\ IF poll.ans = "error" \/ ShownPhase(poll.ans) = panel.phase
         THEN poll' = NextPoll /\ UNCHANGED panel
         ELSE Put(ShownPhase(poll.ans), panel.task)
    /\ UNCHANGED <<mode, call, cancelling, server, machine, mail>>

(***************************************************************************)
(* cancelKernelUpdate: first the service, then the GUI process, and the    *)
(* panel says cancelled whatever they have said.                           *)
(***************************************************************************)

cancelKernelUpdate ==
    /\ cancelling = "idle" /\ Updating
    /\ cancelling' = IF mode THEN "service" ELSE "local"
    /\ UNCHANGED <<mode, panel, call, poll, server, machine, mail>>

\* The service clears its update_lock and marks every unfinished task; the
\* thread looks at the flag only while it downloads.
CancelService ==
    /\ cancelling = "service" /\ cancelling' = "local"
    /\ \/ /\ lock' = FALSE
          /\ task' = [t \in Tasks |-> IF task[t] \in WorkPhases THEN "cancelled" ELSE task[t]]
       \/ "lost" \in PanelFaults /\ UNCHANGED <<lock, task>>
    /\ UNCHANGED <<mode, panel, call, poll, thread, finished, crashed, machine, mail>>

CancelLocal ==
    /\ cancelling = "local" /\ cancelling' = "idle"
    /\ flag' = TRUE
    /\ Put("cancelled", NoTask)
    /\ UNCHANGED <<mode, call, server, local, mail>>

(***************************************************************************)
(* The service's tasks.                                                    *)
(***************************************************************************)

ThreadWorks(t) ==
    /\ t \in thread /\ task[t] # "working"
    /\ task' = [task EXCEPT ![t] = "working"]
    /\ UNCHANGED <<thread, lock, finished, crashed>>

ThreadEnds(t) ==
    /\ t \in thread
    /\ thread' = thread \ {t}
    /\ lock' = FALSE
    /\ \E phase \in KERNEL_TERMINAL_PHASES :
         /\ task' = [task EXCEPT ![t] = phase]
         /\ finished' = IF phase = "completed" THEN finished \cup {t} ELSE finished
    /\ UNCHANGED crashed

\* The service's tasks are in its memory only.
ServiceRestarts ==
    /\ "crash" \in PanelFaults /\ ~crashed
    /\ thread' = {} /\ lock' = FALSE /\ crashed' = TRUE
    /\ task' = [t \in Tasks |-> IF task[t] = "none" THEN "none" ELSE "lost"]
    /\ UNCHANGED finished

ServerStep ==
    /\ (\E t \in Tasks : ThreadWorks(t) \/ ThreadEnds(t)) \/ ServiceRestarts
    /\ UNCHANGED <<mode, panel, call, cancelling, poll, machine, mail>>

(***************************************************************************)
(* update_kernel of the GUI process.  Its events and its answer reach the  *)
(* window in the order in which they were sent.                            *)
(***************************************************************************)

Event(phase) == [phase |-> phase, call |-> 0]
Reply(c, ok) == [phase |-> IF ok THEN "ok" ELSE "error", call |-> c]

\* One update at a time; another call is an error.
LocalCall(c) ==
    /\ ~mode /\ call[c].pc = "sent" /\ call[c].ans = "none"
    /\ call' = [call EXCEPT ![c].ans = "queued"]
    /\ IF local.pc = "off"
         THEN /\ local' = [pc |-> "staging", call |-> c] /\ flag' = FALSE
              /\ mail' = Append(mail, Event("checking"))
         ELSE mail' = Append(mail, Reply(c, FALSE)) /\ UNCHANGED machine
    /\ UNCHANGED <<mode, panel, cancelling, poll, server>>

\* Staging ends: it fails, or it was cancelled, or the networks are stopped.
LocalStaged ==
    /\ local.pc = "staging"
    /\ \/ /\ local' = [local EXCEPT !.pc = "off"]
          /\ \E phase \in {"failed", "cancelled"} :
               /\ phase = "cancelled" => flag
               /\ mail' = mail \o <<Event(phase), Reply(local.call, FALSE)>>
       \/ /\ ~flag
          /\ local' = [local EXCEPT !.pc = "installing"]
          /\ mail' = Append(mail, Event("working"))
    /\ UNCHANGED <<mode, panel, call, cancelling, poll, server, flag>>

\* A core that cannot be killed ends the update without an event.  The
\* kernel is replaced or not, and the networks are started again.  One
\* that does not start is reported as a failure of the update, and the
\* update is completed all the same.
LocalInstalled ==
    /\ local.pc = "installing"
    /\ local' = [local EXCEPT !.pc = "off"]
    /\ \/ /\ \/ mail' = mail \o <<Event("failed"), Reply(local.call, FALSE)>>
             \/ mail' = Append(mail, Reply(local.call, FALSE))
          /\ UNCHANGED finished
       \/ /\ finished' = finished \cup {NoTask}
          /\ \/ mail' = mail \o <<Event("completed"), Reply(local.call, TRUE)>>
             \/ /\ "restore" \in PanelFaults
                /\ mail' = mail \o <<Event("failed"), Event("completed"),
                                     Reply(local.call, TRUE)>>
    /\ UNCHANGED <<mode, panel, call, cancelling, poll, task, thread, lock,
                   flag, crashed>>

\* An event has no task id, so it is shown whatever the panel shows; the
\* answer matters only when it is an error.
Receive ==
    /\ mail # <<>> /\ mail' = Tail(mail)
    /\ LET m == Head(mail) IN
       /\ IF m.phase = "error" THEN Put("failed", panel.task)
          ELSE IF m.phase = "ok" THEN UNCHANGED <<panel, poll>>
          ELSE Put(m.phase, panel.task)
       /\ call' = IF m.call = 0 THEN call
                  ELSE [call EXCEPT ![m.call] = [pc |-> "idle", ans |-> "none", task |-> NoTask]]
    /\ UNCHANGED <<mode, cancelling, server, machine>>

PanelInit ==
    /\ mode \in BOOLEAN
    /\ panel = [phase |-> "none", task |-> NoTask]
    /\ call = [c \in 1..Clicks |-> [pc |-> "idle", ans |-> "none", task |-> NoTask]]
    /\ cancelling = "idle" /\ poll = NoPoll
    /\ task = [t \in Tasks |-> "none"] /\ thread = {} /\ lock = FALSE
    /\ local = [pc |-> "off", call |-> 0] /\ flag = FALSE /\ mail = <<>>
    /\ finished = {} /\ crashed = FALSE

CallStep(c) ==
    \/ Confirm(c) \/ UpdateRequest(c) \/ (UpdateAnswer(c) /\ mode) \/ LocalCall(c)
CancelStep == CancelService \/ CancelLocal
LocalUpdate == LocalStaged \/ LocalInstalled

PanelNext ==
    \/ \E c \in 1..Clicks : Switch(c) \/ CallStep(c)
    \/ PollRequest \/ PollAnswer
    \/ cancelKernelUpdate \/ CancelStep
    \/ ServerStep \/ LocalUpdate \/ Receive

PanelSpec == PanelInit /\ [][PanelNext]_panelVars

\* Requests are answered and timers fire; a thread of the service or of the
\* GUI ends; what does not get through gets through in the end.
PanelFairness ==
    /\ \A c \in 1..Clicks : WF_panelVars(CallStep(c))
    /\ WF_panelVars(PollRequest) /\ WF_panelVars(PollAnswer)
    /\ SF_panelVars(PollRequest /\ poll'.ans # "error")
    /\ WF_panelVars(CancelStep) /\ WF_panelVars(LocalUpdate) /\ WF_panelVars(Receive)
    /\ \A t \in Tasks : WF_panelVars(ThreadEnds(t) /\ ServerStep)

PanelTypeOK ==
    /\ mode \in BOOLEAN /\ lock \in BOOLEAN /\ flag \in BOOLEAN /\ crashed \in BOOLEAN
    /\ panel \in PanelStates
    /\ call \in [1..Clicks -> [pc : {"idle", "confirm", "sent"},
                               ans : {"none", "error", "queued"},
                               task : Tasks \cup {NoTask}]]
    /\ cancelling \in {"idle", "service", "local"}
    /\ poll \in [pc : {"off", "ask", "got"}, ans : Answers]
    /\ task \in [Tasks -> {"none", "lost"} \cup WorkPhases \cup KERNEL_TERMINAL_PHASES]
    /\ thread \subseteq Tasks
    /\ local \in [pc : {"off", "staging", "installing"}, call : 0..Clicks]
    /\ mail \in Seq([phase : {"ok", "error"} \cup WorkPhases \cup KERNEL_TERMINAL_PHASES,
                     call : 0..Clicks])
    /\ finished \subseteq Tasks \cup {NoTask}

\* The panel says completed only of an update that was: the task whose id it
\* holds, or one of the GUI process.
CompletedIsTrue == panel.phase = "completed" => panel.task \in finished

\* An update that is shown as under way is shown as ended some time, however
\* often a poll fails and whenever it is cancelled, unless the service has
\* lost its tasks in a restart.
PanelEnds == Updating ~> (~Updating \/ crashed)
=============================================================================

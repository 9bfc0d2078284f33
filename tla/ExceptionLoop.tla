--------------------------- MODULE ExceptionLoop ---------------------------
(***************************************************************************)
(* The exception loop of MachBug (core/Debugger.Loop.cpp): the thread      *)
(* blocked in Start() receives an exception message, parks inside          *)
(* handleException() until a caller's thread posts a decision, and sends   *)
(* the reply that lets the reporting thread run again.  The stopped state  *)
(* IS the withheld reply.  Pause() goes round the loop with task_suspend,  *)
(* Stop() ends it.  Callers act under mCmdMutex, so each call is one step; *)
(* the loop and the target's threads interleave with them.                 *)
(*                                                                         *)
(* How an exception is classified is left open here -- absorbed silently   *)
(* or reported -- and is the subject of StepOff.  Letting the target go    *)
(* takes calls the kernel may refuse, as it does once the task has died;   *)
(* the loop reports that and goes on.                                      *)
(***************************************************************************)
EXTENDS Integers

CONSTANTS
    Thread,   \* the threads of the target
    NoThread  \* MACH_PORT_NULL

ASSUME NoThreadAssumption == NoThread \notin Thread

VARIABLES
    loop,          \* where the thread in Start() is
    running,       \* mIsRunning
    stopRequested, \* mStopRequested
    stopped,       \* mStopped
    pausedByUser,  \* mPausedByUser
    pending,       \* mPendingCommand
    decision,      \* the decision handleException() woke up with
    seenFirstStop, \* mSeenFirstStop
    current,       \* the thread whose message is being handled
    blocked,       \* the threads waiting for a reply to their exception
    queue,         \* those whose message is still in the port
    suspended,     \* the task's suspend count
    alive,         \* the target process has not ended
    ports,         \* its exceptions are routed to the loop's port
    traps,         \* which breakpoints it carries: set before Stop(), or after
    stopAsked,     \* a caller's Stop() has returned (history)
    refused        \* what the last letting go left in the target (history)

engine == <<loop, running, stopRequested, stopped, pausedByUser, pending,
            decision, seenFirstStop, current>>
target == <<blocked, queue, suspended, alive, ports, traps>>
history == <<stopAsked, refused>>
vars == <<engine, target, history>>

Command  == {"None", "Continue", "StepInto", "Stop"}
Handling == {"handling", "parked", "answered", "replying"}
LoopPc   == {"idle", "claimed", "installing", "top", "receive"} \cup Handling
               \cup {"replied", "leaving", "detaching", "finished", "failed"}
Hold     == {"traps", "ports"}  \* what ties the target to the engine
Era      == {"before", "after"} \* of the first Stop()
Returned == loop \in {"finished", "failed"}

TypeOK ==
    /\ loop \in LoopPc
    /\ running \in BOOLEAN /\ stopRequested \in BOOLEAN /\ stopped \in BOOLEAN
    /\ pausedByUser \in BOOLEAN /\ seenFirstStop \in BOOLEAN
    /\ pending \in Command /\ decision \in Command
    /\ current \in Thread \cup {NoThread}
    /\ blocked \subseteq Thread /\ queue \subseteq blocked
    /\ suspended \in Nat
    /\ alive \in BOOLEAN /\ ports \in BOOLEAN /\ traps \subseteq Era
    /\ stopAsked \in BOOLEAN /\ refused \subseteq Hold

\* Init() has launched a suspended child; Start() has not been called.
Init ==
    /\ loop = "idle" /\ running = FALSE
    /\ stopRequested = FALSE /\ stopped = FALSE /\ pausedByUser = FALSE
    /\ pending = "None" /\ decision = "None" /\ seenFirstStop = FALSE
    /\ current = NoThread /\ blocked = {} /\ queue = {}
    /\ suspended = 0 /\ alive = TRUE /\ ports = FALSE
    /\ traps \in {{}, {"before"}}
    /\ stopAsked = FALSE /\ refused = {}

Goto(from, to) == loop = from /\ loop' = to

-----------------------------------------------------------------------------
(***************************************************************************)
(* Start(): claims mIsRunning, and only then clears the flags of a         *)
(* previous run, without mCmdMutex.                                        *)
(***************************************************************************)
StartClaim ==
    /\ Goto("idle", "claimed")
    /\ running' = TRUE
    /\ UNCHANGED <<stopRequested, stopped, pausedByUser, pending, decision,
                   seenFirstStop, current, target, history>>

StartReset ==
    /\ Goto("claimed", "installing")
    /\ stopRequested' = FALSE
    /\ stopped' = FALSE
    /\ pausedByUser' = FALSE
    /\ seenFirstStop' = FALSE
    /\ UNCHANGED <<running, pending, decision, current, target, history>>

StartInstall ==
    /\ Goto("installing", "top")
    /\ ports' = TRUE
    /\ UNCHANGED <<running, stopRequested, stopped, pausedByUser, pending,
                   decision, seenFirstStop, current, blocked,
                   queue, suspended, alive, traps, history>>

\* ptrace, the port or SIGCONT is refused: Start() returns false.
StartFails ==
    /\ Goto("installing", "failed")
    /\ running' = FALSE
    /\ ports' \in BOOLEAN
    /\ UNCHANGED <<stopRequested, stopped, pausedByUser, pending, decision,
                   seenFirstStop, current, blocked, queue,
                   suspended, alive, traps, history>>

(***************************************************************************)
(* exceptionLoop().                                                        *)
(***************************************************************************)
\* Mutant: the loop does not look at the request before it blocks.
LoopTopIgnoringStop ==
    /\ Goto("top", "receive")
    /\ UNCHANGED <<running, stopRequested, stopped, pausedByUser, pending,
                   decision, seenFirstStop, current, target, history>>

LoopTop ==
    /\ Goto("top", IF stopRequested /\ ~stopped THEN "leaving" ELSE "receive")
    /\ UNCHANGED <<running, stopRequested, stopped, pausedByUser, pending,
                   decision, seenFirstStop, current, target, history>>

\* Mutant: the message is handled and stays in the port.
ReceivePeeking(t) ==
    /\ Goto("receive", "handling")
    /\ t \in queue
    /\ current' = t
    /\ UNCHANGED <<running, stopRequested, stopped, pausedByUser, pending,
                   decision, seenFirstStop, blocked, queue,
                   suspended, alive, ports, traps, history>>

Receive(t) ==
    /\ Goto("receive", "handling")
    /\ t \in queue
    /\ queue' = queue \ {t}
    /\ current' = t
    /\ UNCHANGED <<running, stopRequested, stopped, pausedByUser, pending,
                   decision, seenFirstStop, blocked, suspended,
                   alive, ports, traps, history>>

\* Mutant: the loop does not ask whether the process has ended.
ReceiveTimesOutBlindly ==
    /\ Goto("receive", "top")
    /\ queue = {}
    /\ UNCHANGED <<running, stopRequested, stopped, pausedByUser, pending,
                   decision, seenFirstStop, current, target, history>>

\* The slice ends with no message: the only place a clean exit is noticed.
ReceiveTimesOut ==
    /\ Goto("receive", IF alive THEN "top" ELSE "leaving")
    /\ queue = {}
    /\ UNCHANGED <<running, stopRequested, stopped, pausedByUser, pending,
                   decision, seenFirstStop, current, target, history>>

\* The receive is interrupted, or fails and ends the loop.
ReceiveFails ==
    /\ loop = "receive"
    /\ loop' \in {"top", "leaving"}
    /\ UNCHANGED <<running, stopRequested, stopped, pausedByUser, pending,
                   decision, seenFirstStop, current, target, history>>

\* handleException() answers its own machinery's traps without reporting.
Absorb ==
    /\ Goto("handling", "replying")
    /\ seenFirstStop
    /\ UNCHANGED <<running, stopRequested, stopped, pausedByUser, pending,
                   decision, seenFirstStop, current, target, history>>

\* Under mCmdMutex: the stop becomes visible and no older command survives.
Report ==
    /\ Goto("handling", "parked")
    /\ stopped' = TRUE
    /\ pending' = "None"
    /\ seenFirstStop' = TRUE
    /\ UNCHANGED <<running, stopRequested, pausedByUser, decision, current,
                   target, history>>

\* Mutants: the wait has no predicate; its predicate forgets the request.
WakeUpSpuriously ==
    /\ Goto("parked", "answered")
    /\ decision' = IF pending # "None" THEN pending ELSE "Stop"
    /\ pending' = "None"
    /\ stopped' = FALSE
    /\ UNCHANGED <<running, stopRequested, pausedByUser, seenFirstStop,
                   current, target, history>>
WakeUpOnCommandOnly == pending # "None" /\ WakeUpSpuriously

\* mCmdCv.wait() returns.
WakeUp ==
    /\ Goto("parked", "answered")
    /\ pending # "None" \/ stopRequested
    /\ decision' = IF pending # "None" THEN pending ELSE "Stop"
    /\ pending' = "None"
    /\ stopped' = FALSE
    /\ UNCHANGED <<running, stopRequested, pausedByUser, seenFirstStop,
                   current, target, history>>

\* Mutant: the traps and the ports are left to the teardown.
LetGoAfterwards ==
    /\ Goto("answered", "replying")
    /\ UNCHANGED <<running, stopRequested, stopped, pausedByUser, pending,
                   decision, seenFirstStop, current, target, history>>

\* RestoreAll tries every entry, and the release of the ports follows whatever
\* came of it; what the kernel refuses stays in the target.
Released ==
    /\ refused' \in SUBSET Hold
    /\ IF "traps" \in refused' THEN traps' \in SUBSET traps \ {{}} ELSE traps' = {}
    /\ ports' = (ports /\ "ports" \in refused')

\* A Stop decision takes the traps out and hands the ports back before the
\* reply; the others go straight to it.
LetGo ==
    /\ Goto("answered", "replying")
    /\ IF decision = "Stop" THEN Released ELSE UNCHANGED <<traps, ports, refused>>
    /\ UNCHANGED <<running, stopRequested, stopped, pausedByUser, pending,
                   decision, seenFirstStop, current, blocked,
                   queue, suspended, alive, stopAsked>>

\* The reply to a thread that ended with its process may be refused.
SendReply ==
    /\ loop = "replying"
    /\ loop' \in IF alive THEN {"replied"} ELSE {"replied", "leaving"}
    /\ blocked' = blocked \ {current}
    /\ current' = NoThread
    /\ decision' = "None"
    /\ UNCHANGED <<running, stopRequested, stopped, pausedByUser, pending,
                   seenFirstStop, queue, suspended, alive, ports,
                   traps, history>>

\* Either Stop() supplied the decision, or cbResumed() is called.
AfterReply ==
    /\ Goto("replied", IF stopRequested THEN "leaving" ELSE "top")
    /\ UNCHANGED <<running, stopRequested, stopped, pausedByUser, pending,
                   decision, seenFirstStop, current, target, history>>

\* Mutant: the teardown hands the ports back and leaves the traps.
TeardownWithoutRestore ==
    /\ loop = "leaving"
    /\ IF stopRequested
       THEN loop' = "detaching" /\ ports' = FALSE /\ UNCHANGED <<running, traps, refused>>
       ELSE loop' = "finished" /\ running' = FALSE /\ UNCHANGED <<traps, ports, refused>>
    /\ UNCHANGED <<stopRequested, stopped, pausedByUser, pending, decision,
                   seenFirstStop, current, blocked, queue,
                   suspended, alive, stopAsked>>

\* RestoreAll and the release of the ports, once more, for a loop that Stop()
\* ended; what is refused is left in.
Teardown ==
    /\ loop = "leaving"
    /\ IF stopRequested
       THEN loop' = "detaching" /\ Released /\ UNCHANGED running
       ELSE loop' = "finished" /\ running' = FALSE /\ UNCHANGED <<traps, ports, refused>>
    /\ UNCHANGED <<stopRequested, stopped, pausedByUser, pending, decision,
                   seenFirstStop, current, blocked, queue,
                   suspended, alive, stopAsked>>

\* Lifecycle says when the kill takes effect; here it may not.
DetachAndKill ==
    /\ Goto("detaching", "finished")
    /\ running' = FALSE
    /\ alive' \in {alive, FALSE}
    /\ UNCHANGED <<stopRequested, stopped, pausedByUser, pending, decision,
                   seenFirstStop, current, blocked, queue,
                   suspended, ports, traps, history>>

LoopStep ==
    \/ StartClaim \/ StartReset \/ StartInstall \/ StartFails
    \/ LoopTop \/ (\E t \in Thread : Receive(t))
    \/ ReceiveTimesOut \/ ReceiveFails
    \/ Absorb \/ Report \/ WakeUp \/ LetGo \/ SendReply \/ AfterReply
    \/ Teardown \/ DetachAndKill

-----------------------------------------------------------------------------
(***************************************************************************)
(* The callers' threads.                                                   *)
(***************************************************************************)
\* Mutant: a command is accepted whether or not there is a stop.
PostAlways(command) == pending' = command

Post(command) ==
    pending' = IF stopped THEN command ELSE pending

\* Two independent reasons to be stopped, one call that clears both.
Continue ==
    /\ Post("Continue")
    /\ pausedByUser' = FALSE
    /\ suspended' = IF pausedByUser THEN suspended - 1 ELSE suspended
    /\ UNCHANGED <<loop, running, stopRequested, stopped, decision,
                   seenFirstStop, current, blocked, queue, alive,
                   ports, traps, history>>

StepInto ==
    /\ stopped
    /\ Post("StepInto")
    /\ UNCHANGED <<loop, running, stopRequested, stopped, pausedByUser,
                   decision, seenFirstStop, current, target, history>>

\* Mutant: a second Pause() suspends the task again.
PauseAgain ==
    /\ ~stopped
    /\ alive
    /\ suspended' = suspended + 1
    /\ pausedByUser' = TRUE
    /\ UNCHANGED <<loop, running, stopRequested, stopped, pending, decision,
                   seenFirstStop, current, blocked, queue, alive,
                   ports, traps, history>>

Pause ==
    /\ ~pausedByUser
    /\ ~stopped
    /\ alive
    /\ suspended' = suspended + 1
    /\ pausedByUser' = TRUE
    /\ UNCHANGED <<loop, running, stopRequested, stopped, pending, decision,
                   seenFirstStop, current, blocked, queue, alive,
                   ports, traps, history>>

Stop ==
    /\ stopRequested' = TRUE
    /\ Post("Stop")
    /\ stopAsked' = TRUE
    /\ UNCHANGED <<loop, running, stopped, pausedByUser, decision,
                   seenFirstStop, current, target, refused>>

CallerStep == Continue \/ StepInto \/ Pause \/ Stop

\* Breakpoints are set and deleted through the table, at any time and without
\* mCmdMutex; all the call needs is a task that takes the write.
SetBreakpoint ==
    /\ alive
    /\ traps' = traps \cup {IF stopAsked THEN "after" ELSE "before"}
    /\ UNCHANGED <<engine, blocked, queue, suspended, alive, ports, history>>

DeleteBreakpoint ==
    /\ alive
    /\ traps' \in SUBSET traps
    /\ UNCHANGED <<engine, blocked, queue, suspended, alive, ports, history>>

TableStep == SetBreakpoint \/ DeleteBreakpoint

(***************************************************************************)
(* The target: a stop holds only the thread that reported it.              *)
(***************************************************************************)
Launched == loop \notin {"idle", "claimed", "installing", "failed"}
CanRun(t) == Launched /\ alive /\ suspended = 0 /\ t \in Thread \ blocked

Raise(t) ==
    /\ CanRun(t)
    /\ ports
    /\ blocked' = blocked \cup {t}
    /\ queue' = queue \cup {t}
    /\ UNCHANGED <<engine, suspended, alive, ports, traps, history>>

Exit(t) ==
    /\ CanRun(t)
    /\ alive' = FALSE
    /\ UNCHANGED <<engine, blocked, queue, suspended, ports, traps, history>>

TargetStep == \E t \in Thread : Raise(t) \/ Exit(t)

-----------------------------------------------------------------------------
\* Callers that wait until Start() has cleared the last run's flags, and
\* callers that go by mIsRunning, as the C API does.
Next ==
    \/ LoopStep \/ TargetStep \/ TableStep
    \/ loop \notin {"idle", "claimed"} /\ CallerStep
EagerNext == LoopStep \/ TargetStep \/ TableStep \/ (running /\ CallerStep)

\* The loop's thread is scheduled, and its receive, which has a time limit, is
\* not interrupted for ever.
ReceiveEnds == (\E t \in Thread : Receive(t)) \/ ReceiveTimesOut
Fairness    == WF_vars(LoopStep) /\ SF_vars(ReceiveEnds)

Spec      == Init /\ [][Next]_vars /\ Fairness
EagerSpec == Init /\ [][EagerNext]_vars /\ Fairness

-----------------------------------------------------------------------------
\* A reply is withheld exactly while a message is being handled, its thread
\* is blocked, and every other blocked thread still waits in the port: no
\* thread is lost between the two, and none is answered twice.
RepliesAccounted ==
    /\ current # NoThread <=> loop \in Handling
    /\ current # NoThread => current \in blocked \ queue
    /\ blocked = queue \cup ({current} \ {NoThread})

\* mStopped is true exactly while handleException() waits, and a command
\* never outlives the stop it was posted in: a stale Continue cannot answer
\* the next stop.
CommandsBelongToTheirStop ==
    /\ stopped <=> loop = "parked"
    /\ pending # "None" => stopped

\* The task is suspended once while the pause flag is up and not at all when
\* it is down, so that one Continue() undoes any number of Pause() calls
\* (Pause, Continue).
SuspendsAreUndone == suspended = IF pausedByUser THEN 1 ELSE 0

\* What still ties the target to the engine is something the kernel refused to
\* release, or a breakpoint set after Stop() was called.
HeldByRefusal ==
    /\ "before" \in traps => "traps" \in refused
    /\ ports => "ports" \in refused

\* When a stop is answered by Stop, the target is let go before the reply: it
\* carries no breakpoint that was there when Stop() was called, and its
\* exceptions no longer come to the leaving loop, but for what was refused and
\* reported there and then (handleException, the Stop decision).
StopLetsGoFirst ==
    [][SendReply /\ decision = "Stop" => HeldByRefusal]_vars

\* Before the kill everything is tried once more: whatever a refusal at the
\* stop left in is out by now unless it was refused again (exceptionLoop's end).
KilledClean == loop = "detaching" => stopRequested /\ HeldByRefusal

\* Once the loop has seen the request, Start() returns, parked or not.
StopEndsTheLoop == stopRequested ~> Returned

\* The end of the process is noticed, without a message to tell of it: the loop
\* returns, or parks in a stop its thread had raised before (ReceiveTimesOut).
DeathIsNoticed == ~alive ~> Returned \/ stopped

\* What a caller is promised, over the state it can observe.
phase == IF Returned THEN "ended"
         ELSE IF stopped THEN "stopped" ELSE "running"
Protocol == INSTANCE StopProtocol WITH answer <- pending, ending <- stopRequested
ProtocolSafety == Protocol!Safety
ProtocolProgress == Protocol!Progress

-----------------------------------------------------------------------------
(***************************************************************************)
(* What comments of the code say and the code does not keep.               *)
(***************************************************************************)
\* Debugger.h:136: "Stop() always has an effect: it flags the loop to end".
StopHasAnEffect == stopAsked ~> Returned

=============================================================================

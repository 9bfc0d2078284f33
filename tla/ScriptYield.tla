----------------------------- MODULE ScriptYield -----------------------------
(***************************************************************************)
(* How a script, a breakpoint's callback and the user share the script     *)
(* interpreter of x64dbg.                                                  *)
(*                                                                         *)
(* Scripts run on the worker of a job queue (jobqueue.h).  A script that   *)
(* resumes the target waits, command by command, until the debugger stops  *)
(* again.  A breakpoint is handled on the debug loop's thread, which asks  *)
(* the script to yield before it closes WAITID_RUN (debugger.cpp,          *)
(* cbGenericBreakpoint), may run a scriptcmd itself, and then lets the     *)
(* script go on (simplescript.cpp, ScriptInterruptAwait ... ScriptResume). *)
(* The request travels through two atomics, gScriptInterruptReason and     *)
(* gScriptYieldContext.active, that three threads read and write.          *)
(*                                                                         *)
(* Every load and store of those atomics is a step of its own.  The two    *)
(* Windows events that go with them are left out: every wait on them has a *)
(* timeout of at most 100 ms and tests the atomics again.  Lines, labels   *)
(* and the call stack of the script are abstracted to the outcome of a     *)
(* command.  A breakpoint's command is assumed not to resume the target by *)
(* itself, and the user to type no scriptcmd of his own.                   *)
(***************************************************************************)
EXTENDS Naturals, Sequences

CONSTANTS
    MaxStarts,      \* how often scripts are started, stepped or loaded
    MaxAborts,      \* how often the user presses Abort
    MaxRuns         \* how often the user resumes the target by hand

ASSUME Bounds == {MaxStarts, MaxAborts, MaxRuns} \subseteq Nat

VARIABLES
    scriptState,    \* simplescript.cpp scriptState
    reason,         \* gScriptInterruptReason; "abort" stands for the three aborts
    active,         \* gScriptYieldContext.active
    pending,        \* gScriptYieldContext.pendingOutcome
    running,        \* the event WAITID_RUN is set: what dbgisrunning() says
    debugging,      \* bIsDebugging
    queue,          \* JobQueue::mQueue
    job,            \* the job on the worker
    done,           \* the threads whose awaited job has set its event
    pc,             \* where each thread is
    ret,            \* where scriptHandleInterrupt returns to
    ok,             \* scriptInternalCmdExec's res
    taken,          \* its yieldOutcome, then its result
    seen,           \* the script state the breakpoint's callback has loaded
    left,           \* what is left of the bounds
    meddled         \* the user acted while the debugger was not standing still

script == <<scriptState, reason, active, pending>>
loop == <<running, debugging>>
jobs == <<queue, job, done>>
frame == <<ret, ok, taken>>
vars == <<script, loop, jobs, frame, pc, seen, left, meddled>>

State == {"paused", "stepping", "running"}
Reason == {"none", "yield", "abort"}
Outcome == {"continue", "pause", "abort"}
Start == {"run", "step", "load"}
Job == Start \cup {"cmd", "flush"}
Interpreter == {"script", "debug"}
Thread == Interpreter \cup {"user"}

InterpreterAt == {"command", "wait", "poll", "raise", "yielded", "waking",
                  "collect", "check", "judge"}
WorkerAt == InterpreterAt \cup {"idle", "test", "claim", "reset", "lower", "forget",
                                "begin", "top", "report", "release", "clear",
                                "clearActive", "clearPending"}
Callback == InterpreterAt \cup {"lock", "decide", "offer", "join", "pick", "queued",
                                "merge", "conclude", "resume", "clearing",
                                "offerReason"}
LoopAt == Callback \cup {"target", "load", "ask", "await", "stopped", "over"}
UserAt == {"free", "interrupt", "flush", "await"}

Goes(t, label) == pc' = [pc EXCEPT ![t] = label]

(* ------------------------------------------------------------------------ *)
(* The interpreter, on the worker or on the thread of a breakpoint          *)
(* ------------------------------------------------------------------------ *)

\* The state a command runs under: a scriptcmd is given the one its event saw.
Mode(t) == IF t = "debug" \/ job = "cmd" THEN seen ELSE scriptState

Normal(t) == IF Mode(t) = "running" THEN "continue" ELSE "pause"

\* What follows a command with outcome o: scriptRun's loop goes on or meets the
\* end, a line breakpoint or its time limit; a step is over; a scriptcmd reports.
After(t, o) == IF t = "debug" THEN {"merge"}
               ELSE IF job = "cmd" THEN {"report"}
               ELSE IF job = "run" /\ o = "continue" THEN {"top", "release"}
               ELSE {"release"}

\* Only a scriptcmd has a result; what nobody reads again is put back.
Finish(t, o) == /\ taken' = [taken EXCEPT ![t] = IF t = "debug" \/ job = "cmd"
                                                 THEN o ELSE "continue"]
                /\ ok' = [ok EXCEPT ![t] = TRUE]
                /\ ret' = [ret EXCEPT ![t] = "top"]
                /\ \E label \in After(t, o) : Goes(t, label)

\* ret, error, pause, nop and the branches are carried out on the spot.
Internal(t) ==
    /\ pc[t] = "command"
    /\ \E o \in Outcome : Finish(t, o)
    /\ UNCHANGED <<script, loop, jobs, seen, left, meddled>>

\* "scriptcmd call" without a running script starts one.
CallStarts ==
    /\ pc["script"] = "command" /\ job = "cmd" /\ seen = "paused"
    /\ left.start > 0
    /\ left' = [left EXCEPT !.start = @ - 1]
    /\ queue' = Append(queue, "run")
    /\ Finish("script", "continue")
    /\ UNCHANGED <<script, loop, job, done, seen, meddled>>

\* Any other command: it succeeds or fails, and the debugger stays as it is.
External(t) ==
    /\ pc[t] = "command"
    /\ \E res \in BOOLEAN : ok' = [ok EXCEPT ![t] = res]
    /\ Goes(t, "wait")
    /\ UNCHANGED <<script, loop, jobs, ret, taken, seen, left, meddled>>

\* The command "run": refused without a target and when it runs already.
RunsTarget ==
    /\ pc["script"] = "command" /\ job \in {"run", "step"}
    /\ ok' = [ok EXCEPT !["script"] = debugging /\ ~running]
    /\ running' = (running \/ debugging)
    /\ Goes("script", "wait")
    /\ UNCHANGED <<script, debugging, jobs, ret, taken, seen, left, meddled>>

Calls(t, back) == /\ ret' = [ret EXCEPT ![t] = back]
                  /\ Goes(t, "poll")

WaitBlindly(t) ==
    /\ pc[t] = "wait" /\ ~(debugging /\ running)
    /\ Goes(t, "collect")
    /\ UNCHANGED <<script, loop, jobs, frame, seen, left, meddled>>

\* "Wait for the debuggee to pause", looking out for interrupts.
Wait(t) ==
    /\ pc[t] = "wait"
    /\ IF debugging /\ running
       THEN Calls(t, "wait")
       ELSE Goes(t, "collect") /\ UNCHANGED ret
    /\ UNCHANGED <<script, loop, jobs, ok, taken, seen, left, meddled>>

Collect(t) ==
    /\ pc[t] = "collect"
    /\ taken' = [taken EXCEPT ![t] = pending]
    /\ pending' = "continue"
    /\ Goes(t, "check")
    /\ UNCHANGED <<scriptState, reason, active, loop, jobs, ret, ok, seen, left, meddled>>

Check(t) ==
    /\ pc[t] = "check"
    /\ IF active THEN Goes(t, "judge") /\ UNCHANGED ret
                 ELSE Calls(t, "judge")
    /\ UNCHANGED <<script, loop, jobs, ok, taken, seen, left, meddled>>

Judge(t) ==
    /\ pc[t] = "judge"
    /\ Finish(t, IF taken[t] = "abort" \/ ~ok[t] THEN "abort"
                 ELSE IF taken[t] = "pause" THEN "pause" ELSE Normal(t))
    /\ UNCHANGED <<script, loop, jobs, seen, left, meddled>>

\* scriptHandleInterrupt loads the reason and returns, or yields.
Undisturbed(t) ==
    /\ pc[t] = "poll" /\ reason = "none"
    /\ Goes(t, IF ret[t] = "top" THEN "command" ELSE ret[t])
    /\ ret' = [ret EXCEPT ![t] = "top"]
    /\ UNCHANGED <<script, loop, jobs, ok, taken, seen, left, meddled>>

Aborted(t) ==
    /\ pc[t] = "poll" /\ reason = "abort"
    /\ IF ret[t] = "top" THEN Goes(t, "release") /\ UNCHANGED frame
                         ELSE Finish(t, "abort")
    /\ UNCHANGED <<script, loop, jobs, seen, left, meddled>>

Yields(t) ==
    /\ pc[t] = "poll" /\ reason = "yield"
    /\ Goes(t, "raise")
    /\ UNCHANGED <<script, loop, jobs, frame, seen, left, meddled>>

Raises(t) ==
    /\ pc[t] = "raise"
    /\ active' = TRUE
    /\ Goes(t, "yielded")
    /\ UNCHANGED <<scriptState, reason, pending, loop, jobs, frame, seen, left, meddled>>

Wakes(t) ==
    /\ pc[t] = "yielded" /\ reason # "yield"
    /\ Goes(t, "waking")
    /\ UNCHANGED <<script, loop, jobs, frame, seen, left, meddled>>

AwakeStillActive(t) ==
    /\ pc[t] = "waking"
    /\ Goes(t, "poll")
    /\ UNCHANGED <<script, loop, jobs, frame, seen, left, meddled>>

Awake(t) ==
    /\ pc[t] = "waking"
    /\ active' = FALSE
    /\ Goes(t, "poll")
    /\ UNCHANGED <<scriptState, reason, pending, loop, jobs, frame, seen, left, meddled>>

Interprets(t) ==
    \/ Internal(t) \/ External(t) \/ Wait(t) \/ Collect(t) \/ Check(t) \/ Judge(t)
    \/ Undisturbed(t) \/ Aborted(t) \/ Yields(t) \/ Raises(t) \/ Wakes(t) \/ Awake(t)

(* ------------------------------------------------------------------------ *)
(* The worker of the script queue                                           *)
(* ------------------------------------------------------------------------ *)

\* scriptResetInterruptState: three stores, one after the other.
Resets(first, second, third, next) ==
    \/ /\ pc["script"] = first /\ reason' = "none"
       /\ Goes("script", second) /\ UNCHANGED <<active, pending>>
    \/ /\ pc["script"] = second /\ active' = FALSE
       /\ Goes("script", third) /\ UNCHANGED <<reason, pending>>
    \/ /\ pc["script"] = third /\ pending' = "continue"
       /\ Goes("script", next) /\ UNCHANGED <<reason, active>>

Take ==
    /\ pc["script"] = "idle" /\ queue # <<>>
    /\ job' = Head(queue)
    /\ queue' = Tail(queue)
    /\ Goes("script", CASE Head(queue) = "run" -> "test"
                        [] Head(queue) = "step" -> "reset"
                        [] Head(queue) = "load" -> "clear"
                        [] Head(queue) = "cmd" -> "command"
                        [] OTHER -> "report")
    /\ UNCHANGED <<script, loop, done, frame, seen, left, meddled>>

\* scriptRun: "Debugger must be paused to run a script!"
Test ==
    /\ pc["script"] = "test"
    /\ Goes("script", IF debugging /\ running THEN "idle" ELSE "claim")
    /\ UNCHANGED <<script, loop, jobs, frame, seen, left, meddled>>

Claim ==
    /\ pc["script"] = "claim"
    /\ scriptState' = "running"
    /\ Goes("script", "reset")
    /\ UNCHANGED <<reason, active, pending, loop, jobs, frame, seen, left, meddled>>

Reset ==
    /\ Resets("reset", "lower", "forget", IF job = "run" THEN "top" ELSE "begin")
    /\ UNCHANGED <<scriptState, loop, jobs, frame, seen, left, meddled>>

\* ScriptStepAsync
Begin ==
    /\ pc["script"] = "begin"
    /\ scriptState' = "stepping"
    /\ Goes("script", "command")
    /\ UNCHANGED <<reason, active, pending, loop, jobs, frame, seen, left, meddled>>

Top ==
    /\ pc["script"] = "top"
    /\ Calls("script", "top")
    /\ UNCHANGED <<script, loop, jobs, ok, taken, seen, left, meddled>>

\* Mutant: the other way around.
ReleaseAfterReset ==
    /\ \/ /\ \E first \in {"release", "clear"} :
                 Resets(first, "clearActive", "clearPending", "last")
          /\ UNCHANGED scriptState
       \/ /\ pc["script"] = "last" /\ scriptState' = "paused"
          /\ Goes("script", "idle") /\ UNCHANGED <<reason, active, pending>>
    /\ UNCHANGED <<loop, jobs, frame, seen, left, meddled>>

\* The script state goes back to paused first, the request is dropped after it.
Release ==
    /\ \/ /\ pc["script"] = "release" /\ scriptState' = "paused"
          /\ Goes("script", "clear") /\ UNCHANGED <<reason, active, pending>>
       \/ /\ Resets("clear", "clearActive", "clearPending", "idle")
          /\ UNCHANGED scriptState
    /\ UNCHANGED <<loop, jobs, frame, seen, left, meddled>>

\* impl_await: the job is done and sets the event of the thread that waits for it.
Report ==
    /\ pc["script"] = "report"
    /\ done' = done \cup {IF job = "cmd" THEN "debug" ELSE "user"}
    /\ Goes("script", "idle")
    /\ UNCHANGED <<script, loop, queue, job, frame, seen, left, meddled>>

Worker == \/ Take \/ Test \/ Claim \/ Reset \/ Begin \/ Top \/ Release \/ Report
          \/ CallStarts \/ RunsTarget \/ Interprets("script")

(* ------------------------------------------------------------------------ *)
(* The debug loop: cbGenericBreakpoint                                      *)
(* ------------------------------------------------------------------------ *)

Hit ==
    /\ pc["debug"] = "target"
    /\ Goes("debug", "load")
    /\ UNCHANGED <<script, loop, jobs, frame, seen, left, meddled>>

\* The target ends and the debug loop with it.
Ends ==
    /\ pc["debug"] = "target"
    /\ debugging' = FALSE
    /\ Goes("debug", "over")
    /\ UNCHANGED <<script, running, jobs, frame, seen, left, meddled>>

\* ScriptInterruptAwait: nothing to ask when no script is on.
Load ==
    /\ pc["debug"] = "load"
    /\ seen' = scriptState
    /\ Goes("debug", IF scriptState = "paused" THEN "lock" ELSE "ask")
    /\ UNCHANGED <<script, loop, jobs, frame, left, meddled>>

AskLocked ==
    /\ pc["debug"] = "ask"
    /\ reason' = "yield" /\ running' = FALSE
    /\ Goes("debug", "await")
    /\ UNCHANGED <<scriptState, active, pending, debugging, jobs, frame, seen, left, meddled>>

Ask ==
    /\ pc["debug"] = "ask"
    /\ reason' = "yield"
    /\ Goes("debug", "await")
    /\ UNCHANGED <<scriptState, active, pending, loop, jobs, frame, seen, left, meddled>>

Await ==
    /\ pc["debug"] = "await"
    /\ active \/ reason # "yield"
    /\ Goes("debug", "lock")
    /\ UNCHANGED <<script, loop, jobs, frame, seen, left, meddled>>

Lock ==
    /\ pc["debug"] = "lock"
    /\ running' = FALSE
    /\ Goes("debug", "decide")
    /\ UNCHANGED <<script, debugging, jobs, frame, seen, left, meddled>>

\* The breakpoint has a scriptcmd to run, or it has not.
Decide ==
    /\ pc["debug"] = "decide"
    /\ \/ Goes("debug", "offer")
       \/ Goes("debug", "conclude")
    /\ UNCHANGED <<script, loop, jobs, frame, seen, left, meddled>>

\* ScriptCmdExecAwait: through the queue unless a script yields or is asked to.
Queues == /\ queue' = Append(queue, "cmd")
          /\ Goes("debug", "queued")

Offer ==
    /\ pc["debug"] = "offer"
    /\ Goes("debug", IF active THEN "join" ELSE "offerReason")
    /\ UNCHANGED <<script, loop, jobs, frame, seen, left, meddled>>

OfferReason ==
    /\ pc["debug"] = "offerReason"
    /\ IF reason = "yield"
       THEN Goes("debug", "join") /\ UNCHANGED queue
       ELSE Queues
    /\ UNCHANGED <<script, loop, job, done, frame, seen, left, meddled>>

Join ==
    /\ pc["debug"] = "join"
    /\ active \/ reason # "yield"
    /\ Goes("debug", "pick")
    /\ UNCHANGED <<script, loop, jobs, frame, seen, left, meddled>>

Pick ==
    /\ pc["debug"] = "pick"
    /\ IF active
       THEN Goes("debug", "command") /\ UNCHANGED queue
       ELSE Queues
    /\ UNCHANGED <<script, loop, job, done, frame, seen, left, meddled>>

Answered ==
    /\ pc["debug"] = "queued" /\ "debug" \in done
    /\ done' = done \ {"debug"}
    /\ taken' = [taken EXCEPT !["debug"] = taken["script"], !["script"] = "continue"]
    /\ Goes("debug", "conclude")
    /\ UNCHANGED <<script, loop, queue, job, ret, ok, seen, left, meddled>>

\* scriptMergeYieldCommandOutcome keeps the graver outcome.
Merge ==
    /\ pc["debug"] = "merge"
    /\ pending' = IF "abort" \in {pending, taken["debug"]} THEN "abort"
                  ELSE IF "pause" \in {pending, taken["debug"]} THEN "pause"
                  ELSE "continue"
    /\ Goes("debug", "conclude")
    /\ UNCHANGED <<scriptState, reason, active, loop, jobs, frame, seen, left, meddled>>

\* A failed command stops the target, otherwise the break condition decides.
Conclude ==
    /\ pc["debug"] = "conclude"
    /\ \/ UNCHANGED running
       \/ taken["debug"] # "abort" /\ running' = TRUE
    /\ Goes("debug", IF seen = "paused" THEN "stopped" ELSE "resume")
    /\ seen' = "paused"
    /\ taken' = [taken EXCEPT !["debug"] = "continue"]
    /\ UNCHANGED <<script, debugging, jobs, ret, ok, left, meddled>>

\* ScriptResume loads the reason and clears it.
Resume ==
    /\ pc["debug"] = "resume"
    /\ Goes("debug", IF reason = "yield" THEN "clearing" ELSE "stopped")
    /\ UNCHANGED <<script, loop, jobs, frame, seen, left, meddled>>

Clearing ==
    /\ pc["debug"] = "clearing"
    /\ reason' = "none"
    /\ Goes("debug", "stopped")
    /\ UNCHANGED <<scriptState, active, pending, loop, jobs, frame, seen, left, meddled>>

\* wait(WAITID_RUN) returns and the target runs.
Go ==
    /\ pc["debug"] = "stopped" /\ running
    /\ Goes("debug", "target")
    /\ UNCHANGED <<script, loop, jobs, frame, seen, left, meddled>>

Handles == \/ Load \/ Ask \/ Await \/ Lock \/ Decide
           \/ Offer \/ OfferReason \/ Join \/ Pick \/ Answered
           \/ Merge \/ Conclude \/ Resume \/ Clearing \/ Go \/ Interprets("debug")

(* ------------------------------------------------------------------------ *)
(* The user                                                                 *)
(* ------------------------------------------------------------------------ *)

StandsStill == pc["debug"] \in {"stopped", "over"} /\ ~(debugging /\ running)

\* ScriptRunAsync, ScriptStepAsync, ScriptLoadAwait
UserStarts ==
    /\ left.start > 0
    /\ left' = [left EXCEPT !.start = @ - 1]
    /\ \E j \in Start : queue' = Append(queue, j)
    /\ meddled' = (meddled \/ ~StandsStill)
    /\ UNCHANGED <<script, loop, job, done, frame, pc, seen>>

\* cbDebugRunInternal, from the command thread
UserRuns ==
    /\ left.run > 0 /\ debugging /\ ~running
    /\ left' = [left EXCEPT !.run = @ - 1]
    /\ running' = TRUE
    /\ meddled' = TRUE
    /\ UNCHANGED <<script, debugging, jobs, frame, pc, seen>>

\* ScriptInterruptAwait(AbortUser): nothing to abort when no script is on.
UserAborts ==
    /\ left.abort > 0 /\ pc["user"] = "free" /\ scriptState # "paused"
    /\ left' = [left EXCEPT !.abort = @ - 1]
    /\ meddled' = TRUE
    /\ Goes("user", "interrupt")
    /\ UNCHANGED <<script, loop, jobs, frame, seen>>

Interrupt ==
    /\ pc["user"] = "interrupt"
    /\ reason' = "abort"
    /\ Goes("user", "flush")
    /\ UNCHANGED <<scriptState, active, pending, loop, jobs, frame, seen, left, meddled>>

Flush ==
    /\ pc["user"] = "flush"
    /\ queue' = Append(queue, "flush")
    /\ Goes("user", "await")
    /\ UNCHANGED <<script, loop, job, done, frame, seen, left, meddled>>

Flushed ==
    /\ pc["user"] = "await" /\ "user" \in done
    /\ done' = done \ {"user"}
    /\ Goes("user", "free")
    /\ UNCHANGED <<script, loop, queue, job, frame, seen, left, meddled>>

AbortsOn == Interrupt \/ Flush \/ Flushed

(* ------------------------------------------------------------------------ *)

\* A target stopped at its entry, no script yet.
Init ==
    /\ scriptState = "paused" /\ reason = "none" /\ active = FALSE
    /\ pending = "continue"
    /\ running = FALSE /\ debugging = TRUE
    /\ queue = <<>> /\ job = "load" /\ done = {}
    /\ pc = [t \in Thread |-> IF t = "script" THEN "idle"
                              ELSE IF t = "debug" THEN "stopped" ELSE "free"]
    /\ ret = [t \in Interpreter |-> "top"]
    /\ ok = [t \in Interpreter |-> TRUE]
    /\ taken = [t \in Interpreter |-> "continue"]
    /\ seen = "paused"
    /\ left = [start |-> MaxStarts, abort |-> MaxAborts, run |-> MaxRuns]
    /\ meddled = FALSE

Next == \/ Worker \/ Handles \/ Hit \/ Ends
        \/ UserStarts \/ UserRuns \/ UserAborts \/ AbortsOn

\* The threads are scheduled; commands of a script return.  Neither the target
\* nor the user has to do anything.
Fairness == WF_vars(Worker) /\ WF_vars(Handles) /\ WF_vars(AbortsOn)

Spec == Init /\ [][Next]_vars /\ Fairness

(* ------------------------------------------------------------------------ *)
(* Properties                                                               *)
(* ------------------------------------------------------------------------ *)

\* Types.
TypeOK ==
    /\ scriptState \in State /\ reason \in Reason /\ pending \in Outcome
    /\ {active, running, debugging, meddled} \subseteq BOOLEAN
    /\ queue \in Seq(Job) /\ job \in Job
    /\ done \subseteq {"debug", "user"}
    /\ pc["script"] \in WorkerAt /\ pc["debug"] \in LoopAt /\ pc["user"] \in UserAt
    /\ ret \in [Interpreter -> {"top", "wait", "judge"}]
    /\ ok \in [Interpreter -> BOOLEAN] /\ taken \in [Interpreter -> Outcome]
    /\ seen \in State

\* Once the callback of a breakpoint has gone past its wait for the script, the
\* worker is inside scriptHandleInterrupt for as long as the request stands:
\* it executes nothing, tests nothing and frees nothing, whatever it was doing
\* when the request came and however quickly one event follows another.
RequestHolds ==
    pc["debug"] \in Callback /\ reason = "yield" =>
        pc["script"] \in {"poll", "raise", "yielded", "waking"}

\* The script that waits for its own "run" to stop does not take the moment in
\* which a breakpoint is only being looked at for the stop: it goes on when the
\* callback has decided to stop and waits for the user, or when the target is gone.
OnlyRealStops ==
    [][pc["script"] = "wait" /\ pc'["script"] = "collect" /\ ~meddled
          => StandsStill]_vars

\* A breakpoint's request is answered: the script yields, ends and drops the
\* request, or is aborted.  The callback does not hang on a request that it
\* stored before a script that was on had ended and reset it, whatever the user
\* starts and aborts meanwhile; it may once the user has resumed the target by
\* hand under a scriptcmd, as the callback then yields to itself and lowers the
\* flag it waits for.  It does hang on a request stored after the reset: the
\* state it loaded is then no longer that of a script that is on.  A target run
\* by scripts alone never gets there: the user has to act while it runs.
InTime == scriptState # "paused" \/ pc["script"] = "clear"

YieldIsAnswered ==
    /\ pc["debug"] = "await" /\ InTime
          ~> pc["debug"] # "await" \/ left.run < MaxRuns
    /\ pc["debug"] = "await" ~> pc["debug"] # "await" \/ meddled

\* A breakpoint met under a script that is out of its yield to the event before it
\* is handled to its end, its scriptcmd and all, unless the user acts
\* while the target runs or the breakpoint is handled.
EventEnds ==
    pc["debug"] = "ask" /\ pc["script"] \notin {"raise", "yielded", "waking"}
        ~> pc["debug"] = "stopped" \/ meddled

\* simplescript.cpp:848 "Execute directly if the script thread successfully
\* yielded": an event that follows on the heels of another is handled as well.
NextEventEnds == pc["debug"] = "ask" ~> pc["debug"] = "stopped" \/ meddled

=============================================================================

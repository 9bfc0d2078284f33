----------------------------- MODULE ElfEngine -----------------------------
(***************************************************************************)
(* ElfBug's engine on Linux: debugLoop() and what it calls on the tracer   *)
(* thread, the calls other threads make (Continue, StepInto, Pause, Stop   *)
(* and the queue of breakpoint requests of elfbug_api.cpp), and the kernel *)
(* between them and the target's threads.  ptrace stops one thread at a    *)
(* time: while the tracer holds one, the others go on.                     *)
(*                                                                         *)
(* The target runs a cycle of instructions.  A software breakpoint is the  *)
(* byte 0xCC: executing it leaves the program counter one byte further,    *)
(* inside the instruction it replaced, until the tracer moves it back.     *)
(* Memory is read and written through the main thread, whichever thread    *)
(* the tracer handles, so this works only while the main thread is stopped.*)
(***************************************************************************)
EXTENDS Integers, Sequences, SequencesExt

CONSTANTS
    Thread,      \* the threads the target may ever have
    Main,        \* mMainPid
    CodeSize,    \* the program is a cycle of this many instructions
    Faulty,      \* those that may fault when executed
    Toggled,     \* those the user sets and deletes breakpoints at
    MaxRequests  \* bound on the breakpoint requests waiting

ASSUME ElfEngineAssumption ==
    /\ Main \in Thread
    /\ CodeSize \in Nat \ {0} /\ Faulty \cup Toggled \subseteq 0 .. CodeSize - 1
    /\ MaxRequests \in Nat

Address == 0 .. CodeSize - 1
Succ(a) == (a + 1) % CodeSize

VARIABLES
    tracer,         \* where the tracer thread is
    current,        \* the thread it is handling
    event,          \* the callback of the present pause
    from,           \* bpAddr of the breakpoint being stepped off
    paused,         \* mPaused
    stepPending,    \* mStepPending
    pauseRequested, \* mPauseRequested
    pendingSignal,  \* mPendingSignal is not 0
    known,          \* mProcess->threads
    stepping,       \* those with mIsSingleStepping
    bps,            \* mProcess->breakpoints, which is where the 0xCCs are
    shown,          \* breakpointAddrs, what the user is told is set
    requests,       \* pendingBpRequests
    st,             \* the kernel's state of each thread
    why,            \* what it stopped for
    pc,             \* the instruction it is at
    mid,            \* those one byte past the 0xCC they executed
    tf,             \* those resumed by PTRACE_SINGLESTEP
    cloned,         \* the message of PTRACE_EVENT_CLONE
    sigstop,        \* a SIGSTOP is pending for the process
    killed,         \* so is a SIGKILL
    asked           \* those a StepInto was carried out on (history)

control == <<paused, stepPending, pauseRequested>>
engine == <<pendingSignal, known, stepping, bps, shown, requests>>
target == <<st, why, pc, mid, tf, cloned, sigstop, killed>>
tracing == <<tracer, current, event, from>>
vars == <<tracing, control, engine, target, asked>>

Reason == {"none", "trap", "step", "clone", "exit", "sigstop",
           "signal"}
Request == [addr: Address, set: BOOLEAN]

TypeOK ==
    /\ tracer \in {"launch", "first", "setup", "wait", "got", "hit",
                   "stepoff", "told", "done"}
    /\ current \in Thread /\ from \in Address
    /\ event \in {"none", "system", "breakpoint", "step", "paused", "exception"}
    /\ paused \in BOOLEAN /\ stepPending \in BOOLEAN
    /\ pauseRequested \in BOOLEAN /\ pendingSignal \in BOOLEAN
    /\ known \subseteq Thread /\ stepping \subseteq known
    /\ bps \subseteq Address /\ shown \subseteq Address
    /\ requests \in BoundedSeq(Request, MaxRequests)
    /\ st \in [Thread -> {"none", "running", "stopped", "held", "zombie", "dead"}]
    /\ why \in [Thread -> Reason]
    /\ pc \in [Thread -> Address] /\ mid \subseteq Thread /\ tf \subseteq Thread
    /\ cloned \in Thread /\ sigstop \in BOOLEAN /\ killed \in BOOLEAN
    /\ asked \subseteq Thread

Init ==
    /\ tracer = "launch" /\ current = Main /\ event = "none" /\ from = 0
    /\ paused = FALSE /\ stepPending = FALSE /\ pauseRequested = FALSE
    /\ pendingSignal = FALSE /\ known = {} /\ stepping = {}
    /\ bps = {} /\ shown = {} /\ requests = <<>>
    /\ st = [t \in Thread |-> "none"] /\ why = [t \in Thread |-> "none"]
    /\ pc = [t \in Thread |-> 0] /\ mid = {} /\ tf = {} /\ cloned = Main
    /\ sigstop = FALSE /\ killed = FALSE
    /\ asked = {}

-----------------------------------------------------------------------------
(***************************************************************************)
(* The breakpoint requests, which only the tracer carries out.             *)
(***************************************************************************)
\* PTRACE_PEEKDATA and PTRACE_POKEDATA go to mProcess->pid, the main thread:
\* ESRCH unless ptrace has it stopped.
Writable == st[Main] \in {"stopped", "held"}

\* Process::SetBreakpoint and DeleteBreakpoint change the byte and the table
\* together, or neither.
WithBreakpoint(a) == IF Writable THEN bps \cup {a} ELSE bps
WithoutBreakpoint(a) == IF Writable THEN bps \ {a} ELSE bps

\* SetBreakpoint refuses an address it has, DeleteBreakpoint one it has not;
\* what the user is shown changes only where they succeed.
Carried(state, r) ==
    IF ~Writable \/ (r.set <=> r.addr \in state.bps) THEN state
    ELSE IF r.set THEN [bps |-> state.bps \cup {r.addr},
                        shown |-> state.shown \cup {r.addr}]
    ELSE [bps |-> state.bps \ {r.addr}, shown |-> state.shown \ {r.addr}]

\* The table after the first n of the requests, in the order they came in.
CarriedOut[n \in 0 .. Len(requests)] ==
    IF n = 0 THEN [bps |-> bps, shown |-> shown]
             ELSE Carried(CarriedOut[n - 1], requests[n])
Processed == CarriedOut[Len(requests)]

ProcessPendingBreakpoints ==
    /\ bps' = Processed.bps /\ shown' = Processed.shown /\ requests' = <<>>

\* The user's own view: the last request for an address, or what was done.
IsBreakpointEffective(a) ==
    LET asks == SelectSeq(requests, LAMBDA r : r.addr = a)
    IN IF asks # <<>> THEN Last(asks).set ELSE a \in shown

-----------------------------------------------------------------------------
(***************************************************************************)
(* ptrace: what becomes of a held thread.  A thread that a SIGKILL has     *)
(* taken meanwhile answers ESRCH, which is not an error.                   *)
(***************************************************************************)
Held(t) == st[t] = "held"

\* What it stopped for is past; an exit goes on being one.
Going(t) == [why EXCEPT ![t] = IF @ = "exit" THEN @ ELSE "none"]

\* One that goes on from inside an instruction executes whatever its last
\* bytes are: nothing is known of where that leads.
Resumed(t, single) ==
    /\ st' = [st EXCEPT ![t] = IF Held(t) THEN "running" ELSE @]
    /\ tf' = IF single THEN tf \cup {t} ELSE tf \ {t}
    /\ mid' = mid \ {t}
    /\ \E a \in (IF t \in mid THEN Address ELSE {pc[t]}) : pc' = [pc EXCEPT ![t] = a]
    /\ why' = Going(t) /\ UNCHANGED <<cloned, killed>>

\* PTRACE_CONT, suppressing the signal or passing it on.
Cont(t) == Resumed(t, FALSE) /\ UNCHANGED sigstop

BackToWait == tracer' = "wait" /\ event' = "none" /\ from' = 0 /\ current' = Main

-----------------------------------------------------------------------------
(***************************************************************************)
(* Start: launchChild, the first stop, the system breakpoint.              *)
(***************************************************************************)
LaunchFails ==
    /\ tracer = "launch" /\ tracer' = "done"
    /\ UNCHANGED <<current, event, from, control, engine, target, asked>>

LaunchChild ==
    /\ tracer = "launch" /\ tracer' = "first"
    /\ st' = [st EXCEPT ![Main] = "stopped"]
    /\ UNCHANGED <<current, event, from, control, engine, why, pc, mid, tf, cloned,
                   sigstop, killed, asked>>

\* The first stop, or a death in its place.
FirstStop ==
    /\ tracer = "first"
    /\ IF st[Main] = "stopped"
       THEN /\ tracer' = "setup" /\ st' = [st EXCEPT ![Main] = "held"]
            /\ known' = {Main}
       ELSE tracer' = "done" /\ st' = [st EXCEPT ![Main] = "dead"] /\ UNCHANGED known
    /\ UNCHANGED <<current, event, from, control, pendingSignal, stepping, bps, shown,
                   requests, why, pc, mid, tf, cloned, sigstop, killed, asked>>

\* PTRACE_SETOPTIONS on a target killed meanwhile: no exit is reported.
SetOptionsFails ==
    /\ tracer = "setup" /\ ~Held(Main) /\ tracer' = "done"
    /\ UNCHANGED <<current, event, from, control, engine, target, asked>>

SystemBreakpoint ==
    /\ tracer = "setup" /\ tracer' = "told" /\ event' = "system"
    /\ paused' = TRUE /\ ProcessPendingBreakpoints
    /\ UNCHANGED <<current, from, stepPending, pauseRequested, pendingSignal,
                   known, stepping, target, asked>>

-----------------------------------------------------------------------------
(***************************************************************************)
(* debugLoop: waitpid(-1) hands over any thread that has news.             *)
(***************************************************************************)
WaitStops(t) ==
    /\ tracer = "wait" /\ st[t] = "stopped"
    /\ st' = [st EXCEPT ![t] = "held"]
    /\ tracer' = "got" /\ current' = t /\ pendingSignal' = FALSE
    /\ UNCHANGED <<event, from, control, known, stepping, bps, shown, requests, why,
                   pc, mid, tf, cloned, sigstop, killed, asked>>

\* exitProcessEvent for the main thread, exitThreadEvent for another; the
\* leader's end is not reported while another thread is left.
Reportable(t) == st[t] = "zombie"
    /\ (t = Main => \A u \in Thread \ {Main} : st[u] \in {"none", "dead"})

ProcessExit ==
    /\ tracer' = "done" /\ known' = {} /\ bps' = {} /\ shown' = {}
    /\ requests' = <<>>
ThreadExit(t) ==
    /\ tracer' = "wait" /\ known' = known \ {t}
    /\ UNCHANGED <<bps, shown, requests>>

Dies(t) ==
    /\ Reportable(t)
    /\ st' = [st EXCEPT ![t] = "dead"] /\ why' = [why EXCEPT ![t] = "none"]
    /\ pc' = [pc EXCEPT ![t] = 0] /\ mid' = mid \ {t} /\ tf' = tf \ {t}
    /\ asked' = asked \ {t}
    /\ UNCHANGED <<current, event, from, control, pendingSignal, cloned,
                   sigstop, killed>>

\* Mutant: any thread's end is taken for the process's.
ExitAlwaysEnds(t) == Dies(t) /\ ProcessExit /\ stepping' = {}
Exit(t) ==
    /\ Dies(t) /\ stepping' = stepping \ {t}
    /\ IF t = Main THEN ProcessExit ELSE ThreadExit(t)

WaitExits(t) == tracer = "wait" /\ Exit(t)

-----------------------------------------------------------------------------
(***************************************************************************)
(* handleSignal.  A pause is begun, and told, and waits for an answer.     *)
(***************************************************************************)
Got(reason) == tracer = "got" /\ why[current] = reason

Tell(e) == tracer' = "told" /\ event' = e /\ paused' = TRUE
           /\ UNCHANGED <<current, from>>

\* The new thread is entered; its own first stop may have come already.
HandleClone ==
    /\ Got("clone") /\ known' = known \cup {cloned}
    /\ Cont(current) /\ BackToWait
    /\ UNCHANGED <<control, pendingSignal, stepping, bps, shown, requests, asked>>

HandleExitEvent ==
    /\ Got("exit") /\ Cont(current) /\ BackToWait
    /\ UNCHANGED <<control, engine, asked>>

HandleSigstop ==
    /\ Got("sigstop") /\ pauseRequested' = FALSE
    /\ IF pauseRequested /\ current \in known
       THEN /\ Tell("paused") /\ ProcessPendingBreakpoints
            /\ UNCHANGED target
       ELSE /\ Cont(current) /\ BackToWait
            /\ UNCHANGED <<paused, bps, shown, requests>>
    /\ UNCHANGED <<stepPending, pendingSignal, known, stepping, asked>>

\* cbExceptionEvent, which processes no requests; a thread not yet entered
\* goes on at once.
HandleSignal ==
    /\ Got("signal")
    /\ IF current \in known
       THEN /\ Tell("exception") /\ pendingSignal' = TRUE
            /\ UNCHANGED target
       ELSE /\ Cont(current) /\ BackToWait /\ UNCHANGED <<paused, pendingSignal>>
    /\ UNCHANGED <<stepPending, pauseRequested, known, stepping, bps, shown,
                   requests, asked>>

Trapped == tracer = "got" /\ why[current] \in {"trap", "step"}

\* Whatever traps next counts as the step: the flag is all that is asked.
HandleStep ==
    /\ Trapped /\ current \in known /\ current \in stepping
    /\ stepping' = stepping \ {current}
    /\ Tell("step") /\ ProcessPendingBreakpoints
    /\ asked' = asked \ {current}
    /\ UNCHANGED <<stepPending, pauseRequested, pendingSignal, known, target>>

\* The pc is moved back and the user told, whose requests are carried out.
IsHit == current \in mid /\ pc[current] \in bps

HandleBreakpoint ==
    /\ Trapped /\ current \in known \ stepping /\ IsHit
    /\ tracer' = "hit" /\ event' = "breakpoint" /\ from' = pc[current]
    /\ paused' = TRUE /\ ProcessPendingBreakpoints
    /\ mid' = mid \ {current}
    /\ UNCHANGED <<current, stepPending, pauseRequested, pendingSignal, known,
                   stepping, st, why, pc, tf, cloned, sigstop, killed, asked>>

\* A trap nobody knows.
HandleOther ==
    /\ Trapped /\ (current \notin known \/ (current \notin stepping /\ ~IsHit))
    /\ Cont(current) /\ BackToWait
    /\ UNCHANGED <<control, engine, asked>>

-----------------------------------------------------------------------------
(***************************************************************************)
(* handleSigtrap, the rest of it: off the breakpoint, before the user has  *)
(* answered.                                                               *)
(***************************************************************************)
\* The byte is put back, if it can be, and the thread stepped either way:
\* with the main thread running it steps into its own 0xCC again.
StepOff ==
    /\ tracer = "hit" /\ Held(current)
    /\ bps' = WithoutBreakpoint(from)
    /\ st' = [st EXCEPT ![current] = "running"] /\ why' = Going(current)
    /\ tf' = tf \cup {current} /\ stepping' = stepping \cup {current}
    /\ tracer' = "stepoff"
    /\ UNCHANGED <<current, event, from, control, pendingSignal, known, shown,
                   requests, pc, mid, cloned, sigstop, killed, asked>>

\* A thread killed meanwhile takes no step: the breakpoint is set again, if it
\* was deleted and can be, and the loop waits for the next news.
StepOffFails ==
    /\ tracer = "hit" /\ ~Held(current)
    /\ bps' \in {bps, bps \ {from}}
    /\ tracer' = "wait"
    /\ UNCHANGED <<current, event, from, control, pendingSignal, known, stepping,
                   shown, requests, target, asked>>

\* Then waitpid, for this thread alone.
SteppedOff(reason) == tracer = "stepoff" /\ st[current] = "stopped"
                                        /\ why[current] = reason

\* Mutant: the breakpoint is not put back after the step.
StepOffDoneForgetting ==
    /\ SteppedOff("step")
    /\ st' = [st EXCEPT ![current] = "held"] /\ stepping' = stepping \ {current}
    /\ tracer' = "told"
    /\ UNCHANGED <<current, event, from, control, pendingSignal, known, bps,
                   shown, requests, why, pc, mid, tf, cloned, sigstop, killed,
                   asked>>
\* Mutant: the step-off leaves its flag on the thread.
StepOffDoneKeepingFlag ==
    /\ SteppedOff("step")
    /\ st' = [st EXCEPT ![current] = "held"]
    /\ bps' = WithBreakpoint(from) /\ tracer' = "told"
    /\ UNCHANGED <<current, event, from, control, pendingSignal, known,
                   stepping, shown, requests, why, pc, mid, tf, cloned, sigstop,
                   killed, asked>>
\* A SIGTRAP, be it the step's or an event's: now the pause.
StepOffDone ==
    /\ \E r \in {"step", "trap", "clone", "exit"} : SteppedOff(r)
    /\ st' = [st EXCEPT ![current] = "held"] /\ stepping' = stepping \ {current}
    /\ bps' = WithBreakpoint(from) /\ tracer' = "told"
    /\ UNCHANGED <<current, event, from, control, pendingSignal, known, shown,
                   requests, why, pc, mid, tf, cloned, sigstop, killed, asked>>

\* Anything else is passed on to the thread, which goes on: no pause.
\* Mutant: it is not passed on.
StepOffInterruptedSuppressing ==
    /\ SteppedOff("signal") \/ SteppedOff("sigstop")
    /\ stepping' = stepping \ {current} /\ bps' = WithBreakpoint(from)
    /\ st' = [st EXCEPT ![current] = "running"] /\ tf' = tf \ {current}
    /\ why' = Going(current)
    /\ BackToWait
    /\ UNCHANGED <<control, pendingSignal, known, shown, requests, pc,
                   mid, cloned, sigstop, killed, asked>>
\* Mutant: the stop that interrupts the step is left unanswered.
StepOffInterruptedHolding ==
    /\ SteppedOff("signal") \/ SteppedOff("sigstop")
    /\ stepping' = stepping \ {current} /\ bps' = WithBreakpoint(from)
    /\ st' = [st EXCEPT ![current] = "held"] /\ BackToWait
    /\ UNCHANGED <<control, pendingSignal, known, shown, requests, why, pc,
                   mid, tf, cloned, sigstop, killed, asked>>
StepOffInterrupted ==
    /\ SteppedOff("signal") \/ SteppedOff("sigstop")
    /\ stepping' = stepping \ {current} /\ bps' = WithBreakpoint(from)
    /\ st' = [st EXCEPT ![current] = "running"] /\ tf' = tf \ {current}
    /\ why' = Going(current)
    /\ sigstop' = (sigstop \/ why[current] = "sigstop")
    /\ BackToWait
    /\ UNCHANGED <<control, pendingSignal, known, shown, requests, pc,
                   mid, cloned, killed, asked>>

StepOffExits == tracer = "stepoff" /\ Exit(current)

-----------------------------------------------------------------------------
(***************************************************************************)
(* pauseAndResume.                                                         *)
(***************************************************************************)
\* Every ten milliseconds of a pause.
PauseTick ==
    /\ tracer = "told" /\ paused /\ requests # <<>>
    /\ ProcessPendingBreakpoints
    /\ UNCHANGED <<tracing, control, pendingSignal, known, stepping, target,
                   asked>>

Resume ==
    /\ tracer = "told" /\ ~paused
    /\ stepPending' = FALSE /\ pendingSignal' = FALSE
    /\ Resumed(current, stepPending) /\ UNCHANGED sigstop
    /\ stepping' = IF stepPending /\ Held(current) THEN stepping \cup {current}
                                                  ELSE stepping
    /\ BackToWait
    /\ asked' = IF stepPending THEN asked \cup {current} ELSE asked
    /\ UNCHANGED <<paused, pauseRequested, known, bps, shown, requests>>

Tracer ==
    \/ LaunchFails \/ LaunchChild \/ FirstStop \/ SetOptionsFails
    \/ SystemBreakpoint
    \/ \E t \in Thread : WaitStops(t) \/ WaitExits(t)
    \/ HandleClone \/ HandleExitEvent \/ HandleSigstop \/ HandleSignal \/ HandleStep
    \/ HandleBreakpoint \/ HandleOther
    \/ StepOff \/ StepOffFails \/ StepOffDone \/ StepOffInterrupted \/ StepOffExits
    \/ PauseTick \/ Resume

-----------------------------------------------------------------------------
(***************************************************************************)
(* The other threads' calls.                                               *)
(***************************************************************************)
HasPid == tracer \notin {"launch", "done"}
Quiet == UNCHANGED <<tracing, engine>>

Continue ==
    /\ paused' = FALSE
    /\ Quiet /\ UNCHANGED <<stepPending, pauseRequested, target, asked>>

StepInto ==
    /\ stepPending' = TRUE /\ paused' = FALSE
    /\ Quiet /\ UNCHANGED <<pauseRequested, target, asked>>

Pause ==
    /\ HasPid /\ pauseRequested' = TRUE /\ sigstop' = TRUE
    /\ Quiet /\ UNCHANGED <<paused, stepPending, st, why, pc, mid, tf, cloned,
                            killed, asked>>

Stop ==
    /\ HasPid /\ paused' = FALSE /\ killed' = TRUE
    /\ Quiet /\ UNCHANGED <<stepPending, pauseRequested, st, why, pc, mid, tf,
                            cloned, sigstop, asked>>

\* DbgAdapter::toggleBreakpoint, by way of ElfBugSet- and DeleteBreakpoint.
ToggleBreakpoint(a) ==
    /\ known # {} /\ Len(requests) < MaxRequests
    /\ requests' = Append(requests, [addr |-> a, set |-> ~IsBreakpointEffective(a)])
    /\ UNCHANGED <<tracing, control, pendingSignal, known, stepping, bps,
                   shown, target, asked>>

Caller == Continue \/ StepInto \/ Pause \/ Stop
              \/ \E a \in Toggled : ToggleBreakpoint(a)

-----------------------------------------------------------------------------
(***************************************************************************)
(* The kernel and the target's own threads.                                *)
(***************************************************************************)
\* Past its PTRACE_EVENT_EXIT a thread executes nothing any more.
Running(t) == st[t] = "running" /\ why[t] # "exit" /\ ~killed
StopsFor(t, reason) ==
    /\ st' = [st EXCEPT ![t] = "stopped"] /\ why' = [why EXCEPT ![t] = reason]
Alone == UNCHANGED <<tracing, control, engine, asked>>

ExecuteTrap(t) ==
    /\ Running(t) /\ pc[t] \in bps
    /\ StopsFor(t, "trap") /\ mid' = mid \cup {t} /\ tf' = tf \ {t}
    /\ Alone /\ UNCHANGED <<pc, cloned, sigstop, killed>>

Execute(t) ==
    /\ Running(t) /\ pc[t] \notin bps
    /\ pc' = [pc EXCEPT ![t] = Succ(@)]
    /\ IF t \in tf THEN StopsFor(t, "step") ELSE UNCHANGED <<st, why>>
    /\ tf' = tf \ {t}
    /\ Alone /\ UNCHANGED <<mid, cloned, sigstop, killed>>

Fault(t) ==
    /\ Running(t) /\ pc[t] \in Faulty \ bps
    /\ StopsFor(t, "signal") /\ tf' = tf \ {t}
    /\ Alone /\ UNCHANGED <<pc, mid, cloned, sigstop, killed>>

\* PTRACE_O_TRACECLONE: the parent stops, and so does its child, each in its
\* own time.
Clone(t, new) ==
    /\ Running(t) /\ t = Main /\ st[new] = "none"
    /\ st' = [st EXCEPT ![t] = "stopped", ![new] = "stopped"]
    /\ why' = [why EXCEPT ![t] = "clone", ![new] = "sigstop"]
    /\ pc' = [pc EXCEPT ![new] = pc[t]]
    /\ cloned' = new /\ tf' = tf \ {t}
    /\ Alone /\ UNCHANGED <<mid, sigstop, killed>>

DeliverSigstop(t) ==
    /\ sigstop /\ Running(t) /\ sigstop' = FALSE
    /\ StopsFor(t, "sigstop") /\ tf' = tf \ {t}
    /\ Alone /\ UNCHANGED <<pc, mid, cloned, killed>>

\* The main thread's end is exit_group: the others go without a stop.
ExitEvent(t) ==
    /\ Running(t)
    /\ st' = [u \in Thread |-> IF u = t THEN "stopped"
                               ELSE IF t # Main \/ st[u] \in {"none", "dead"}
                               THEN st[u] ELSE "zombie"]
    /\ why' = [why EXCEPT ![t] = "exit"] /\ tf' = tf \ {t}
    /\ Alone /\ UNCHANGED <<pc, mid, cloned, sigstop, killed>>

End(t) ==
    /\ st[t] = "running" /\ why[t] = "exit"
    /\ st' = [st EXCEPT ![t] = "zombie"]
    /\ Alone /\ UNCHANGED <<why, pc, mid, tf, cloned, sigstop, killed>>

Killed ==
    /\ killed /\ \E t \in Thread : st[t] \in {"running", "stopped", "held"}
    /\ st' = [u \in Thread |-> IF st[u] \in {"none", "dead"} THEN st[u] ELSE "zombie"]
    /\ Alone /\ UNCHANGED <<why, pc, mid, tf, cloned, sigstop, killed>>

Kernel ==
    \/ \E t \in Thread : \/ ExecuteTrap(t) \/ Execute(t) \/ Fault(t)
                        \/ DeliverSigstop(t)
                        \/ ExitEvent(t) \/ End(t)
                        \/ \E new \in Thread \ {Main} : Clone(t, new)
    \/ Killed

Next == Tracer \/ Caller \/ Kernel

\* The tracer's thread runs, a pending signal is delivered to a thread that
\* runs, and the user answers pauses.
Fairness == /\ WF_vars(Tracer) /\ WF_vars(Killed)
            /\ WF_vars(\E t \in Thread : DeliverSigstop(t))
Answers == WF_vars(Continue)

Spec == Init /\ [][Next]_vars /\ Fairness /\ Answers

-----------------------------------------------------------------------------
(***************************************************************************)
(* What is promised.                                                       *)
(***************************************************************************)
Over == tracer = "done"
Ending == killed \/ why[Main] = "exit" \/ Over

\* What the user is shown as set is in the target, save the one breakpoint
\* that is being stepped off, whichever way that step ends.
NoBreakpointLost ==
    ~Ending => shown \subseteq IF tracer = "stepoff" THEN bps \cup {from} ELSE bps

\* cbStep is only ever the answer to a StepInto(): the step the engine makes
\* to get off a breakpoint is not mistaken for one.
NoUnaskedStep ==
    [][tracer = "got" /\ tracer' = "told" /\ event' = "step"
           => current \in asked]_vars

\* A pause asked for and not yet begun has its SIGSTOP on the way.
PauseIsOnItsWay ==
    pauseRequested /\ ~Ending =>
        sigstop \/ \E t \in Thread :
                      st[t] \in {"stopped", "held"} /\ why[t] = "sigstop"

\* debugLoop() ends when the target has: never with a thread of it alive.
OverMeansDead ==
    Over => \A t \in Thread : st[t] \notin {"running", "stopped", "held"}

\* A thread waitpid has handed over is not kept for ever: each path through
\* the handlers resumes it, once the user has answered where it asks the user.
StopsAreAnswered == \A t \in Thread : Held(t) ~> ~Held(t)
=============================================================================

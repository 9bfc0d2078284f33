------------------------------ MODULE StepOff ------------------------------
(***************************************************************************)
(* Getting off a software breakpoint (Debugger::handleException).  The     *)
(* trap has to be out of the target while the instruction under it runs:   *)
(* resuming from a breakpoint disarms it, arms a single step, and the      *)
(* step's own trap puts it back, unseen by a caller who only asked to      *)
(* continue.  The kernel queues SIGTRAPs behind the exceptions it has had  *)
(* answered, and the loop tells them from the step by where the program    *)
(* counter is.  All of this is remembered per engine, not per thread.      *)
(*                                                                         *)
(* Every write the cycle needs may be refused by the target: the loop says *)
(* so (cbInternalError) and goes on, and what it has said is kept here as  *)
(* history.  Callers edit the breakpoints at any time.                     *)
(*                                                                         *)
(* One exception is handled in one step, and so is a decision: what the    *)
(* hand-off between loop and callers may do meanwhile is ExceptionLoop's.  *)
(***************************************************************************)
EXTENDS Integers

CONSTANTS
    Thread,    \* the threads of the target
    Main,      \* the one that raises the first exception
    CodeSize,  \* the program is a cycle of this many instructions
    Builds     \* what the engine may be built for: see the assumption

Address == 0 .. CodeSize - 1

\* arm64: a BRK and a completed step arrive alike (code 1), and a BRK leaves
\* the program counter where it is; on x86-64 it is one byte past the INT3.
\* faulty: the instructions that may fault when executed.
ASSUME StepOffAssumption ==
    /\ Main \in Thread
    /\ CodeSize \in Nat \ {0, 1}
    /\ Builds \subseteq [arm64 : BOOLEAN, faulty : SUBSET Address]

Nowhere == -1

\* One byte into the instruction at a, numbered after the instructions.
Past(a) == CodeSize + a
Register == Address \cup {Past(a) : a \in Address}
Succ(a) == (a + 1) % CodeSize

VARIABLES
    build,              \* the one of Builds that runs
    loop,               \* "receive", "parked", or "ended"
    current,            \* the thread of the present stop
    event,              \* the callback that reported it
    stepArmed,          \* mStepArmed
    stoppedAt,          \* mStoppedAtBreakpoint, Nowhere for 0
    steppingOver,       \* mSteppingOverBreakpoint
    stepWasRequested,   \* mStepWasRequested
    steppingOffFrom,    \* mSteppingOffFromPc, Nowhere for 0
    queuedTrapExpected, \* mQueuedSigTrapExpected
    seenFirstStop,      \* mSeenFirstStop
    table,              \* the software breakpoints the user asked for
    armed,              \* the addresses that carry a trap
    pc,                 \* each thread's program counter
    singleStep,         \* its single-step flag
    exc,                \* the exception it is blocked on
    signal,             \* the signal the kernel has queued for it
    asked,              \* a StepInto since the last cbStep (history)
    lost,               \* breakpoints reported as not put back (history)
    stray               \* threads whose flag is reported as not cleared (history)

book == <<stepArmed, stoppedAt, steppingOver, stepWasRequested,
          steppingOffFrom, queuedTrapExpected, seenFirstStop>>
thread  == <<pc, singleStep, exc, signal>>
history == <<asked, lost, stray>>
vars == <<build, loop, current, event, book, table, armed, thread, history>>

\* EXC_BREAKPOINT for a trap and for a step, SIGTRAP, SIGCONT and SIGSTOP
\* passed through as EXC_SOFTWARE, and a fault.
Breakpoints == {"bp", "step"}
Exception   == Breakpoints \cup {"trap", "cont", "stop", "fault"}
Event       == {"none", "first", "breakpoint", "step", "exception"}

TypeOK ==
    /\ loop \in {"receive", "parked", "ended"}
    /\ current \in Thread /\ event \in Event
    /\ stepArmed \in BOOLEAN /\ steppingOver \in BOOLEAN
    /\ stepWasRequested \in BOOLEAN /\ queuedTrapExpected \in BOOLEAN
    /\ seenFirstStop \in BOOLEAN
    /\ stoppedAt \in Address \cup {Nowhere}
    /\ steppingOffFrom \in Register \cup {Nowhere}
    /\ table \in [Address -> {"none", "enabled", "disabled"}]
    /\ armed \subseteq Address
    /\ pc \in [Thread -> Register]
    /\ singleStep \in [Thread -> BOOLEAN]
    /\ exc \in [Thread -> Exception \cup {"none"}]
    /\ signal \in [Thread -> {"none", "trap", "cont"}]
    /\ asked \in BOOLEAN /\ lost \subseteq Address /\ stray \subseteq Thread
    /\ build \in Builds

\* The handshake of Start(): the target's first exception is the SIGCONT that
\* resumes it, or a SIGSTOP with the SIGCONT behind it.
Handshake(t) == IF t = Main THEN {<<"cont", "none">>, <<"stop", "cont">>}
                            ELSE {<<"none", "none">>}

Init ==
    /\ build \in Builds
    /\ loop = "receive" /\ current = Main /\ event = "none"
    /\ stepArmed = FALSE /\ stoppedAt = Nowhere /\ steppingOver = FALSE
    /\ stepWasRequested = FALSE /\ steppingOffFrom = Nowhere
    /\ queuedTrapExpected = FALSE /\ seenFirstStop = FALSE
    /\ table = [a \in Address |-> "none"] /\ armed = {}
    /\ pc = [t \in Thread |-> 0]
    /\ singleStep = [t \in Thread |-> FALSE]
    /\ \E first \in Handshake(Main) :
           /\ exc = [t \in Thread |-> IF t = Main THEN first[1] ELSE "none"]
           /\ signal = [t \in Thread |-> IF t = Main THEN first[2] ELSE "none"]
    /\ asked = FALSE /\ lost = {} /\ stray = {}

-----------------------------------------------------------------------------
(***************************************************************************)
(* handleException(), up to the point where it parks or returns; "read"    *)
(* says whether the thread's registers could be read.                      *)
(***************************************************************************)
\* arch::IsSingleStepTrap.
IsSingleStepTrap(e) == e \in {"step", "trap"} \/ (build.arm64 /\ e = "bp")

Completion(t) == stepArmed /\ IsSingleStepTrap(exc[t])

\* Mutant: any completion inside a cycle is taken for the leftover.
LeftoverAlways(t, read) == Completion(t) /\ steppingOver

\* The signal the stop itself queued: nothing has executed since.
Leftover(t, read) ==
    /\ Completion(t)
    /\ steppingOver
    /\ steppingOffFrom # Nowhere
    /\ read /\ pc[t] = steppingOffFrom

\* Answering an EXC_BREAKPOINT may queue a SIGTRAP for the thread.
Reply(t) ==
    /\ exc' = [exc EXCEPT ![t] = "none"]
    /\ \E s \in IF exc[t] \in Breakpoints THEN {"none", "trap"} ELSE {signal[t]} :
           signal' = [signal EXCEPT ![t] = s]

\* Breakpoints::Arm, over what is armed: a breakpoint switched off or forgotten
\* stays out, and a refusal is reported.
PutBack(others, a) ==
    \/ /\ armed' = others \cup {b \in {a} \ {Nowhere} : table[b] = "enabled"}
       /\ lost' = lost \ {a}
    \/ /\ a # Nowhere /\ table[a] = "enabled" /\ a \notin others
       /\ armed' = others
       /\ lost' = lost \cup {a}

\* Mutant: the thread's flag is left set.
CompleteStepKeepingFlag(t) ==
    /\ stepArmed' = (stepArmed /\ ~Completion(t))
    /\ UNCHANGED <<singleStep, stray>>

\* The engine's own flag goes first; the thread's may refuse to.
CompleteStep(t) ==
    /\ stepArmed' = (stepArmed /\ ~Completion(t))
    /\ \/ /\ Completion(t)
          /\ singleStep' = [singleStep EXCEPT ![t] = FALSE]
          /\ stray' = stray \ {t}
       \/ Completion(t) /\ stray' = stray \cup {t} /\ UNCHANGED singleStep
       \/ ~Completion(t) /\ UNCHANGED <<singleStep, stray>>

EndsCycle(t, read) == steppingOver /\ Completion(t) /\ ~Leftover(t, read)

\* Mutant: the breakpoint is not put back.
EndCycleUnarmed(t, read) ==
    IF EndsCycle(t, read)
    THEN /\ steppingOver' = FALSE
         /\ steppingOffFrom' = Nowhere
         /\ stepWasRequested' = FALSE
         /\ UNCHANGED <<armed, lost>>
    ELSE UNCHANGED <<steppingOver, armed, lost, steppingOffFrom, stepWasRequested>>

EndCycle(t, read) ==
    IF EndsCycle(t, read)
    THEN /\ steppingOver' = FALSE
         /\ PutBack(armed, stoppedAt)
         /\ steppingOffFrom' = Nowhere
         /\ stepWasRequested' = FALSE
    ELSE UNCHANGED <<steppingOver, armed, lost, steppingOffFrom, stepWasRequested>>

AnswerLeftover(t, read) ==
    /\ Leftover(t, read)
    /\ Reply(t)
    /\ UNCHANGED <<loop, current, event, book, table, armed, pc, singleStep,
                   build, history>>

AnswerStepOff(t, read) ==
    /\ EndsCycle(t, read)
    /\ ~stepWasRequested
    /\ CompleteStep(t)
    /\ EndCycle(t, read)
    /\ stoppedAt' = Nowhere
    /\ Reply(t)
    /\ UNCHANGED <<loop, current, event, queuedTrapExpected, seenFirstStop,
                   table, pc, build, asked>>

\* Mutant: the end of a cycle nobody stepped is reported.
GoesAlways(t, read) == ~Leftover(t, read)

\* What is left after the two silent answers above.
Goes(t, read) == ~Leftover(t, read) /\ (EndsCycle(t, read) => stepWasRequested)

\* The step has been disarmed by the time this asks whether one is armed.
QueuedTrapArrived(t) ==
    /\ queuedTrapExpected
    /\ ~(stepArmed /\ ~Completion(t))
    /\ exc[t] = "trap"

AnswerQueuedTrap(t, read) ==
    /\ Goes(t, read)
    /\ QueuedTrapArrived(t)
    /\ CompleteStep(t)
    /\ EndCycle(t, read)
    /\ stoppedAt' = IF EndsCycle(t, read) THEN Nowhere ELSE stoppedAt
    /\ queuedTrapExpected' = FALSE
    /\ Reply(t)
    /\ UNCHANGED <<loop, current, event, seenFirstStop, table, pc, build, asked>>

AnswerSigcont(t) ==
    /\ exc[t] = "cont"
    /\ seenFirstStop
    /\ queuedTrapExpected' = FALSE
    /\ Reply(t)
    /\ UNCHANGED <<loop, current, event, stepArmed, stoppedAt, steppingOver,
                   stepWasRequested, steppingOffFrom, seenFirstStop, table,
                   armed, pc, singleStep, build, history>>

\* A hit is known by its address alone, which on x86-64 is looked for one byte
\* before the program counter.
HitAt(t) ==
    IF build.arm64 THEN pc[t]
    ELSE IF pc[t] \in Address THEN Nowhere ELSE pc[t] - CodeSize

Hit(t, read) ==
    /\ ~Completion(t)
    /\ seenFirstStop
    /\ exc[t] \in Breakpoints
    /\ read /\ HitAt(t) \in armed

Classify(t, read) ==
    IF Hit(t, read) THEN "breakpoint"
    ELSE IF Completion(t) THEN "step"
    ELSE IF ~seenFirstStop THEN "first" ELSE "exception"

\* The thread of a hit is put back onto its breakpoint, or refuses it.
Rewind(t, read) ==
    \/ Hit(t, read) /\ pc' = [pc EXCEPT ![t] = HitAt(t)]
    \/ UNCHANGED pc

ReportStop(t, read) ==
    /\ Goes(t, read)
    /\ ~QueuedTrapArrived(t)
    /\ ~(exc[t] = "cont" /\ seenFirstStop)
    /\ CompleteStep(t)
    /\ EndCycle(t, read)
    /\ queuedTrapExpected' = (exc[t] \in Breakpoints)
    /\ loop' = "parked"
    /\ current' = t
    /\ event' = Classify(t, read)
    /\ Rewind(t, read)
    /\ stoppedAt' = IF Hit(t, read) THEN HitAt(t)
                    ELSE IF EndsCycle(t, read) THEN Nowhere ELSE stoppedAt
    /\ seenFirstStop' = (seenFirstStop \/ Classify(t, read) = "first")
    /\ asked' = (asked /\ Classify(t, read) # "step")
    /\ UNCHANGED <<build, table, exc, signal>>

Handle(t) ==
    /\ loop = "receive"
    /\ exc[t] # "none"
    /\ \E read \in BOOLEAN :
           \/ AnswerLeftover(t, read) \/ AnswerStepOff(t, read)
           \/ AnswerQueuedTrap(t, read) \/ AnswerSigcont(t) \/ ReportStop(t, read)

(***************************************************************************)
(* The rest of handleException(), from the decision to the reply.          *)
(***************************************************************************)
\* The addresses Breakpoints::Disarm finds an entry for.
Listed == {a \in Address : table[a] # "none"}

\* The trap is taken out, the step armed, and where it starts is noted.
BeginCycle(step) ==
    /\ stoppedAt \in Listed
    /\ armed' = armed \ {stoppedAt}
    /\ singleStep' = [singleStep EXCEPT ![current] = TRUE]
    /\ steppingOffFrom' \in {pc[current], Nowhere}
    /\ stepArmed' = TRUE
    /\ steppingOver' = TRUE
    /\ stepWasRequested' = step
    /\ UNCHANGED <<stoppedAt, lost>>

\* The thread is at no breakpoint, or its trap does not come out, or the step
\* is refused and the trap goes back in.  Then StepInto tries the step alone.
NoCycle(step) ==
    /\ \/ stoppedAt \notin Listed \ armed /\ UNCHANGED <<armed, lost>>
       \/ stoppedAt \in Listed /\ PutBack(armed \ {stoppedAt}, stoppedAt)
    /\ stoppedAt' = Nowhere
    /\ \E stepping \in {FALSE, step} :
           /\ stepArmed' = (stepping \/ stepArmed)
           /\ singleStep' = IF stepping THEN [singleStep EXCEPT ![current] = TRUE]
                                        ELSE singleStep
    /\ UNCHANGED <<steppingOver, stepWasRequested, steppingOffFrom>>

Resume(step) ==
    /\ loop = "parked"
    /\ loop' = "receive"
    /\ event' = "none"
    /\ BeginCycle(step) \/ NoCycle(step)
    /\ asked' = (step \/ asked)
    /\ Reply(current)
    /\ UNCHANGED <<build, current, queuedTrapExpected, seenFirstStop, table, pc,
                   stray>>

Continue == Resume(FALSE)
StepInto == Resume(TRUE)

\* Stop, at a stop or while the target runs: the traps are taken out, a step
\* armed at the stop is disarmed, and the target is killed; both may be refused.
Stop ==
    /\ loop # "ended"
    /\ loop' = "ended"
    /\ armed' \in SUBSET armed
    /\ stepArmed' = (stepArmed /\ loop # "parked")
    /\ \/ UNCHANGED singleStep
       \/ /\ loop = "parked" /\ stepArmed
          /\ singleStep' = [singleStep EXCEPT ![current] = FALSE]
    /\ UNCHANGED <<current, event, stoppedAt, steppingOver, stepWasRequested,
                   steppingOffFrom, queuedTrapExpected, seenFirstStop, table,
                   pc, exc, signal, build, history>>

-----------------------------------------------------------------------------
(***************************************************************************)
(* Callers editing the table through the API, whenever they like.  An edit *)
(* the target refuses changes nothing.                                     *)
(***************************************************************************)
\* Add, SetEnabled(true): also for a breakpoint that a cycle has taken out.
Enable(a) ==
    /\ table' = [table EXCEPT ![a] = "enabled"]
    /\ armed' = armed \cup {a}

\* Remove, SetEnabled(false).
Withdraw(a) ==
    /\ table[a] # "none"
    /\ \E s \in {"none", "disabled"} : table' = [table EXCEPT ![a] = s]
    /\ armed' = armed \ {a}

Edit(a) ==
    /\ loop # "ended"
    /\ Enable(a) \/ Withdraw(a)
    /\ lost' = lost \ {a}
    /\ UNCHANGED <<loop, current, event, book, thread, build, asked, stray>>

(***************************************************************************)
(* The target.  A queued signal is delivered before the next instruction;  *)
(* a completed step arrives as EXC_BREAKPOINT or as a SIGTRAP.             *)
(***************************************************************************)
Runs(t) == loop # "ended" /\ seenFirstStop /\ exc[t] = "none"

Raise(t, e) == exc' = [exc EXCEPT ![t] = e]

Deliver(t) ==
    /\ Runs(t)
    /\ signal[t] # "none"
    /\ Raise(t, signal[t])
    /\ signal' = [signal EXCEPT ![t] = "none"]
    /\ UNCHANGED <<loop, current, event, book, table, armed, pc, singleStep,
                   build, history>>

Trap(t) ==
    /\ Runs(t) /\ signal[t] = "none"
    /\ pc[t] \in armed
    /\ Raise(t, "bp")
    /\ pc' = IF build.arm64 THEN pc ELSE [pc EXCEPT ![t] = Past(pc[t])]
    /\ UNCHANGED <<loop, current, event, book, table, armed, singleStep,
                   signal, build, history>>

\* What starts one byte into an instruction may do anything.
Fault(t) ==
    /\ Runs(t) /\ signal[t] = "none"
    /\ pc[t] \in (build.faulty \ armed) \cup (Register \ Address)
    /\ Raise(t, "fault")
    /\ UNCHANGED <<loop, current, event, book, table, armed, pc, singleStep,
                   signal, build, history>>

Execute(t) ==
    /\ Runs(t) /\ signal[t] = "none"
    /\ pc[t] \notin armed
    /\ \E a \in IF pc[t] \in Address THEN {Succ(pc[t])} ELSE Address :
           pc' = [pc EXCEPT ![t] = a]
    /\ IF singleStep[t] THEN \E e \in {"step", "trap"} : Raise(t, e)
                        ELSE UNCHANGED exc
    /\ UNCHANGED <<loop, current, event, book, table, armed, singleStep, signal,
                   build, history>>

TargetStep(t) == Deliver(t) \/ Trap(t) \/ Fault(t) \/ Execute(t)

-----------------------------------------------------------------------------
Next ==
    \/ \E t \in Thread : Handle(t) \/ TargetStep(t)
    \/ Continue \/ StepInto \/ Stop
    \/ \E a \in Address : Edit(a)

\* The loop answers what it receives, and a thread that can run does.
Fairness ==
    \A t \in Thread : WF_vars(Handle(t)) /\ WF_vars(Trap(t) \/ Deliver(t) \/ Execute(t))

Spec == Init /\ [][Next]_vars /\ Fairness

-----------------------------------------------------------------------------
\* No breakpoint is lost in silence, whatever interrupts a step-off cycle and
\* whatever the target refuses: the ones in the target are those the user has
\* enabled, but for the one that a cycle under way has taken out and those the
\* engine has reported as not put back.
NoBreakpointLost ==
    loop # "ended" =>
        /\ \A a \in armed : table[a] = "enabled"
        /\ \A a \in Address \ (armed \cup lost) :
               table[a] = "enabled" => steppingOver /\ a = stoppedAt

\* A thread is single-stepped only while the engine waits for a step, or after
\* it has reported that the flag could not be cleared: no flag is left behind
\* in silence to trap a thread nobody is stepping.
NoStrayStep ==
    loop # "ended" => \A t \in Thread : singleStep[t] => stepArmed \/ t \in stray

\* A Continue that starts on a breakpoint does not look like a step: cbStep is
\* only ever called for a StepInto.
NoUnaskedStep == [][event' = "step" /\ event # "step" => asked]_vars

\* The cycle makes progress: it ends, or the stop that interrupts it is
\* reported, however many queued signals arrive on the way.  The exception is
\* an arm64 target that finds the trap under it again: there its BRK passes for
\* a leftover, is answered, and comes back.
CycleEnds ==
    steppingOver /\ loop = "receive" ~>
        \/ ~steppingOver
        \/ loop # "receive"
        \/ build.arm64 /\ steppingOffFrom \in armed

=============================================================================

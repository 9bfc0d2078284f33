--------------------------- MODULE ElfEngineProofs ---------------------------
(***************************************************************************)
(* Proofs about ElfEngine, for any threads, any program and any requests:  *)
(* that the tracer's loop ends only when the target has, that cbStep is    *)
(* only for a StepInto, that a pause asked for is on its way and that no   *)
(* breakpoint is lost.  Each needs its own strengthening: what the target  *)
(* can be before the first pause (Launching), whose single-step flag may   *)
(* be up while the tracer steps off a breakpoint (StepsAsked), that the    *)
(* SIGSTOP on its way is not the one the user has just been told of        *)
(* (PauseIsAhead), and that the thread that is being stepped off its       *)
(* breakpoint lives until that is done, with the memory as writable as it  *)
(* was when the breakpoint was removed (StepsOffAlive).  The types come    *)
(* last, with whom a flag may be left on (Entered).                        *)
(***************************************************************************)
EXTENDS ElfEngine, TLAPS, WellFoundedInduction

USE ElfEngineAssumption
USE DEF control, engine, target, tracing

\* The part of the types the argument needs.
Shape ==
    /\ current \in Thread /\ cloned \in Thread
    /\ st \in [Thread -> {"none", "running", "stopped", "held", "zombie", "dead"}]
    /\ why \in [Thread -> Reason]

\* Before its first pause the target is its main thread, which has not run.
Launching ==
    /\ tracer \in {"launch", "first", "setup"} =>
           /\ current = Main /\ why[Main] = "none"
           /\ \A t \in Thread \ {Main} : st[t] = "none"
    /\ tracer = "launch" => st[Main] = "none"
    /\ tracer = "first" => st[Main] \in {"stopped", "zombie"}
    /\ tracer = "setup" => st[Main] \in {"held", "zombie"}

\* A flag is up for a StepInto, or for the step off a breakpoint.
StepsAsked == stepping \subseteq asked \cup (IF tracer = "stepoff" THEN {current} ELSE {})

\* The thread being handled does not run.
InHand == tracer \in {"got", "hit", "told"} => st[current] # "running"

\* A thread that has stopped for the SIGSTOP and has not been handled.
Carries(t) == /\ st[t] \in {"stopped", "held"} /\ why[t] = "sigstop"
              /\ tracer \in {"hit", "told"} => t # current

PauseIsAhead ==
    pauseRequested /\ ~Ending => sigstop \/ \E t \in Thread : Carries(t)

-----------------------------------------------------------------------------
(***************************************************************************)
(* What the steps keep, one kind of step after the other.                  *)
(***************************************************************************)
LEMMA ResumedShape ==
    ASSUME Shape, NEW single, Resumed(current, single)
    PROVE  /\ st' \in [Thread -> {"none", "running", "stopped", "held", "zombie", "dead"}]
           /\ why' \in [Thread -> Reason] /\ cloned' = cloned
           /\ \A t \in Thread \ {current} : st'[t] = st[t] /\ why'[t] = why[t]
           /\ killed' = killed
           /\ why[current] = "exit" => why'[current] = "exit"
BY DEF Resumed, Going, Shape, Reason

LEMMA ExitShape ==
    ASSUME Shape, NEW t \in Thread, Exit(t)
    PROVE  /\ st' = [st EXCEPT ![t] = "dead"] /\ why' = [why EXCEPT ![t] = "none"]
           /\ st[t] = "zombie" /\ Shape'
           /\ UNCHANGED <<current, pauseRequested, sigstop, killed>>
           /\ t = Main => tracer' = "done" /\ \A u \in Thread \ {Main} : st[u] \in {"none", "dead"}
           /\ t # Main => tracer' = "wait"
           /\ stepping' = stepping \ {t} /\ asked' = asked \ {t}
BY DEF Exit, Dies, Reportable, ProcessExit, ThreadExit, Shape, Reason


IInv == Shape /\ Launching /\ OverMeansDead /\ InHand /\ StepsAsked /\ PauseIsAhead

\* The launch, up to the system breakpoint.
LEMMA LaunchIInv ==
    ASSUME IInv, LaunchFails \/ LaunchChild \/ FirstStop \/ SetOptionsFails \/ SystemBreakpoint
    PROVE  IInv'
<1> USE DEF IInv
<1>1. CASE LaunchFails
    BY <1>1 DEF LaunchFails, Shape, Launching, OverMeansDead, InHand, Over, StepsAsked, PauseIsAhead, Ending
<1>2. CASE LaunchChild
    <2>1. Shape' /\ Launching'
        BY <1>2 DEF LaunchChild, Shape, Launching
    <2>2. StepsAsked' /\ InHand' /\ OverMeansDead'
        BY <1>2 DEF LaunchChild, StepsAsked, OverMeansDead, InHand, Over
    <2>3. \A t \in Thread : ~Carries(t)
        BY <1>2 DEF LaunchChild, Launching, Carries
    <2>4. PauseIsAhead'
        BY <1>2, <2>3 DEF LaunchChild, PauseIsAhead, Ending, Over
    <2> QED
        BY <2>1, <2>2, <2>4
<1>3. CASE FirstStop
    <2>1. Shape' /\ Launching'
        BY <1>3 DEF FirstStop, Shape, Launching
    <2>2. StepsAsked' /\ InHand' /\ OverMeansDead'
        BY <1>3 DEF FirstStop, Shape, Launching, StepsAsked, OverMeansDead, InHand, Over
    <2>3. \A t \in Thread : ~Carries(t)
        BY <1>3 DEF FirstStop, Launching, Carries
    <2>4. PauseIsAhead'
        BY <1>3, <2>3 DEF FirstStop, PauseIsAhead, Ending, Over
    <2> QED
        BY <2>1, <2>2, <2>4
<1>4. CASE SetOptionsFails
    BY <1>4 DEF SetOptionsFails, Held, Shape, Launching, OverMeansDead, InHand, Over, StepsAsked,
                PauseIsAhead, Ending
<1>5. CASE SystemBreakpoint
    <2>1. Shape' /\ Launching' /\ StepsAsked' /\ InHand' /\ OverMeansDead'
        BY <1>5 DEF SystemBreakpoint, Shape, Launching, StepsAsked, OverMeansDead, InHand, Over
    <2>2. \A t \in Thread : ~Carries(t)
        BY <1>5 DEF SystemBreakpoint, Launching, Carries
    <2>3. PauseIsAhead'
        BY <1>5, <2>2 DEF SystemBreakpoint, PauseIsAhead, Ending, Over
    <2> QED
        BY <2>1, <2>3
<1> QED
    BY <1>1, <1>2, <1>3, <1>4, <1>5

\* A thread's news are taken: it has stopped, or it has ended.
LEMMA WaitIInv == ASSUME IInv, NEW t \in Thread, WaitStops(t) PROVE IInv'
<1> USE DEF IInv, WaitStops
<1>1. Shape' /\ Launching' /\ StepsAsked' /\ InHand' /\ OverMeansDead'
    BY DEF Shape, Launching, StepsAsked, OverMeansDead, InHand, Over
<1>2. \A u \in Thread : Carries(u) => Carries(u)'
    BY DEF Carries, Shape
<1>3. Ending => Ending'
    BY DEF Ending, Over
<1> QED
    BY <1>1, <1>2, <1>3 DEF PauseIsAhead

LEMMA ExitIInv ==
    ASSUME IInv, NEW t \in Thread, Exit(t), tracer \in {"wait", "stepoff"},
           tracer = "stepoff" => t = current
    PROVE  IInv'
<1> USE DEF IInv
<1>1. Shape' /\ Launching'
    BY ExitShape DEF Launching
<1>2. OverMeansDead' /\ InHand'
    BY ExitShape DEF OverMeansDead, InHand, Over, Shape
<1>3. StepsAsked'
    BY ExitShape DEF StepsAsked
<1>4. PauseIsAhead'
    <2>1. CASE t = Main
        BY <2>1, ExitShape DEF PauseIsAhead, Ending, Over
    <2>2. CASE t # Main
        <3>1. \A u \in Thread : Carries(u) => Carries(u)'
            BY <2>2, ExitShape DEF Carries, Shape
        <3>2. Ending => Ending'
            BY <2>2, ExitShape DEF Ending, Over, Shape
        <3> QED
            BY <3>1, <3>2, ExitShape DEF PauseIsAhead
    <2> QED
        BY <2>1, <2>2
<1> QED
    BY <1>1, <1>2, <1>3, <1>4

\* A stop that is answered at once: the thread goes on, and it was not the one
\* that carried the pause.
LEMMA GoesOnIInv ==
    ASSUME IInv, NEW single, Resumed(current, single), current' = Main, tracer' = "wait",
           tracer \in {"got", "told"}, Carries(current) => ~pauseRequested',
           stepping' \subseteq asked', pauseRequested' => pauseRequested,
           sigstop' = sigstop
    PROVE  IInv'
<1> USE DEF IInv
<1>1. Shape'
    BY ResumedShape DEF Shape
<1>2. Launching' /\ OverMeansDead' /\ InHand' /\ StepsAsked'
    BY DEF Launching, OverMeansDead, InHand, Over, StepsAsked
<1>3. \A t \in Thread : Carries(t) /\ t # current => Carries(t)'
    BY ResumedShape DEF Carries
<1>4. Ending => Ending'
    BY ResumedShape DEF Ending, Over, Shape
<1> QED
    BY <1>1, <1>2, <1>3, <1>4 DEF PauseIsAhead

\* A stop the user is told of.
LEMMA ToldIInv ==
    ASSUME IInv, tracer = "got", tracer' = "told", UNCHANGED <<current, target>>,
           stepping' \subseteq asked', pauseRequested' => pauseRequested /\ why[current] # "sigstop"
    PROVE  IInv'
<1> USE DEF IInv
<1>1. Shape' /\ Launching' /\ OverMeansDead' /\ InHand' /\ StepsAsked'
    BY DEF Shape, Launching, OverMeansDead, InHand, Over, StepsAsked
<1>2. \A t \in Thread : Carries(t) /\ why[current] # "sigstop" => Carries(t)'
    BY DEF Carries
<1>3. Ending => Ending'
    BY DEF Ending, Over
<1> QED
    BY <1>1, <1>2, <1>3 DEF PauseIsAhead

LEMMA HandlersIInv ==
    ASSUME IInv,
           HandleClone \/ HandleExitEvent \/ HandleSigstop \/ HandleSignal \/ HandleStep \/ HandleOther
    PROVE  IInv'
<1> USE DEF IInv
<1>1. CASE HandleClone
    BY <1>1, GoesOnIInv DEF HandleClone, Got, Cont, BackToWait, Carries, StepsAsked
<1>2. CASE HandleExitEvent
    BY <1>2, GoesOnIInv DEF HandleExitEvent, Got, Cont, BackToWait, Carries, StepsAsked
<1>3. CASE HandleSigstop
    <2>1. stepping' \subseteq asked' /\ pauseRequested' = FALSE /\ tracer = "got"
        BY <1>3 DEF HandleSigstop, Got, StepsAsked
    <2>2. CASE pauseRequested /\ current \in known
        <3>1. tracer' = "told" /\ UNCHANGED <<current, target>>
            BY <1>3, <2>2 DEF HandleSigstop, Tell
        <3> QED
            BY <2>1, <3>1, ToldIInv
    <2>3. CASE ~(pauseRequested /\ current \in known)
        <3>1. Resumed(current, FALSE) /\ sigstop' = sigstop
            BY <1>3, <2>3 DEF HandleSigstop, Cont
        <3>2. current' = Main /\ tracer' = "wait"
            BY <1>3, <2>3 DEF HandleSigstop, BackToWait
        <3> QED
            BY <2>1, <3>1, <3>2, GoesOnIInv
    <2> QED
        BY <2>2, <2>3
<1>4. CASE HandleSignal
    <2>1. /\ stepping' \subseteq asked' /\ pauseRequested' = pauseRequested
          /\ tracer = "got" /\ why[current] = "signal"
        BY <1>4 DEF HandleSignal, Got, StepsAsked
    <2>2. CASE current \in known
        <3>1. tracer' = "told" /\ UNCHANGED <<current, target>>
            BY <1>4, <2>2 DEF HandleSignal, Tell
        <3> QED
            BY <2>1, <3>1, ToldIInv
    <2>3. CASE current \notin known
        <3>1. Resumed(current, FALSE) /\ sigstop' = sigstop
            BY <1>4, <2>3 DEF HandleSignal, Cont
        <3>2. current' = Main /\ tracer' = "wait"
            BY <1>4, <2>3 DEF HandleSignal, BackToWait
        <3> QED
            BY <2>1, <3>1, <3>2, GoesOnIInv DEF Carries
    <2> QED
        BY <2>2, <2>3
<1>5. CASE HandleStep
    BY <1>5, ToldIInv DEF HandleStep, Trapped, Tell, StepsAsked
<1>6. CASE HandleOther
    BY <1>6, GoesOnIInv DEF HandleOther, Trapped, Cont, BackToWait, Carries, StepsAsked
<1> QED
    BY <1>1, <1>2, <1>3, <1>4, <1>5, <1>6

\* The step off a breakpoint is begun, and ends by whatever comes.
LEMMA HandleBreakpointIInv == ASSUME IInv, HandleBreakpoint PROVE IInv'
<1> USE DEF IInv, HandleBreakpoint, Trapped
<1>1. Shape' /\ Launching' /\ OverMeansDead' /\ InHand' /\ StepsAsked'
    BY DEF Shape, Launching, OverMeansDead, InHand, Over, StepsAsked
<1>2. \A t \in Thread : Carries(t) => Carries(t)'
    BY DEF Carries
<1>3. Ending => Ending'
    BY DEF Ending, Over
<1> QED
    BY <1>1, <1>2, <1>3 DEF PauseIsAhead

LEMMA StepBegunIInv == ASSUME IInv, StepOff \/ StepOffFails PROVE IInv'
<1> USE DEF IInv
<1>1. CASE StepOff
    <2> USE <1>1 DEF StepOff
    <2>1. Shape'
        BY DEF Going, Shape, Reason
    <2>2. Launching' /\ OverMeansDead' /\ InHand' /\ StepsAsked'
        BY DEF Launching, OverMeansDead, InHand, Over, StepsAsked
    <2>3. \A t \in Thread : Carries(t) => Carries(t)'
        BY DEF Carries, Going, Shape
    <2>4. Ending => Ending'
        BY DEF Ending, Over, Going, Shape
    <2> QED
        BY <2>1, <2>2, <2>3, <2>4 DEF PauseIsAhead
<1>2. CASE StepOffFails
    <2> USE <1>2 DEF StepOffFails
    <2>1. Shape' /\ Launching' /\ OverMeansDead' /\ InHand' /\ StepsAsked'
        BY DEF Shape, Launching, OverMeansDead, InHand, Over, StepsAsked
    <2>2. \A t \in Thread : Carries(t) => Carries(t)'
        BY DEF Carries
    <2>3. Ending => Ending'
        BY DEF Ending, Over
    <2> QED
        BY <2>1, <2>2, <2>3 DEF PauseIsAhead
<1> QED
    BY <1>1, <1>2

LEMMA StepOffIInv == ASSUME IInv, StepOffDone \/ StepOffInterrupted PROVE IInv'
<1> USE DEF IInv, SteppedOff
<1>1. CASE StepOffDone
    <2> USE <1>1 DEF StepOffDone
    <2>1. Shape' /\ Launching' /\ OverMeansDead' /\ InHand' /\ StepsAsked'
        BY DEF Shape, Launching, OverMeansDead, InHand, Over, StepsAsked
    <2>2. \A t \in Thread : Carries(t) => Carries(t)'
        BY DEF Carries, Shape
    <2>3. Ending => Ending'
        BY DEF Ending, Over
    <2> QED
        BY <2>1, <2>2, <2>3 DEF PauseIsAhead
<1>2. CASE StepOffInterrupted
    <2> USE <1>2 DEF StepOffInterrupted, BackToWait
    <2>1. Shape'
        BY DEF Going, Shape, Reason
    <2>2. Launching' /\ OverMeansDead' /\ InHand' /\ StepsAsked'
        BY DEF Launching, OverMeansDead, InHand, Over, StepsAsked
    <2>3. \A t \in Thread : Carries(t) => Carries(t)' \/ sigstop'
        BY DEF Carries, Going, Shape
    <2>4. Ending => Ending'
        BY DEF Ending, Over, Going, Shape
    <2>5. sigstop => sigstop'
        BY Zenon
    <2> QED
        BY <2>1, <2>2, <2>3, <2>4, <2>5 DEF PauseIsAhead
<1> QED
    BY <1>1, <1>2

LEMMA PauseTickIInv == ASSUME IInv, PauseTick PROVE IInv'
BY DEF IInv, PauseTick, Shape, Launching, OverMeansDead, InHand, Over, StepsAsked, PauseIsAhead,
       Carries, Ending

LEMMA ResumeIInv == ASSUME IInv, Resume PROVE IInv'
<1>1. /\ tracer = "told" /\ ~Carries(current)
      /\ stepping \subseteq asked
    BY DEF IInv, Resume, Carries, StepsAsked
<1>2. stepping' \subseteq asked'
    BY <1>1 DEF Resume
<1>3. Resumed(current, stepPending) /\ UNCHANGED <<pauseRequested, sigstop>>
    BY DEF Resume
<1>4. current' = Main /\ tracer' = "wait"
    BY DEF Resume, BackToWait
<1> QED
    BY <1>1, <1>2, <1>3, <1>4, GoesOnIInv

LEMMA TracerIInv == ASSUME IInv, Tracer PROVE IInv'
<1>1. ASSUME NEW t \in Thread, WaitStops(t) \/ WaitExits(t) PROVE IInv'
    BY <1>1, WaitIInv, ExitIInv DEF WaitExits
<1>2. CASE StepOffExits
    BY <1>2, ExitIInv DEF StepOffExits, IInv, Shape
<1> QED
    BY <1>1, <1>2, LaunchIInv, HandlersIInv, HandleBreakpointIInv, StepBegunIInv, StepOffIInv,
       PauseTickIInv, ResumeIInv DEF Tracer

\* The other threads' calls change what the tracer is asked for, and no thread.
LEMMA CallerIInv == ASSUME IInv, Caller PROVE IInv'
<1>1. UNCHANGED <<tracing, stepping, st, why, cloned, asked>>
    BY DEF Caller, Continue, StepInto, Pause, Stop, ToggleBreakpoint, Quiet
<1>2. Shape' /\ Launching' /\ OverMeansDead' /\ InHand' /\ StepsAsked'
    BY <1>1 DEF IInv, Shape, Launching, OverMeansDead, InHand, Over, StepsAsked
<1>3. \A t \in Thread : Carries(t) => Carries(t)'
    BY <1>1 DEF Carries
<1>4. CASE Pause
    <2>1. sigstop' = TRUE
        BY <1>4 DEF Pause
    <2> QED
        BY <1>2, <2>1 DEF IInv, PauseIsAhead
<1>5. CASE Continue \/ StepInto \/ Stop \/ \E a \in Toggled : ToggleBreakpoint(a)
    <2>1. UNCHANGED <<pauseRequested, sigstop>> /\ killed' \in {killed, TRUE}
        BY <1>5 DEF Continue, StepInto, Stop, ToggleBreakpoint, Quiet
    <2>2. Ending => Ending'
        BY <1>1, <2>1 DEF Ending, Over
    <2> QED
        BY <1>2, <1>3, <2>1, <2>2 DEF IInv, PauseIsAhead
<1> QED
    BY <1>4, <1>5 DEF Caller

\* A thread that runs stops for a reason: nobody else is touched.
LEMMA StopsForIInv ==
    ASSUME IInv, NEW t \in Thread, Running(t), NEW r \in Reason, StopsFor(t, r), Alone,
           cloned' = cloned, killed' = killed, sigstop /\ r # "sigstop" => sigstop'
    PROVE  IInv'
<1> USE DEF IInv, StopsFor, Running, Alone
<1>1. Shape' /\ StepsAsked'
    BY DEF Shape, StepsAsked
<1>2. Launching' /\ OverMeansDead' /\ InHand'
    BY DEF Launching, OverMeansDead, InHand, Over, Shape
<1>3. \A u \in Thread : Carries(u) => Carries(u)'
    BY DEF Carries, Shape
<1>4. r = "sigstop" => Carries(t)'
    BY DEF Carries, Shape, InHand
<1>5. Ending => Ending'
    BY DEF Ending, Over, Shape
<1>6. PauseIsAhead'
    BY <1>3, <1>4, <1>5 DEF PauseIsAhead
<1> QED
    BY <1>1, <1>2, <1>6

\* What happens to one thread leaves the others as they are.
LEMMA ThreadIInv ==
    ASSUME IInv, NEW t \in Thread,
           \/ ExecuteTrap(t) \/ Execute(t) \/ Fault(t) \/ DeliverSigstop(t) \/ End(t)
    PROVE  IInv'
<1>1. CASE ExecuteTrap(t)
    BY <1>1, StopsForIInv DEF ExecuteTrap, Reason
<1>2. CASE Execute(t)
    <2>1. CASE t \in tf
        BY <1>2, <2>1, StopsForIInv DEF Execute, Reason
    <2>2. CASE t \notin tf
        <3>1. UNCHANGED <<tracing, control, stepping, st, why, cloned, sigstop, killed, asked>>
            BY <1>2, <2>2 DEF Execute, Alone
        <3> QED
            BY <3>1 DEF IInv, Shape, Launching, OverMeansDead, InHand, Over, StepsAsked,
                        PauseIsAhead, Carries, Ending
    <2> QED
        BY <2>1, <2>2
<1>3. CASE Fault(t)
    BY <1>3, StopsForIInv DEF Fault, Reason
<1>4. CASE DeliverSigstop(t)
    BY <1>4, StopsForIInv DEF DeliverSigstop, Reason
<1>5. CASE End(t)
    <2> USE <1>5 DEF End, Alone, IInv
    <2>1. Shape' /\ StepsAsked'
        BY DEF Shape, StepsAsked
    <2>2. Launching' /\ OverMeansDead' /\ InHand'
        BY DEF Launching, OverMeansDead, InHand, Over, Shape
    <2>3. \A u \in Thread : Carries(u) => Carries(u)'
        BY DEF Carries, Shape
    <2>4. Ending => Ending'
        BY DEF Ending, Over
    <2> QED
        BY <2>1, <2>2, <2>3, <2>4 DEF PauseIsAhead
<1> QED
    BY <1>1, <1>2, <1>3, <1>4, <1>5

LEMMA CloneIInv ==
    ASSUME IInv, NEW t \in Thread, NEW new \in Thread \ {Main}, Clone(t, new)
    PROVE  IInv'
<1> USE DEF IInv, Clone, Running, Alone
<1>1. Shape' /\ StepsAsked'
    BY DEF Shape, StepsAsked, Reason
<1>2. Launching' /\ OverMeansDead' /\ InHand'
    BY DEF Launching, OverMeansDead, InHand, Over, Shape
<1>3. \A u \in Thread : Carries(u) => Carries(u)'
    BY DEF Carries, Shape
<1>4. Ending => Ending'
    BY DEF Ending, Over, Shape
<1> QED
    BY <1>1, <1>2, <1>3, <1>4 DEF PauseIsAhead

\* An exit, and a SIGKILL: the main thread's takes the others along.
LEMMA ExitEventIInv == ASSUME IInv, NEW t \in Thread, ExitEvent(t) PROVE IInv'
<1> USE DEF IInv, ExitEvent, Running, Alone
<1>1. Shape' /\ StepsAsked'
    BY DEF Shape, StepsAsked, Reason
<1>2. Launching' /\ OverMeansDead' /\ InHand'
    BY DEF Launching, OverMeansDead, InHand, Over, Shape
<1>3. PauseIsAhead'
    <2>1. CASE t = Main
        BY <2>1 DEF PauseIsAhead, Ending, Shape
    <2>2. CASE t # Main
        <3>1. \A u \in Thread : Carries(u) => Carries(u)'
            BY <2>2 DEF Carries, Shape
        <3>2. Ending => Ending'
            BY <2>2 DEF Ending, Over, Shape
        <3> QED
            BY <3>1, <3>2 DEF PauseIsAhead
    <2> QED
        BY <2>1, <2>2
<1> QED
    BY <1>1, <1>2, <1>3

LEMMA KilledIInv == ASSUME IInv, Killed PROVE IInv'
<1> USE DEF IInv, Killed, Alone
<1>1. Shape' /\ StepsAsked'
    BY DEF Shape, StepsAsked
<1>2. Launching' /\ OverMeansDead' /\ InHand'
    BY DEF Launching, OverMeansDead, InHand, Over, Shape
<1>3. Ending'
    BY DEF Ending
<1> QED
    BY <1>1, <1>2, <1>3 DEF PauseIsAhead

LEMMA NextIInv == IInv /\ [Next]_vars => IInv'
<1> SUFFICES ASSUME IInv, [Next]_vars PROVE IInv'
    OBVIOUS
<1>1. CASE Kernel
    BY <1>1, ThreadIInv, CloneIInv, ExitEventIInv, KilledIInv DEF Kernel
<1>2. CASE UNCHANGED vars
    BY <1>2 DEF vars, IInv, Shape, Launching, OverMeansDead, InHand, Over, StepsAsked,
                PauseIsAhead, Carries, Ending
<1> QED
    BY <1>1, <1>2, TracerIInv, CallerIInv DEF Next

LEMMA InitIInv == Init => IInv
BY DEF Init, IInv, Shape, Launching, OverMeansDead, InHand, Over, StepsAsked, PauseIsAhead,
       Ending, Reason

LEMMA AlwaysIInv == Spec => []IInv
BY InitIInv, NextIInv, PTL DEF Spec

-----------------------------------------------------------------------------
(***************************************************************************)
(* debugLoop() is over only when every thread of the target is, in         *)
(* whatever order threads are cloned, exit and are killed.                 *)
(***************************************************************************)
THEOREM TheLoopOutlivesTheTarget == Spec => []OverMeansDead
<1>1. IInv => OverMeansDead
    BY DEF IInv
<1> QED
    BY <1>1, AlwaysIInv, PTL

(***************************************************************************)
(* A pause that was asked for and not begun has its SIGSTOP pending or in  *)
(* a thread that has stopped for it, the step off a breakpoint that takes  *)
(* the SIGSTOP for its own end included.                                   *)
(***************************************************************************)
THEOREM PausesComeThrough == Spec => []PauseIsOnItsWay
<1>1. IInv => PauseIsOnItsWay
    BY DEF IInv, PauseIsAhead, PauseIsOnItsWay, Carries
<1> QED
    BY <1>1, AlwaysIInv, PTL

(***************************************************************************)
(* cbStep is called only for a thread that a StepInto() was carried out    *)
(* on, however the step off a breakpoint ends.                             *)
(***************************************************************************)
THEOREM StepsAreAskedFor == Spec => NoUnaskedStep
<1> DEFINE Asked == tracer = "got" /\ tracer' = "told" /\ event' = "step" => current \in asked
<1>1. IInv /\ [Next]_vars => [Asked]_vars
    <2> SUFFICES ASSUME IInv, Next, tracer = "got", tracer' = "told", event' = "step"
                 PROVE  current \in asked
        BY DEF vars
    <2>1. HandleStep
        <3>1. Tracer
            BY DEF Next, Caller, Continue, StepInto, Pause, Stop, ToggleBreakpoint, Quiet,
                   Kernel, ExecuteTrap, Execute, Fault, DeliverSigstop, ExitEvent, End, Clone,
                   Killed, Alone
        <3>2. ~(HandleSigstop \/ HandleSignal \/ HandleClone \/ HandleExitEvent \/ HandleOther)
            BY DEF HandleSigstop, HandleSignal, HandleClone, HandleExitEvent, HandleOther,
                   Tell, BackToWait
        <3>3. ~(LaunchFails \/ LaunchChild \/ FirstStop \/ SetOptionsFails \/ SystemBreakpoint)
            BY DEF LaunchFails, LaunchChild, FirstStop, SetOptionsFails, SystemBreakpoint
        <3>4. ~(HandleBreakpoint \/ StepOff \/ StepOffFails)
            BY DEF HandleBreakpoint, StepOff, StepOffFails
        <3>7. ~(StepOffDone \/ StepOffInterrupted \/ StepOffExits)
            BY DEF StepOffDone, StepOffInterrupted, StepOffExits, SteppedOff
        <3>5. ~(PauseTick \/ Resume)
            BY DEF PauseTick, Resume
        <3>6. \A t \in Thread : ~(WaitStops(t) \/ WaitExits(t))
            BY DEF WaitStops, WaitExits
        <3> QED
            BY <3>1, <3>2, <3>3, <3>4, <3>5, <3>6, <3>7 DEF Tracer
    <2> QED
        BY <2>1 DEF HandleStep, Trapped, IInv, StepsAsked
<1> QED
    BY <1>1, AlwaysIInv, PTL DEF Spec, NoUnaskedStep

-----------------------------------------------------------------------------
(***************************************************************************)
(* The breakpoint table.  What a queue of requests makes of it is argued   *)
(* by induction over the queue; what a step makes of it, by whether the    *)
(* thread that is being stepped off a breakpoint can still be lost.        *)
(***************************************************************************)
\* Induction over the natural numbers, for a set of them.
LEMMA EveryNatural ==
    ASSUME NEW S, 0 \in S, \A n \in Nat : n \in S => n + 1 \in S
    PROVE  Nat \subseteq S
<1> DEFINE T == Nat \ S
           before == {ss \in Nat \X Nat : ss[1] < ss[2]}
<1>1. CASE T = {}
    BY <1>1
<1>2. CASE T # {}
    <2>1. IsWellFoundedOn(before, Nat)
        BY NatLessThanWellFounded DEF OpToRel
    <2> HIDE DEF before
    <2>2. PICK x \in T : \A y \in T : ~(<<y, x>> \in before)
        <3>1. T \subseteq Nat
            OBVIOUS
        <3> HIDE DEF T
        <3> QED
            BY <1>2, <2>1, <3>1, WFMin
    <2>3. x \in Nat /\ x # 0 /\ x - 1 \in Nat
        BY <2>2
    <2>4. <<x - 1, x>> \in before
        BY <2>3 DEF before
    <2>5. x - 1 \in S
        BY <2>2, <2>3, <2>4
    <2>6. (x - 1) + 1 \in S /\ (x - 1) + 1 = x
        BY <2>3, <2>5
    <2> QED
        BY <2>2, <2>6
<1> QED
    BY <1>1, <1>2

\* g is what the loop over the first n requests makes of the table.
Follows(g, n) ==
    g = [i \in 0 .. n |-> IF i = 0 THEN [bps |-> bps, shown |-> shown]
                                   ELSE Carried(g[i - 1], requests[i])]

\* There is such a g, which is what CarriedOut needs to be one.
LEMMA LoopFollows ==
    ASSUME Len(requests) \in Nat
    PROVE  \A n \in Nat : \E g : Follows(g, n)
<1> DEFINE S == {n \in Nat : \E g : Follows(g, n)}
<1>1. 0 \in S
    <2> DEFINE g == [i \in {0} |-> [bps |-> bps, shown |-> shown]]
    <2>1. Follows(g, 0)
        BY DEF Follows
    <2> QED
        BY <2>1
<1>2. ASSUME NEW n \in Nat, n \in S PROVE n + 1 \in S
    <2>1. PICK g : Follows(g, n)
        BY <1>2
    <2> DEFINE h == [i \in 0 .. n + 1 |->
                        IF i = n + 1 THEN Carried(g[n], requests[n + 1]) ELSE g[i]]
    <2>2. Follows(h, n + 1)
        BY <2>1 DEF Follows
    <2> QED
        BY <2>2
<1> HIDE DEF S
<1>3. Nat \subseteq S
    BY <1>1, <1>2, EveryNatural
<1> QED
    BY <1>3 DEF S

LEMMA CarriedOutIs ==
    ASSUME Len(requests) \in Nat
    PROVE  Follows(CarriedOut, Len(requests))
BY LoopFollows DEF CarriedOut, Follows

\* However the requests follow each other, nothing is shown that is not set.
LEMMA ProcessedSound ==
    ASSUME Len(requests) \in Nat, shown \subseteq bps
    PROVE  Processed.shown \subseteq Processed.bps
<1> DEFINE S == {n \in Nat : n <= Len(requests) =>
                    CarriedOut[n].shown \subseteq CarriedOut[n].bps}
<1>1. \A n \in 0 .. Len(requests) :
          CarriedOut[n] = IF n = 0 THEN [bps |-> bps, shown |-> shown]
                                   ELSE Carried(CarriedOut[n - 1], requests[n])
    BY CarriedOutIs DEF Follows
<1>2. 0 \in S
    BY <1>1
<1>3. ASSUME NEW n \in Nat, n \in S PROVE n + 1 \in S
    <2> SUFFICES ASSUME n + 1 <= Len(requests)
                 PROVE  CarriedOut[n + 1].shown \subseteq CarriedOut[n + 1].bps
        OBVIOUS
    <2>1. n \in 0 .. Len(requests) /\ n + 1 \in 0 .. Len(requests) /\ n + 1 # 0
        OBVIOUS
    <2>2. CarriedOut[n].shown \subseteq CarriedOut[n].bps
        BY <1>3, <2>1
    <2>3. CarriedOut[n + 1] = Carried(CarriedOut[n], requests[n + 1])
        BY <1>1, <2>1
    <2> QED
        BY <2>2, <2>3 DEF Carried
<1> HIDE DEF S
<1>4. Nat \subseteq S
    BY <1>2, <1>3, EveryNatural
<1>5. Len(requests) \in S
    BY <1>4
<1> QED
    BY <1>5 DEF S, Processed

\* A thread that has trapped is held until it is stepped.  The step off a
\* breakpoint is under way on a thread that lives, and that has not been let
\* past its exit event; if a breakpoint that is shown is out, it can be put
\* back then.
StepsOffAlive ==
    ~Ending =>
        /\ tracer \in {"got", "hit"} => Held(current)
        /\ tracer = "hit" => why[current] \in {"trap", "step"}
        /\ tracer = "stepoff" =>
               /\ st[current] \in {"running", "stopped"}
               /\ why[current] = "exit" => st[current] = "stopped"
               /\ from \in shown \ bps => current = Main \/ Writable

Queue == requests \in Seq(Request)
BInv == IInv /\ Queue /\ StepsOffAlive /\ NoBreakpointLost

\* What a step has to keep, once its other effects are known.
Kept == (Ending => Ending') /\ Queue' /\ StepsOffAlive' /\ NoBreakpointLost'

\* The table is carried forward by any step that does not touch it.
LEMMA KernelKept == ASSUME BInv, Kernel PROVE Kept
<1> USE DEF BInv
<1>1. UNCHANGED <<tracing, engine>>
    BY DEF Kernel, ExecuteTrap, Execute, Fault, DeliverSigstop, ExitEvent, End, Clone, Killed, Alone
<1>2. current \in Thread /\ Shape
    BY DEF IInv, Shape
<1>3. (Ending => Ending') /\ StepsOffAlive'
    <2>1. ASSUME NEW t \in Thread, NEW r \in Reason, Running(t), StopsFor(t, r), killed' = killed
          PROVE  (Ending => Ending') /\ StepsOffAlive'
        <3>1. Ending => Ending'
            BY <1>1, <1>2, <2>1 DEF Running, StopsFor, Ending, Over, Shape
        <3>2. StepsOffAlive'
            BY <1>1, <1>2, <2>1, <3>1 DEF Running, StopsFor, StepsOffAlive, Held, Writable, Shape
        <3> QED
            BY <3>1, <3>2
    <2>2. CASE UNCHANGED <<st, why, killed>>
        BY <1>1, <2>2 DEF Ending, Over, StepsOffAlive, Held, Writable
    <2>3. ASSUME NEW t \in Thread, \/ ExecuteTrap(t) \/ Execute(t) \/ Fault(t) \/ DeliverSigstop(t)
          PROVE  (Ending => Ending') /\ StepsOffAlive'
        BY <2>1, <2>2, <2>3 DEF ExecuteTrap, Execute, Fault, DeliverSigstop, Reason
    <2>4. ASSUME NEW t \in Thread, ExitEvent(t)
          PROVE  (Ending => Ending') /\ StepsOffAlive'
        <3>1. /\ why' = [why EXCEPT ![t] = "exit"] /\ killed' = killed
              /\ t = Main \/ st' = [st EXCEPT ![t] = "stopped"]
            <4>1. t # Main => st' = [u \in Thread |-> IF u = t THEN "stopped" ELSE st[u]]
                BY <2>4 DEF ExitEvent
            <4> QED
                BY <1>2, <2>4, <4>1 DEF ExitEvent, Shape
        <3>2. (Ending => Ending') /\ (t = Main => Ending')
            BY <1>1, <1>2, <3>1 DEF Ending, Over, Shape
        <3>3. st[t] = "running" /\ (t # Main => StepsOffAlive')
            BY <1>1, <1>2, <2>4, <3>1, <3>2
               DEF ExitEvent, Running, StepsOffAlive, Held, Writable, Shape
        <3> QED
            BY <3>2, <3>3 DEF StepsOffAlive
    <2>5. ASSUME NEW t \in Thread, End(t)
          PROVE  (Ending => Ending') /\ StepsOffAlive'
        <3>1. Ending => Ending'
            BY <1>1, <2>5 DEF End, Ending, Over
        <3> QED
            BY <1>1, <1>2, <2>5, <3>1 DEF End, StepsOffAlive, Held, Writable, Shape
    <2>6. ASSUME NEW t \in Thread, NEW new \in Thread \ {Main}, Clone(t, new)
          PROVE  (Ending => Ending') /\ StepsOffAlive'
        <3>1. Ending => Ending'
            BY <1>1, <1>2, <2>6 DEF Clone, Running, Ending, Over, Shape
        <3> QED
            BY <1>1, <1>2, <2>6, <3>1 DEF Clone, Running, StepsOffAlive, Held, Writable, Shape
    <2>7. CASE Killed
        BY <1>1, <2>7 DEF Killed, Ending, Over, StepsOffAlive
    <2> QED
        BY <2>3, <2>4, <2>5, <2>6, <2>7 DEF Kernel
<1> QED
    BY <1>1, <1>3 DEF Kept, Queue, NoBreakpointLost

\* The calls of other threads only queue requests.
LEMMA CallerKept == ASSUME BInv, Caller PROVE Kept
<1> USE DEF BInv
<1>1. UNCHANGED <<tracing, bps, shown, st, why>> /\ killed' \in {killed, TRUE}
    BY DEF Caller, Continue, StepInto, Pause, Stop, ToggleBreakpoint, Quiet
<1>2. Ending => Ending'
    BY <1>1 DEF Ending, Over
<1>3. Queue'
    <2>1. CASE UNCHANGED requests
        BY <2>1 DEF Queue
    <2>2. ASSUME NEW a \in Toggled, ToggleBreakpoint(a) PROVE Queue'
        <3>1. requests' = Append(requests, [addr |-> a, set |-> ~IsBreakpointEffective(a)])
            BY <2>2 DEF ToggleBreakpoint
        <3>2. [addr |-> a, set |-> ~IsBreakpointEffective(a)] \in Request
            BY DEF Request, Address
        <3> QED
            BY <3>1, <3>2 DEF Queue
    <2> QED
        BY <2>1, <2>2 DEF Caller, Continue, StepInto, Pause, Stop, Quiet
<1> QED
    BY <1>1, <1>2, <1>3 DEF Kept, StepsOffAlive, Held, Writable, NoBreakpointLost

\* What the tracer does outside the step off a breakpoint: it leaves the table
\* alone, carries the requests out, or ends.
LEMMA OutsideKept ==
    ASSUME BInv, tracer \notin {"stepoff", "done"}, killed' = killed,
           tracer' \notin {"got", "hit", "stepoff"},
           why[Main] = "exit" => why'[Main] = "exit" \/ tracer' = "done",
           \/ UNCHANGED <<bps, shown, requests>>
           \/ ProcessPendingBreakpoints
           \/ bps' = {} /\ shown' = {} /\ requests' = <<>>
    PROVE  Kept
<1> USE DEF BInv
<1>1. Ending => Ending'
    BY DEF Ending, Over
<1>2. Queue' /\ StepsOffAlive'
    <2>1. requests' = requests \/ requests' = <<>>
        BY DEF ProcessPendingBreakpoints
    <2>2. <<>> \in Seq(Request)
        OBVIOUS
    <2>3. Queue'
        BY <2>1, <2>2 DEF Queue
    <2> QED
        BY <2>3 DEF StepsOffAlive
<1>3. NoBreakpointLost'
    <2> SUFFICES ASSUME ~Ending' PROVE shown' \subseteq bps'
        BY DEF NoBreakpointLost
    <2>1. shown \subseteq bps /\ Len(requests) \in Nat
        BY <1>1 DEF NoBreakpointLost, Queue
    <2> QED
        BY <2>1, ProcessedSound DEF ProcessPendingBreakpoints
<1> QED
    BY <1>1, <1>2, <1>3 DEF Kept

LEMMA LaunchKept ==
    ASSUME BInv, LaunchFails \/ LaunchChild \/ FirstStop \/ SetOptionsFails \/ SystemBreakpoint
    PROVE  Kept
<1>1. CASE LaunchFails
    BY <1>1, OutsideKept DEF LaunchFails
<1>2. CASE LaunchChild
    BY <1>2, OutsideKept DEF LaunchChild
<1>3. CASE FirstStop
    BY <1>3, OutsideKept DEF FirstStop
<1>4. CASE SetOptionsFails
    BY <1>4, OutsideKept DEF SetOptionsFails
<1>5. CASE SystemBreakpoint
    BY <1>5, OutsideKept DEF SystemBreakpoint
<1> QED
    BY <1>1, <1>2, <1>3, <1>4, <1>5

\* A thread's end: the table goes with the process, and with it alone.
LEMMA ExitKept ==
    ASSUME BInv, NEW t \in Thread, Exit(t), tracer = "wait" \/ (tracer = "stepoff" /\ t = current)
    PROVE  Kept
<1> USE DEF BInv
<1>1. /\ st[t] = "zombie" /\ killed' = killed /\ why' = [why EXCEPT ![t] = "none"]
      /\ t = Main => tracer' = "done"
      /\ t # Main => tracer' = "wait"
    BY ExitShape DEF IInv
<1>2. \/ UNCHANGED <<bps, shown, requests>>
      \/ bps' = {} /\ shown' = {} /\ requests' = <<>>
    BY DEF Exit, ProcessExit, ThreadExit
<1>3. why[Main] = "exit" => why'[Main] = "exit" \/ tracer' = "done"
    BY <1>1 DEF IInv, Shape
<1>4. CASE tracer = "wait"
    BY <1>1, <1>2, <1>3, <1>4, OutsideKept
<1>5. CASE tracer = "stepoff" /\ t = current
    <2>1. Ending /\ Ending'
        BY <1>1, <1>3, <1>5 DEF StepsOffAlive, Ending, Over
    <2>2. Queue'
        <3>1. <<>> \in Seq(Request)
            OBVIOUS
        <3> QED
            BY <1>2, <3>1 DEF Queue
    <2> QED
        BY <2>1, <2>2 DEF Kept, StepsOffAlive, NoBreakpointLost
<1> QED
    BY <1>4, <1>5

LEMMA HandlersKept ==
    ASSUME BInv,
           \/ HandleClone \/ HandleExitEvent \/ HandleSigstop \/ HandleSignal \/ HandleStep
           \/ HandleOther \/ PauseTick \/ Resume
    PROVE  Kept
<1> USE DEF BInv
<1>1. ASSUME NEW single, Resumed(current, single)
      PROVE  killed' = killed /\ (why[Main] = "exit" => why'[Main] = "exit")
    BY <1>1 DEF Resumed, Going, IInv, Shape
<1>2. CASE HandleClone
    BY <1>1, <1>2, OutsideKept DEF HandleClone, Got, Cont, BackToWait
<1>3. CASE HandleExitEvent
    BY <1>1, <1>3, OutsideKept DEF HandleExitEvent, Got, Cont, BackToWait
<1>4. CASE HandleSigstop
    <2>1. CASE pauseRequested /\ current \in known
        BY <1>4, <2>1, OutsideKept DEF HandleSigstop, Got, Tell
    <2>2. CASE ~(pauseRequested /\ current \in known)
        BY <1>1, <1>4, <2>2, OutsideKept DEF HandleSigstop, Got, Cont, BackToWait
    <2> QED
        BY <2>1, <2>2
<1>5. CASE HandleSignal
    <2>1. CASE current \in known
        BY <1>5, <2>1, OutsideKept DEF HandleSignal, Got, Tell
    <2>2. CASE current \notin known
        BY <1>1, <1>5, <2>2, OutsideKept DEF HandleSignal, Got, Cont, BackToWait
    <2> QED
        BY <2>1, <2>2
<1>6. CASE HandleStep
    BY <1>6, OutsideKept DEF HandleStep, Trapped, Tell
<1>7. CASE HandleOther
    BY <1>1, <1>7, OutsideKept DEF HandleOther, Trapped, Cont, BackToWait
<1>8. CASE PauseTick
    BY <1>8, OutsideKept DEF PauseTick
<1>9. CASE Resume
    <2>1. Resumed(current, stepPending) /\ tracer = "told" /\ tracer' = "wait"
          /\ UNCHANGED <<bps, shown, requests>>
        BY <1>9 DEF Resume, BackToWait
    <2> QED
        BY <1>1, <2>1, OutsideKept
<1> QED
    BY <1>2, <1>3, <1>4, <1>5, <1>6, <1>7, <1>8, <1>9

\* What comes in: a thread that is held.
LEMMA WaitKept == ASSUME BInv, NEW t \in Thread, WaitStops(t) PROVE Kept
<1> USE DEF BInv, WaitStops
<1>1. Ending => Ending'
    BY DEF Ending, Over
<1>2. StepsOffAlive'
    BY DEF StepsOffAlive, Held, IInv, Shape
<1>3. Queue' /\ NoBreakpointLost'
    BY <1>1 DEF Queue, NoBreakpointLost
<1> QED
    BY <1>1, <1>2, <1>3 DEF Kept

LEMMA HandleBreakpointKept == ASSUME BInv, HandleBreakpoint PROVE Kept
<1> USE DEF BInv, HandleBreakpoint
<1>1. tracer = "got" /\ why[current] \in {"trap", "step"}
    BY DEF Trapped
<1>2. Ending => Ending'
    BY <1>1 DEF Ending, Over
<1>3. Queue'
    <2>1. requests' = <<>> /\ <<>> \in Seq(Request)
        BY DEF ProcessPendingBreakpoints
    <2> QED
        BY <2>1 DEF Queue
<1>4. StepsOffAlive'
    BY <1>1, <1>2 DEF StepsOffAlive, Held
<1>5. NoBreakpointLost'
    <2> SUFFICES ASSUME ~Ending' PROVE shown' \subseteq bps'
        BY DEF NoBreakpointLost
    <2>1. Processed.shown \subseteq Processed.bps
        BY <1>1, <1>2, ProcessedSound DEF NoBreakpointLost, Queue
    <2> QED
        BY <2>1 DEF ProcessPendingBreakpoints
<1> QED
    BY <1>2, <1>3, <1>4, <1>5 DEF Kept

\* The one breakpoint that is out while its thread is stepped off it: it can
\* be put back as long as nobody resumes the main thread ...
LEMMA StepBegunKept == ASSUME BInv, StepOff \/ StepOffFails PROVE Kept
<1> USE DEF BInv
<1>1. tracer = "hit" /\ current \in Thread /\ killed' = killed /\ Queue'
    BY DEF StepOff, StepOffFails, IInv, Shape, Queue
<1>2. CASE StepOff
    <2> USE <1>2 DEF StepOff
    <2>1. Ending => Ending'
        BY <1>1 DEF Going, Ending, Over, IInv, Shape
    <2>2. ~Ending => shown \subseteq bps /\ why[current] # "exit"
        BY <1>1 DEF StepsOffAlive, NoBreakpointLost
    <2>3. shown \subseteq bps => shown' \subseteq bps' \cup {from'}
        BY DEF WithoutBreakpoint
    <2>4. shown \subseteq bps => (from' \in shown' \ bps' => current' = Main \/ Writable')
        BY <1>1 DEF WithoutBreakpoint, Writable, IInv, Shape
    <2>5. ~Ending => st'[current] = "running" /\ why'[current] # "exit"
        BY <1>1, <2>2 DEF Going, IInv, Shape
    <2>6. StepsOffAlive'
        BY <2>1, <2>2, <2>4, <2>5 DEF StepsOffAlive
    <2>7. NoBreakpointLost'
        BY <2>1, <2>2, <2>3 DEF NoBreakpointLost
    <2> QED
        BY <1>1, <2>1, <2>6, <2>7 DEF Kept
<1>3. CASE StepOffFails
    <2> USE <1>3 DEF StepOffFails
    <2>1. Ending /\ Ending'
        BY <1>1 DEF StepsOffAlive, Ending, Over
    <2> QED
        BY <1>1, <2>1 DEF Kept, StepsOffAlive, NoBreakpointLost
<1> QED
    BY <1>2, <1>3

\* ... and is back however the step ends.
LEMMA StepOffKept == ASSUME BInv, StepOffDone \/ StepOffInterrupted PROVE Kept
<1> USE DEF BInv
<1>1. /\ tracer = "stepoff" /\ tracer' \in {"told", "wait"} /\ current \in Thread
      /\ bps' = WithBreakpoint(from) /\ UNCHANGED <<shown, requests, killed>>
      /\ why' = why \/ why' = Going(current)
      /\ st[current] = "stopped"
    BY DEF StepOffDone, StepOffInterrupted, SteppedOff, BackToWait, IInv, Shape
<1>2. Ending => Ending'
    BY <1>1 DEF Going, Ending, Over, IInv, Shape
<1>3. ~Ending => shown \subseteq bps'
    <2>1. ~Ending => (from \in shown \ bps => Writable)
        BY <1>1 DEF StepsOffAlive, Writable
    <2>2. ~Ending => shown \subseteq bps \cup {from}
        BY <1>1 DEF NoBreakpointLost
    <2> QED
        BY <1>1, <2>1, <2>2 DEF WithBreakpoint
<1>4. NoBreakpointLost'
    BY <1>1, <1>2, <1>3 DEF NoBreakpointLost
<1> QED
    BY <1>1, <1>2, <1>4 DEF Kept, Queue, StepsOffAlive

LEMMA NextBInv == BInv /\ [Next]_vars => BInv'
<1> SUFFICES ASSUME BInv, [Next]_vars PROVE Kept
    BY NextIInv DEF BInv, Kept
<1>1. CASE Tracer
    <2>1. ASSUME NEW t \in Thread, WaitStops(t) PROVE Kept
        BY <2>1, WaitKept
    <2>2. ASSUME NEW t \in Thread, WaitExits(t) PROVE Kept
        BY <2>2, ExitKept DEF WaitExits
    <2>3. CASE StepOffExits
        BY <2>3, ExitKept DEF StepOffExits, BInv, IInv, Shape
    <2> QED
        BY <1>1, <2>1, <2>2, <2>3, LaunchKept, HandlersKept, HandleBreakpointKept,
           StepBegunKept, StepOffKept DEF Tracer
<1>2. CASE UNCHANGED vars
    BY <1>2 DEF vars, BInv, Kept, Queue, StepsOffAlive, Held, Writable, NoBreakpointLost,
                Ending, Over
<1> QED
    BY <1>1, <1>2, CallerKept, KernelKept DEF Next

(***************************************************************************)
(* For any threads, program and requests: until the process's end begins,  *)
(* a breakpoint the user is shown is in the target, save the one a thread  *)
(* is being stepped off.  The memory cannot be written while the main      *)
(* thread runs, so that the removal may fail, and a request too: but where *)
(* the removal succeeded the main thread was stopped, nobody but the       *)
(* tracer resumes it, and the breakpoint goes back however the step ends.  *)
(***************************************************************************)
THEOREM BreakpointsAreKept == Spec => []NoBreakpointLost
<1>1. Init => BInv
    BY InitIInv DEF Init, BInv, Queue, StepsOffAlive, NoBreakpointLost
<1>2. BInv => NoBreakpointLost
    BY DEF BInv
<1> QED
    BY <1>1, <1>2, NextBInv, PTL DEF Spec

-----------------------------------------------------------------------------
(***************************************************************************)
(* The types.  That a flag is only on a thread the engine has entered, and *)
(* so is gone when the process is, needs to know that the thread a pause   *)
(* is about is entered and that a dead thread has no flag.                 *)
(***************************************************************************)
TracingTyped ==
    /\ tracer \in {"launch", "first", "setup", "wait", "got", "hit", "stepoff", "told",
                   "done"}
    /\ current \in Thread /\ from \in Address
    /\ event \in {"none", "system", "breakpoint", "step", "paused", "exception"}
    /\ paused \in BOOLEAN /\ stepPending \in BOOLEAN
    /\ pauseRequested \in BOOLEAN /\ pendingSignal \in BOOLEAN

TargetTyped ==
    /\ st \in [Thread -> {"none", "running", "stopped", "held", "zombie", "dead"}]
    /\ why \in [Thread -> Reason]
    /\ pc \in [Thread -> Address] /\ mid \subseteq Thread /\ tf \subseteq Thread
    /\ cloned \in Thread /\ sigstop \in BOOLEAN /\ killed \in BOOLEAN
    /\ asked \subseteq Thread

TableTyped ==
    /\ known \subseteq Thread /\ stepping \subseteq known
    /\ bps \subseteq Address /\ shown \subseteq Address
    /\ Queue /\ Len(requests) <= MaxRequests

\* The single-step flags are of threads that are entered and live; the thread a
\* pause is about is entered.
Entered ==
    /\ \A t \in stepping : st[t] \notin {"none", "dead"}
    /\ tracer \in {"launch", "first"} => stepping = {}
    /\ tracer \in {"told", "hit", "stepoff"} => current \in known
    /\ tracer = "setup" => Main \in known

Types == TracingTyped /\ TargetTyped /\ TableTyped /\ Entered
TInv == IInv /\ Types

LEMMA TypesAreTypes == Types => TypeOK
<1> SUFFICES ASSUME Types PROVE TypeOK
    OBVIOUS
<1>1. requests \in BoundedSeq(Request, MaxRequests)
    <2>1. Len(requests) \in 0 .. MaxRequests /\ requests \in [1 .. Len(requests) -> Request]
        BY DEF Types, TableTyped, Queue
    <2> QED
        BY <2>1 DEF BoundedSeq, SeqOf
<1> QED
    BY <1>1 DEF Types, TracingTyped, TargetTyped, TableTyped, TypeOK

LEMMA ZeroIsAnAddress == 0 \in Address
BY DEF Address

\* The program is a cycle.
LEMMA SuccIsAnAddress == ASSUME NEW a \in Address PROVE Succ(a) \in Address
<1>1. CASE a + 1 < CodeSize
    <2>1. (a + 1) % CodeSize = a + 1
        BY <1>1 DEF Address
    <2> QED
        BY <1>1, <2>1 DEF Succ, Address
<1>2. CASE a + 1 = CodeSize
    <2>1. (a + 1) % CodeSize = 0
        BY <1>2 DEF Address
    <2> QED
        BY <2>1 DEF Succ, Address
<1> QED
    BY <1>1, <1>2 DEF Address

\* The requests are for addresses, and so is what they make of the table.
LEMMA ProcessedTyped ==
    ASSUME Queue, bps \subseteq Address, shown \subseteq Address
    PROVE  Processed.bps \subseteq Address /\ Processed.shown \subseteq Address
<1> DEFINE Fits(state) == state.bps \subseteq Address /\ state.shown \subseteq Address
           S == {n \in Nat : n <= Len(requests) => Fits(CarriedOut[n])}
<1>1. Len(requests) \in Nat /\ \A n \in 1 .. Len(requests) : requests[n] \in Request
    BY DEF Queue
<1>2. \A n \in 0 .. Len(requests) :
          CarriedOut[n] = IF n = 0 THEN [bps |-> bps, shown |-> shown]
                                   ELSE Carried(CarriedOut[n - 1], requests[n])
    BY <1>1, CarriedOutIs DEF Follows
<1>3. 0 \in S
    BY <1>1, <1>2
<1>4. ASSUME NEW n \in Nat, n \in S PROVE n + 1 \in S
    <2> SUFFICES ASSUME n + 1 <= Len(requests) PROVE Fits(CarriedOut[n + 1])
        OBVIOUS
    <2>1. Fits(CarriedOut[n]) /\ requests[n + 1] \in Request
        BY <1>1, <1>4
    <2>2. CarriedOut[n + 1] = Carried(CarriedOut[n], requests[n + 1])
        BY <1>1, <1>2
    <2>3. requests[n + 1].addr \in Address
        BY <2>1 DEF Request
    <2> QED
        BY <2>1, <2>2, <2>3 DEF Carried
<1> HIDE DEF S
<1>5. Len(requests) \in S
    BY <1>1, <1>3, <1>4, EveryNatural
<1> QED
    BY <1>1, <1>5 DEF S, Processed

\* Carrying the requests out empties the queue.
LEMMA TableCarriedOut ==
    ASSUME TableTyped, ProcessPendingBreakpoints
    PROVE  /\ bps' \subseteq Address /\ shown' \subseteq Address
           /\ Queue' /\ Len(requests') <= MaxRequests
<1>1. bps' = Processed.bps /\ shown' = Processed.shown /\ requests' = <<>>
    BY DEF ProcessPendingBreakpoints
<1>2. <<>> \in Seq(Request) /\ Len(<<>>) = 0
    OBVIOUS
<1> QED
    BY <1>1, <1>2, ProcessedTyped DEF TableTyped, Queue

LEMMA LaunchTypes ==
    ASSUME TInv, LaunchFails \/ LaunchChild \/ FirstStop \/ SetOptionsFails \/ SystemBreakpoint
    PROVE  Types'
<1> USE DEF TInv, Types, TracingTyped, TargetTyped, TableTyped, Entered, Queue
<1>1. CASE LaunchFails
    BY <1>1 DEF LaunchFails
<1>2. CASE LaunchChild
    BY <1>2 DEF LaunchChild
<1>3. CASE FirstStop
    BY <1>3 DEF FirstStop
<1>4. CASE SetOptionsFails
    BY <1>4 DEF SetOptionsFails
<1>5. CASE SystemBreakpoint
    BY <1>5, TableCarriedOut DEF SystemBreakpoint, IInv, Launching
<1> QED
    BY <1>1, <1>2, <1>3, <1>4, <1>5

\* A thread's end takes its flag along; the main thread's is the last one.
LEMMA ExitTypes ==
    ASSUME TInv, NEW t \in Thread, Exit(t), tracer \in {"wait", "stepoff"}
    PROVE  Types'
<1> USE DEF TInv, Types, Exit, Dies
<1>1. TracingTyped' /\ TargetTyped'
    BY ZeroIsAnAddress DEF TracingTyped, TargetTyped, ProcessExit, ThreadExit, Reason
<1>2. TableTyped' /\ Entered'
    <2>1. CASE t = Main
        <3>1. stepping' = {}
            BY <2>1 DEF TargetTyped, TableTyped, Entered, Reportable
        <3>2. <<>> \in Seq(Request) /\ Len(<<>>) = 0
            OBVIOUS
        <3> QED
            BY <2>1, <3>1, <3>2 DEF ProcessExit, TableTyped, Entered, Queue
    <2>2. CASE t # Main
        BY <2>2 DEF ThreadExit, TargetTyped, TableTyped, Entered, Queue
    <2> QED
        BY <2>1, <2>2
<1> QED
    BY <1>1, <1>2

\* A thread that goes on.
LEMMA ResumedTypes ==
    ASSUME Types, NEW t \in Thread, NEW single, Resumed(t, single),
           UNCHANGED <<sigstop>>, asked' \subseteq Thread
    PROVE  /\ TargetTyped'
           /\ \A u \in Thread : st[u] \notin {"none", "dead"} => st'[u] \notin {"none", "dead"}
<1>1. pc' \in [Thread -> Address]
    BY SuccIsAnAddress DEF Types, TargetTyped, Resumed
<1>2. why' \in [Thread -> Reason]
    BY DEF Types, TargetTyped, Resumed, Going, Reason
<1> QED
    BY <1>1, <1>2 DEF Types, TargetTyped, Resumed

LEMMA HandlersTypes ==
    ASSUME TInv,
           \/ HandleClone \/ HandleExitEvent \/ HandleSigstop \/ HandleSignal \/ HandleStep
           \/ HandleOther \/ PauseTick \/ Resume
    PROVE  Types'
<1> USE DEF TInv, Types
<1>0. Main \in Thread /\ current \in Thread /\ 0 \in Address
    BY ZeroIsAnAddress DEF TracingTyped
<1>1. CASE HandleClone
    <2>1. Resumed(current, FALSE) /\ UNCHANGED sigstop /\ asked' \subseteq Thread
        BY <1>1 DEF HandleClone, Cont, TargetTyped
    <2> QED
        BY <1>0, <1>1, <2>1, ResumedTypes
           DEF HandleClone, BackToWait, TracingTyped, TargetTyped, TableTyped, Entered, Queue
<1>2. CASE HandleExitEvent
    <2>1. Resumed(current, FALSE) /\ UNCHANGED sigstop /\ asked' \subseteq Thread
        BY <1>2 DEF HandleExitEvent, Cont, TargetTyped
    <2> QED
        BY <1>0, <1>2, <2>1, ResumedTypes
           DEF HandleExitEvent, BackToWait, TracingTyped, TableTyped, Entered, Queue
<1>3. CASE HandleSigstop
    <2>1. CASE pauseRequested /\ current \in known
        BY <1>0, <1>3, <2>1, TableCarriedOut
           DEF HandleSigstop, Tell, TracingTyped, TargetTyped, TableTyped, Entered
    <2>2. CASE ~(pauseRequested /\ current \in known)
        <3>1. Resumed(current, FALSE) /\ UNCHANGED sigstop /\ asked' \subseteq Thread
            BY <1>3, <2>2 DEF HandleSigstop, Cont, TargetTyped
        <3> QED
            BY <1>0, <1>3, <2>2, <3>1, ResumedTypes
               DEF HandleSigstop, BackToWait, TracingTyped, TableTyped, Entered, Queue
    <2> QED
        BY <2>1, <2>2
<1>4. CASE HandleSignal
    <2>1. CASE current \in known
        BY <1>0, <1>4, <2>1
           DEF HandleSignal, Tell, TracingTyped, TargetTyped, TableTyped, Entered, Queue
    <2>2. CASE current \notin known
        <3>1. Resumed(current, FALSE) /\ UNCHANGED sigstop /\ asked' \subseteq Thread
            BY <1>4, <2>2 DEF HandleSignal, Cont, TargetTyped
        <3> QED
            BY <1>0, <1>4, <2>2, <3>1, ResumedTypes
               DEF HandleSignal, BackToWait, TracingTyped, TableTyped, Entered, Queue
    <2> QED
        BY <2>1, <2>2
<1>5. CASE HandleStep
    BY <1>0, <1>5, TableCarriedOut
       DEF HandleStep, Tell, TracingTyped, TargetTyped, TableTyped, Entered
<1>6. CASE HandleOther
    <2>1. Resumed(current, FALSE) /\ UNCHANGED sigstop /\ asked' \subseteq Thread
        BY <1>6 DEF HandleOther, Cont, TargetTyped
    <2> QED
        BY <1>0, <1>6, <2>1, ResumedTypes
           DEF HandleOther, BackToWait, TracingTyped, TableTyped, Entered, Queue
<1>7. CASE PauseTick
    BY <1>7, TableCarriedOut
       DEF PauseTick, TracingTyped, TargetTyped, TableTyped, Entered
<1>8. CASE Resume
    <2>1. Resumed(current, stepPending) /\ UNCHANGED sigstop /\ asked' \subseteq Thread
        BY <1>0, <1>8 DEF Resume, TargetTyped
    <2>2. TracingTyped' /\ TargetTyped'
        BY <1>0, <1>8, <2>1, ResumedTypes DEF Resume, BackToWait, TracingTyped
    <2>3. TableTyped' /\ Entered'
        BY <1>0, <1>8, <2>1, ResumedTypes
           DEF Resume, BackToWait, Held, TableTyped, Entered, Queue
    <2> QED
        BY <2>2, <2>3
<1> QED
    BY <1>1, <1>2, <1>3, <1>4, <1>5, <1>6, <1>7, <1>8

\* The step off a breakpoint is begun on an entered thread, and ends.
LEMMA StepOffTypes ==
    ASSUME TInv, HandleBreakpoint \/ StepOff \/ StepOffFails \/ StepOffDone \/ StepOffInterrupted
    PROVE  Types'
<1> USE DEF TInv, Types
<1>0. Main \in Thread /\ current \in Thread /\ 0 \in Address /\ from \in Address
      /\ pc[current] \in Address /\ WithBreakpoint(from) \subseteq Address
    BY ZeroIsAnAddress DEF TracingTyped, TargetTyped, TableTyped, WithBreakpoint
<1>1. CASE HandleBreakpoint
    <2>1. TracingTyped' /\ TargetTyped'
        BY <1>0, <1>1 DEF HandleBreakpoint, TracingTyped, TargetTyped
    <2>2. TableTyped' /\ Entered'
        BY <1>1, TableCarriedOut DEF HandleBreakpoint, TargetTyped, TableTyped, Entered
    <2> QED
        BY <2>1, <2>2
<1>4. CASE StepOff
    <2>1. why' \in [Thread -> Reason] /\ bps' \subseteq Address
        BY <1>4 DEF StepOff, Going, WithoutBreakpoint, TargetTyped, TableTyped, Reason
    <2>2. TracingTyped' /\ TargetTyped'
        BY <1>0, <1>4, <2>1 DEF StepOff, TracingTyped, TargetTyped
    <2>3. TableTyped' /\ Entered'
        BY <1>0, <1>4, <2>1 DEF StepOff, TargetTyped, TableTyped, Entered, Queue
    <2> QED
        BY <2>2, <2>3
<1>5. CASE StepOffFails
    <2>1. bps' \subseteq Address
        BY <1>5 DEF StepOffFails, TableTyped
    <2> QED
        BY <1>5, <2>1 DEF StepOffFails, TracingTyped, TargetTyped, TableTyped, Entered, Queue
<1>2. CASE StepOffDone
    <2>1. TracingTyped' /\ TargetTyped'
        BY <1>0, <1>2 DEF StepOffDone, SteppedOff, TracingTyped, TargetTyped
    <2>2. TableTyped' /\ Entered'
        BY <1>0, <1>2 DEF StepOffDone, SteppedOff, TargetTyped, TableTyped, Entered, Queue
    <2> QED
        BY <2>1, <2>2
<1>3. CASE StepOffInterrupted
    <2>1. TracingTyped' /\ why' \in [Thread -> Reason]
        BY <1>0, <1>3
           DEF StepOffInterrupted, Going, BackToWait, TracingTyped, TargetTyped, Reason
    <2>2. TargetTyped'
        BY <1>0, <1>3, <2>1 DEF StepOffInterrupted, TargetTyped
    <2>3. TableTyped' /\ Entered'
        BY <1>0, <1>3
           DEF StepOffInterrupted, BackToWait, TargetTyped, TableTyped, Entered, Queue
    <2> QED
        BY <2>1, <2>2, <2>3
<1> QED
    BY <1>1, <1>2, <1>3, <1>4, <1>5

\* The other threads' calls.
LEMMA CallerTypes == ASSUME TInv, Caller PROVE Types'
<1> USE DEF TInv, Types
<1>1. CASE Continue \/ StepInto \/ Pause \/ Stop
    <2>1. /\ UNCHANGED <<tracing, engine, st, why, pc, mid, tf, cloned, asked>>
          /\ paused' \in BOOLEAN /\ stepPending' \in BOOLEAN /\ pauseRequested' \in BOOLEAN
          /\ sigstop' \in BOOLEAN /\ killed' \in BOOLEAN
        <3> USE DEF Quiet, TracingTyped, TargetTyped
        <3>1. CASE Continue
            BY <3>1 DEF Continue
        <3>2. CASE StepInto
            BY <3>2 DEF StepInto
        <3>3. CASE Pause
            BY <3>3 DEF Pause
        <3>4. CASE Stop
            BY <3>4 DEF Stop
        <3> QED
            BY <1>1, <3>1, <3>2, <3>3, <3>4
    <2>2. TracingTyped' /\ TargetTyped'
        BY <2>1 DEF TracingTyped, TargetTyped
    <2>3. TableTyped' /\ Entered'
        BY <2>1 DEF TableTyped, Entered, Queue
    <2> QED
        BY <2>2, <2>3
<1>2. ASSUME NEW a \in Toggled, ToggleBreakpoint(a) PROVE Types'
    <2>1. requests' = Append(requests, [addr |-> a, set |-> ~IsBreakpointEffective(a)])
          /\ Len(requests) < MaxRequests
        BY <1>2 DEF ToggleBreakpoint
    <2>2. [addr |-> a, set |-> ~IsBreakpointEffective(a)] \in Request
        BY DEF Request, Address
    <2>3. Queue' /\ Len(requests') <= MaxRequests
        BY <2>1, <2>2 DEF Queue, TableTyped
    <2> QED
        BY <1>2, <2>3 DEF ToggleBreakpoint, TracingTyped, TargetTyped, TableTyped, Entered
<1> QED
    BY <1>1, <1>2 DEF Caller

\* The kernel keeps the types of the threads, and brings none back to "none".
LEMMA KernelTypes == ASSUME TInv, Kernel PROVE Types'
<1> USE DEF TInv, Types
<1>1. UNCHANGED <<tracing, control, engine, asked>>
    BY DEF Kernel, ExecuteTrap, Execute, Fault, DeliverSigstop, ExitEvent, End, Clone, Killed, Alone
<1> DEFINE Lives == \A u \in Thread :
                        st[u] \notin {"none", "dead"} => st'[u] \notin {"none", "dead"}
<1>2. TargetTyped' /\ Lives
    <2> USE <1>1 DEF TargetTyped, StopsFor, Reason
    <2>1. ASSUME NEW t \in Thread, ExecuteTrap(t) \/ Fault(t) \/ DeliverSigstop(t)
          PROVE  TargetTyped' /\ Lives
        BY <2>1 DEF ExecuteTrap, Fault, DeliverSigstop
    <2>2. ASSUME NEW t \in Thread, Execute(t) PROVE TargetTyped' /\ Lives
        <3>1. pc' \in [Thread -> Address]
            BY <2>2, SuccIsAnAddress DEF Execute
        <3> QED
            BY <2>2, <3>1 DEF Execute
    <2>3. ASSUME NEW t \in Thread, ExitEvent(t) \/ End(t) PROVE TargetTyped' /\ Lives
        BY <2>3 DEF ExitEvent, End
    <2>4. ASSUME NEW t \in Thread, NEW new \in Thread \ {Main}, Clone(t, new)
          PROVE  TargetTyped' /\ Lives
        BY <2>4 DEF Clone
    <2>5. CASE Killed
        BY <2>5 DEF Killed
    <2> QED
        BY <2>1, <2>2, <2>3, <2>4, <2>5 DEF Kernel
<1> QED
    BY <1>1, <1>2 DEF TracingTyped, TableTyped, Entered, Queue

LEMMA NextTInv == TInv /\ [Next]_vars => TInv'
<1> SUFFICES ASSUME TInv, [Next]_vars PROVE Types'
    BY NextIInv DEF TInv
<1>1. CASE Tracer
    <2>1. ASSUME NEW t \in Thread, WaitStops(t) PROVE Types'
        BY <2>1 DEF WaitStops, TInv, Types, TracingTyped, TargetTyped, TableTyped, Entered, Queue
    <2>2. ASSUME NEW t \in Thread, WaitExits(t) PROVE Types'
        BY <2>2, ExitTypes DEF WaitExits
    <2>3. CASE StepOffExits
        BY <2>3, ExitTypes DEF StepOffExits, TInv, IInv, Shape
    <2> QED
        BY <1>1, <2>1, <2>2, <2>3, LaunchTypes, HandlersTypes, StepOffTypes DEF Tracer
<1>2. CASE UNCHANGED vars
    BY <1>2 DEF vars, TInv, Types, TracingTyped, TargetTyped, TableTyped, Entered, Queue
<1> QED
    BY <1>1, <1>2, CallerTypes, KernelTypes DEF Next

LEMMA InitTInv == Init => TInv
<1> SUFFICES ASSUME Init PROVE Types
    BY InitIInv DEF TInv
<1>1. TracingTyped /\ TargetTyped
    BY ZeroIsAnAddress DEF Init, TracingTyped, TargetTyped, Reason
<1>2. TableTyped /\ Entered
    BY DEF Init, TableTyped, Entered, Queue
<1> QED
    BY <1>1, <1>2 DEF Types

(***************************************************************************)
(* Every variable of the tracer, of its callers and of the kernel keeps    *)
(* its type, for any threads, program and queue of requests: no flag is    *)
(* left for a thread that is gone, and requests change no address but the  *)
(* ones asked for.                                                         *)
(***************************************************************************)
THEOREM TypeCorrect == Spec => []TypeOK
<1>1. TInv => TypeOK
    BY TypesAreTypes DEF TInv
<1> QED
    BY <1>1, InitTInv, NextTInv, PTL DEF Spec

=============================================================================

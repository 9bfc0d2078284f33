---------------------------- MODULE StepOffProofs ----------------------------
(***************************************************************************)
(* Proofs about StepOff, for a program of any length, any instructions     *)
(* that fault, either build and any write refused.  That steps are only    *)
(* reported when asked for holds with any number of threads.  The promises *)
(* of the cycle hold while the target has one thread, because only then do *)
(* the records kept per engine speak of the thread that is stepping: it is *)
(* at the breakpoint it leaves, or has made its step and brings the step's *)
(* own exception (Leaving).                                                *)
(***************************************************************************)
EXTENDS StepOff, TLAPS

USE StepOffAssumption
USE DEF book, Address, Nowhere

Enabled == {a \in Address : table[a] = "enabled"}

-----------------------------------------------------------------------------
(***************************************************************************)
(* Types.                                                                  *)
(***************************************************************************)
LEMMA SuccMoves == ASSUME NEW a \in Address PROVE Succ(a) \in Address /\ Succ(a) # a
<1>1. CASE a + 1 < CodeSize
    <2>1. (a + 1) % CodeSize = a + 1
        BY <1>1
    <2> QED
        BY <1>1, <2>1 DEF Succ
<1>2. CASE a + 1 = CodeSize
    <2>1. (a + 1) % CodeSize = 0
        BY <1>2
    <2> QED
        BY <1>2, <2>1 DEF Succ
<1> QED
    BY <1>1, <1>2

\* One byte into an instruction is no instruction, and says which one.
LEMMA PastIsInside ==
    ASSUME NEW a \in Address
    PROVE  /\ Past(a) \in Register \ Address
           /\ Past(a) - CodeSize = a
           /\ Past(a) # Nowhere
BY DEF Past, Register

LEMMA RegisterIs ==
    ASSUME NEW r \in Register
    PROVE  /\ r # Nowhere
           /\ r \in Address \/ r - CodeSize \in Address
BY DEF Past, Register

\* The helpers of handleException() keep the types.
LEMMA PutBackTyped ==
    ASSUME TypeOK, NEW others \in SUBSET Address, NEW a \in Address \cup {Nowhere},
           PutBack(others, a)
    PROVE  armed' \subseteq Address /\ lost' \subseteq Address
<1>1. armed' = others \cup {b \in {a} \ {Nowhere} : table[b] = "enabled"} \/ armed' = others
    BY DEF PutBack
<1>2. armed' \subseteq Address
    BY <1>1
<1>3. lost' = lost \ {a} \/ (a # Nowhere /\ lost' = lost \cup {a})
    BY DEF PutBack
<1>4. lost' \subseteq Address
    BY <1>3 DEF TypeOK
<1> QED
    BY <1>2, <1>4

LEMMA ReplyTyped ==
    ASSUME TypeOK, NEW t \in Thread, Reply(t)
    PROVE  /\ exc' \in [Thread -> Exception \cup {"none"}]
           /\ signal' \in [Thread -> {"none", "trap", "cont"}]
BY DEF Reply, TypeOK

LEMMA HelpersTyped ==
    ASSUME TypeOK, NEW t \in Thread, NEW read \in BOOLEAN
    PROVE  /\ Completion(t) \in BOOLEAN /\ Hit(t, read) \in BOOLEAN
           /\ EndsCycle(t, read) \in BOOLEAN
           /\ Hit(t, read) => HitAt(t) \in Address
BY DEF Completion, Hit, EndsCycle, TypeOK

LEMMA CompleteStepTyped ==
    ASSUME TypeOK, NEW t \in Thread, CompleteStep(t)
    PROVE  /\ stepArmed' \in BOOLEAN /\ singleStep' \in [Thread -> BOOLEAN]
           /\ stray' \subseteq Thread
<1>1. stepArmed' \in BOOLEAN
    BY DEF CompleteStep, Completion, TypeOK
<1>2. singleStep' \in [Thread -> BOOLEAN]
    BY DEF CompleteStep, TypeOK
<1>3. stray' \subseteq Thread
    BY DEF CompleteStep, TypeOK
<1> QED
    BY <1>1, <1>2, <1>3

LEMMA EndCycleTyped ==
    ASSUME TypeOK, NEW t \in Thread, NEW read \in BOOLEAN, EndCycle(t, read)
    PROVE  /\ steppingOver' \in BOOLEAN /\ stepWasRequested' \in BOOLEAN
           /\ steppingOffFrom' \in Register \cup {Nowhere}
           /\ armed' \subseteq Address /\ lost' \subseteq Address
<1>1. CASE EndsCycle(t, read)
    <2>1. PutBack(armed, stoppedAt)
        BY <1>1 DEF EndCycle
    <2>2. armed' \subseteq Address /\ lost' \subseteq Address
        BY <2>1, PutBackTyped DEF TypeOK
    <2> QED
        BY <1>1, <2>2 DEF EndCycle
<1>2. CASE ~EndsCycle(t, read)
    BY <1>2 DEF EndCycle, TypeOK
<1> QED
    BY <1>1, <1>2

\* One pass through handleException() keeps them.
LEMMA HandleTyped == ASSUME TypeOK, NEW t \in Thread, Handle(t) PROVE TypeOK'
<1>0. PICK read \in BOOLEAN :
          \/ AnswerLeftover(t, read) \/ AnswerStepOff(t, read)
          \/ AnswerQueuedTrap(t, read) \/ AnswerSigcont(t) \/ ReportStop(t, read)
    BY DEF Handle
<1>1. CASE AnswerLeftover(t, read)
    BY <1>1, ReplyTyped DEF AnswerLeftover, history, TypeOK
<1>2. CASE AnswerStepOff(t, read)
    <2>1. /\ Reply(t) /\ CompleteStep(t) /\ EndCycle(t, read)
          /\ stoppedAt' = Nowhere
          /\ UNCHANGED <<loop, current, event, queuedTrapExpected, seenFirstStop,
                         table, pc, build, asked>>
        BY <1>2 DEF AnswerStepOff
    <2> QED
        BY <2>1, ReplyTyped, CompleteStepTyped, EndCycleTyped DEF TypeOK
<1>3. CASE AnswerQueuedTrap(t, read)
    <2>1. /\ Reply(t) /\ CompleteStep(t) /\ EndCycle(t, read)
          /\ UNCHANGED <<loop, current, event, seenFirstStop, table, pc, build, asked>>
        BY <1>3, Zenon DEF AnswerQueuedTrap
    <2>2. stoppedAt' = (IF EndsCycle(t, read) THEN Nowhere ELSE stoppedAt)
        BY <1>3, Zenon DEF AnswerQueuedTrap
    <2>3. stoppedAt' \in Address \cup {Nowhere}
        BY <2>2, SMT DEF TypeOK
    <2>4. queuedTrapExpected' \in BOOLEAN
        BY <1>3, Zenon DEF AnswerQueuedTrap
    <2> QED
        BY <2>1, <2>3, <2>4, ReplyTyped, CompleteStepTyped, EndCycleTyped DEF TypeOK
<1>4. CASE AnswerSigcont(t)
    BY <1>4, ReplyTyped DEF AnswerSigcont, history, TypeOK
<1>5. CASE ReportStop(t, read)
    <2>1. event' \in Event /\ asked' \in BOOLEAN /\ seenFirstStop' \in BOOLEAN
        BY <1>5 DEF ReportStop, Classify, Event, TypeOK
    <2>2. stoppedAt' \in Address \cup {Nowhere} /\ queuedTrapExpected' \in BOOLEAN
        BY <1>5, HelpersTyped DEF ReportStop, TypeOK
    <2>3. loop' = "parked" /\ current' = t
        BY <1>5 DEF ReportStop
    <2>4. UNCHANGED <<build, table, exc, signal>>
        BY <1>5 DEF ReportStop
    <2>5. CompleteStep(t) /\ EndCycle(t, read)
        BY <1>5 DEF ReportStop
    <2>6. pc' \in [Thread -> Register]
        BY <1>5, HelpersTyped DEF ReportStop, Rewind, Register, TypeOK
    <2> QED
        BY <2>1, <2>2, <2>3, <2>4, <2>5, <2>6, CompleteStepTyped, EndCycleTyped DEF TypeOK
<1> QED
    BY <1>0, <1>1, <1>2, <1>3, <1>4, <1>5

\* So does the way from the decision to the reply.
LEMMA ResumeTyped == ASSUME TypeOK, NEW step \in BOOLEAN, Resume(step) PROVE TypeOK'
<1>1. /\ armed' \subseteq Address /\ lost' \subseteq Address
      /\ steppingOver' \in BOOLEAN /\ stepWasRequested' \in BOOLEAN
      /\ stepArmed' \in BOOLEAN /\ singleStep' \in [Thread -> BOOLEAN]
      /\ steppingOffFrom' \in Register \cup {Nowhere}
      /\ stoppedAt' \in Address \cup {Nowhere}
    <2>1. CASE BeginCycle(step)
        BY <2>1 DEF BeginCycle, TypeOK
    <2>2. CASE NoCycle(step)
        <3>1. armed' \subseteq Address /\ lost' \subseteq Address
            <4>1. CASE UNCHANGED <<armed, lost>>
                BY <4>1 DEF TypeOK
            <4>2. CASE PutBack(armed \ {stoppedAt}, stoppedAt)
                BY <4>2, PutBackTyped DEF TypeOK
            <4> QED
                BY <2>2, <4>1, <4>2 DEF NoCycle
        <3> QED
            BY <2>2, <3>1 DEF NoCycle, TypeOK
    <2> QED
        BY <2>1, <2>2 DEF Resume
<1>2. /\ exc' \in [Thread -> Exception \cup {"none"}]
      /\ signal' \in [Thread -> {"none", "trap", "cont"}]
    BY ReplyTyped DEF Resume, TypeOK
<1>3. /\ loop' = "receive" /\ event' \in Event
      /\ asked' \in BOOLEAN
      /\ UNCHANGED <<build, current, queuedTrapExpected, seenFirstStop, table, pc, stray>>
    BY DEF Resume, Event, TypeOK
<1> QED
    BY <1>1, <1>2, <1>3 DEF TypeOK

LEMMA TargetTyped == ASSUME TypeOK, NEW t \in Thread, TargetStep(t) PROVE TypeOK'
<1>1. CASE Deliver(t)
    BY <1>1 DEF Deliver, Raise, history, TypeOK, Exception
<1>2. CASE Trap(t)
    <2>1. pc' \in [Thread -> Register]
        <3>1. pc[t] \in Address
            BY <1>2 DEF Trap, TypeOK
        <3>2. Past(pc[t]) \in Register
            BY <3>1, PastIsInside
        <3> QED
            BY <1>2, <3>2 DEF Trap, TypeOK
    <2>2. exc' \in [Thread -> Exception \cup {"none"}]
        BY <1>2 DEF Trap, Raise, TypeOK, Exception, Breakpoints
    <2> QED
        BY <1>2, <2>1, <2>2 DEF Trap, history, TypeOK
<1>3. CASE Fault(t)
    BY <1>3 DEF Fault, Raise, history, TypeOK, Exception
<1>4. CASE Execute(t)
    <2>1. pc' \in [Thread -> Register]
        BY <1>4, SuccMoves DEF Execute, Register, TypeOK
    <2>2. exc' \in [Thread -> Exception \cup {"none"}]
        BY <1>4 DEF Execute, Raise, TypeOK, Exception, Breakpoints
    <2> QED
        BY <1>4, <2>1, <2>2 DEF Execute, history, TypeOK
<1> QED
    BY <1>1, <1>2, <1>3, <1>4 DEF TargetStep

LEMMA OthersTyped ==
    ASSUME TypeOK, Stop \/ (\E a \in Address : Edit(a)) \/ UNCHANGED vars
    PROVE  TypeOK'
<1>1. CASE Stop
    BY <1>1 DEF Stop, history, TypeOK
<1>2. ASSUME NEW a \in Address, Edit(a) PROVE TypeOK'
    <2>1. table' \in [Address -> {"none", "enabled", "disabled"}] /\ armed' \subseteq Address
        <3>1. PICK s \in {"none", "enabled", "disabled"} : table' = [table EXCEPT ![a] = s]
            BY <1>2 DEF Edit, Enable, Withdraw
        <3>2. armed' \subseteq armed \cup {a}
            BY <1>2 DEF Edit, Enable, Withdraw
        <3> QED
            BY <3>1, <3>2 DEF TypeOK
    <2>2. UNCHANGED <<loop, current, event, book, thread, build, asked, stray>>
        BY <1>2 DEF Edit
    <2>3. lost' \subseteq Address
        BY <1>2 DEF Edit, TypeOK
    <2> QED
        BY <2>1, <2>2, <2>3 DEF thread, TypeOK
<1>3. CASE UNCHANGED vars
    BY <1>3 DEF vars, thread, history, TypeOK
<1> QED
    BY <1>1, <1>2, <1>3

LEMMA StepTyped == TypeOK /\ [Next]_vars => TypeOK'
<1> SUFFICES ASSUME TypeOK, [Next]_vars PROVE TypeOK'
    OBVIOUS
<1>1. ASSUME NEW t \in Thread, Handle(t) PROVE TypeOK'
    BY <1>1, HandleTyped
<1>2. ASSUME NEW t \in Thread, TargetStep(t) PROVE TypeOK'
    BY <1>2, TargetTyped
<1>3. CASE Continue \/ StepInto
    BY <1>3, ResumeTyped DEF Continue, StepInto
<1> QED
    BY <1>1, <1>2, <1>3, OthersTyped DEF Next

LEMMA InitTyped == Init => TypeOK
<1> SUFFICES ASSUME Init PROVE TypeOK
    OBVIOUS
<1>1. PICK first \in {<<"cont", "none">>, <<"stop", "cont">>} :
          /\ exc = [t \in Thread |-> IF t = Main THEN first[1] ELSE "none"]
          /\ signal = [t \in Thread |-> IF t = Main THEN first[2] ELSE "none"]
    BY DEF Init, Handshake
<1>2. /\ exc \in [Thread -> Exception \cup {"none"}]
      /\ signal \in [Thread -> {"none", "trap", "cont"}]
    BY <1>1 DEF Exception
<1>3. pc \in [Thread -> Register] /\ table \in [Address -> {"none", "enabled", "disabled"}]
    BY DEF Init, Register
<1> QED
    BY <1>2, <1>3 DEF Init, TypeOK, Event

(***************************************************************************)
(* Every record of the engine keeps its type, for any threads, program and *)
(* builds: what handleException() remembers is an address of the program   *)
(* or none, whatever it is interrupted by.                                 *)
(***************************************************************************)
THEOREM TypeCorrect == Spec => []TypeOK
<1> QED
    BY InitTyped, StepTyped, PTL DEF Spec

-----------------------------------------------------------------------------
(***************************************************************************)
(* Steps are only reported when they were asked for.                       *)
(***************************************************************************)
\* A step that is armed outside a cycle, or requested inside one, was asked
\* for; a cycle has its step armed.
Wanted ==
    /\ stepArmed /\ ~steppingOver => asked
    /\ steppingOver => stepArmed
    /\ steppingOver /\ stepWasRequested => asked

\* What the two silent answers and the report have in common.
LEMMA StepEnds ==
    ASSUME TypeOK, Wanted, NEW t \in Thread, NEW read \in BOOLEAN,
           ~Leftover(t, read), CompleteStep(t), EndCycle(t, read)
    PROVE  /\ steppingOver' => steppingOver /\ stepArmed' /\ stepWasRequested' = stepWasRequested
           /\ stepArmed' => stepArmed /\ ~Completion(t) /\ steppingOver' = steppingOver
BY HelpersTyped DEF CompleteStep, EndCycle, EndsCycle, Completion, Wanted, TypeOK

LEMMA HandleWanted ==
    ASSUME TypeOK, Wanted, NEW t \in Thread, Handle(t)
    PROVE  Wanted' /\ (event' = "step" /\ event # "step" => asked)
<1>0. PICK read \in BOOLEAN :
          \/ AnswerLeftover(t, read) \/ AnswerStepOff(t, read)
          \/ AnswerQueuedTrap(t, read) \/ AnswerSigcont(t) \/ ReportStop(t, read)
    BY DEF Handle
<1>1. CASE AnswerLeftover(t, read)
    BY <1>1 DEF AnswerLeftover, history, Wanted
<1>2. CASE AnswerStepOff(t, read)
    <2>1. ~Leftover(t, read)
        BY <1>2 DEF AnswerStepOff, EndsCycle
    <2> QED
        BY <1>2, <2>1, StepEnds DEF AnswerStepOff, Wanted, TypeOK
<1>3. CASE AnswerQueuedTrap(t, read)
    <2>1. ~Leftover(t, read)
        BY <1>3 DEF AnswerQueuedTrap, Goes
    <2> QED
        BY <1>3, <2>1, StepEnds DEF AnswerQueuedTrap, Wanted, TypeOK
<1>4. CASE AnswerSigcont(t)
    BY <1>4 DEF AnswerSigcont, history, Wanted
<1>5. CASE ReportStop(t, read)
    <2>1. ~Leftover(t, read) /\ CompleteStep(t) /\ EndCycle(t, read)
        BY <1>5 DEF ReportStop, Goes
    <2>2. ASSUME Classify(t, read) = "step" PROVE Completion(t) /\ asked
        <3>1. Completion(t)
            BY <2>2 DEF Classify
        <3>2. stepArmed
            BY <3>1 DEF Completion
        <3>3. CASE steppingOver
            BY <1>5, <2>1, <3>1, <3>3 DEF ReportStop, Goes, EndsCycle, Wanted
        <3> QED
            BY <3>1, <3>2, <3>3 DEF Wanted, TypeOK
    <2>3. asked' = (asked /\ Classify(t, read) # "step") /\ event' = Classify(t, read)
        BY <1>5 DEF ReportStop
    <2>4. CASE Classify(t, read) = "step"
        <3>1. ~stepArmed' /\ ~steppingOver'
            BY <2>1, <2>2, <2>4, StepEnds
        <3> QED
            BY <2>2, <2>4, <3>1 DEF Wanted
    <2>5. CASE Classify(t, read) # "step"
        BY <2>1, <2>3, <2>5, StepEnds DEF Wanted, TypeOK
    <2> QED
        BY <2>4, <2>5
<1> QED
    BY <1>0, <1>1, <1>2, <1>3, <1>4, <1>5

LEMMA ResumeWanted == ASSUME TypeOK, Wanted, NEW step \in BOOLEAN, Resume(step) PROVE Wanted'
<1>1. asked' = (step \/ asked)
    BY DEF Resume
<1>2. CASE BeginCycle(step)
    BY <1>1, <1>2 DEF BeginCycle, Wanted, TypeOK
<1>3. CASE NoCycle(step)
    <2>1. PICK stepping \in {FALSE, step} : stepArmed' = (stepping \/ stepArmed)
        BY <1>3 DEF NoCycle
    <2>2. stepArmed' => step \/ stepArmed
        BY <2>1
    <2>3. stepArmed => stepArmed'
        BY <2>1
    <2>4. UNCHANGED <<steppingOver, stepWasRequested>>
        BY <1>3 DEF NoCycle
    <2>5. asked' <=> step \/ asked
        BY <1>1
    <2> QED
        BY <2>2, <2>3, <2>4, <2>5, Zenon DEF Wanted
<1> QED
    BY <1>2, <1>3 DEF Resume

\* The others touch neither the step nor what was asked, except that Stop
\* disarms the step when it ends the loop: hence the loop's part below.
AskedIsKept == loop # "ended" => Wanted

LEMMA StepWanted ==
    TypeOK /\ AskedIsKept /\ [Next]_vars
        => AskedIsKept' /\ (event' = "step" /\ event # "step" => asked)
<1> SUFFICES ASSUME TypeOK, AskedIsKept, [Next]_vars
             PROVE  AskedIsKept' /\ (event' = "step" /\ event # "step" => asked)
    OBVIOUS
<1>1. ASSUME NEW t \in Thread, Handle(t)
      PROVE  AskedIsKept' /\ (event' = "step" /\ event # "step" => asked)
    <2>1. loop # "ended"
        BY <1>1 DEF Handle
    <2> QED
        BY <1>1, <2>1, HandleWanted DEF AskedIsKept
<1>2. ASSUME NEW t \in Thread, TargetStep(t) PROVE AskedIsKept' /\ event' = event
    <2>1. UNCHANGED <<loop, event, book, asked>>
        BY <1>2 DEF TargetStep, Deliver, Trap, Fault, Execute, history
    <2> QED
        BY <2>1 DEF AskedIsKept, Wanted
<1>3. CASE Continue \/ StepInto
    <2>1. PICK step \in BOOLEAN : Resume(step)
        BY <1>3 DEF Continue, StepInto
    <2>2. loop # "ended" /\ event' = "none"
        BY <2>1 DEF Resume
    <2> QED
        BY <2>1, <2>2, ResumeWanted DEF AskedIsKept
<1>4. CASE Stop
    BY <1>4 DEF Stop, AskedIsKept
<1>5. ASSUME NEW a \in Address, Edit(a) PROVE AskedIsKept' /\ event' = event
    <2>1. UNCHANGED <<loop, event, book, asked>>
        BY <1>5 DEF Edit
    <2> QED
        BY <2>1 DEF AskedIsKept, Wanted
<1>6. CASE UNCHANGED vars
    BY <1>6 DEF vars, history, AskedIsKept, Wanted
<1> QED
    BY <1>1, <1>2, <1>3, <1>4, <1>5, <1>6 DEF Next

(***************************************************************************)
(* cbStep is only called for a StepInto, with any number of threads: the   *)
(* step that gets the target off a breakpoint is never reported as one.    *)
(***************************************************************************)
THEOREM StepsAreAskedFor == Spec => NoUnaskedStep
<1>1. Init => AskedIsKept
    BY DEF Init, AskedIsKept, Wanted
<1>2. TypeOK /\ AskedIsKept /\ [Next]_vars => [event' = "step" /\ event # "step" => asked]_vars
    BY StepWanted
<1> QED
    BY <1>1, <1>2, InitTyped, StepTyped, StepWanted, PTL DEF Spec, NoUnaskedStep

-----------------------------------------------------------------------------
(***************************************************************************)
(* The cycle, for a target with one thread.                                *)
(***************************************************************************)
\* The thread is at the breakpoint it stopped at, or inside it: on x86-64 a
\* trap that the target or the engine could not undo leaves it there.
Here == pc[Main] = stoppedAt \/ pc[Main] = Past(stoppedAt)

\* Nothing but its trap has happened to it since the cycle began.
Waiting ==
    /\ Here
    /\ exc[Main] # "bp" => steppingOffFrom \in {Nowhere, pc[Main]}

\* The step that gets the thread off its breakpoint has been made.
SteppedOff == exc[Main] \in {"step", "trap"} /\ pc[Main] # steppingOffFrom

\* Where the thread is while an address is remembered.
Leaving ==
    stoppedAt # Nowhere =>
        \/ loop = "parked" /\ Here
        \/ loop = "receive" /\ steppingOver /\ (Waiting \/ SteppedOff)

\* A trap belongs to an enabled breakpoint, and an enabled breakpoint has one
\* unless it is reported as lost or a cycle has taken it out.
Kept ==
    /\ armed \subseteq Enabled
    /\ Enabled \subseteq armed \cup lost \cup (IF steppingOver THEN {stoppedAt} ELSE {})

\* The thread's flag is the engine's, or one that it reported as stuck.
FlagsAgree ==
    /\ stepArmed => singleStep[Main]
    /\ singleStep[Main] => stepArmed \/ Main \in stray

Cycle == /\ Kept /\ Leaving /\ FlagsAgree
         /\ steppingOver => stepArmed
         /\ loop = "parked" => exc[Main] # "none"

IInv == TypeOK /\ current = Main /\ (loop # "ended" => Cycle)

\* What is put back is enabled, and then nothing is missing in silence.
LEMMA PutBackKeeps ==
    ASSUME TypeOK, NEW others \in SUBSET Enabled, PutBack(others, stoppedAt),
           Enabled \subseteq others \cup lost \cup {stoppedAt}, UNCHANGED table
    PROVE  armed' \subseteq Enabled' /\ Enabled' \subseteq armed' \cup lost'
<1>1. Enabled' = Enabled
    BY DEF Enabled
<1>2. {b \in {stoppedAt} \ {Nowhere} : table[b] = "enabled"} = Enabled \cap {stoppedAt}
    BY DEF Enabled, TypeOK
<1>3. CASE armed' = others \cup (Enabled \cap {stoppedAt}) /\ lost' = lost \ {stoppedAt}
    BY <1>1, <1>3
<1>4. CASE armed' = others /\ lost' = lost \cup {stoppedAt}
    BY <1>1, <1>4
<1> QED
    BY <1>2, <1>3, <1>4 DEF PutBack

\* In a cycle that still remembers its breakpoint the thread has not moved
\* unless its step is complete; and a hit is one of that breakpoint.
LEMMA OnlyTheStepLeaves ==
    ASSUME TypeOK, Cycle, loop = "receive", stoppedAt # Nowhere, ~Completion(Main),
           NEW read \in BOOLEAN
    PROVE  Waiting /\ steppingOver /\ (Hit(Main, read) => HitAt(Main) = stoppedAt)
<1>1. steppingOver /\ stepArmed
    BY DEF Cycle, Leaving
<1>2. ~SteppedOff
    BY <1>1 DEF SteppedOff, Completion, IsSingleStepTrap
<1>3. Waiting /\ stoppedAt \in Address
    BY <1>2 DEF Cycle, Leaving, TypeOK
<1>4. ASSUME Hit(Main, read) PROVE HitAt(Main) = stoppedAt
    <2>1. exc[Main] = "bp" /\ ~build.arm64 /\ HitAt(Main) \in Address
        BY <1>1, <1>4 DEF Hit, Breakpoints, Completion, IsSingleStepTrap, TypeOK
    <2>2. HitAt(Main) = pc[Main] - CodeSize /\ pc[Main] \notin Address
        BY <2>1 DEF HitAt
    <2>3. pc[Main] = Past(stoppedAt)
        BY <1>3, <2>2 DEF Waiting, Here
    <2> QED
        BY <1>3, <2>2, <2>3, PastIsInside
<1> QED
    BY <1>1, <1>3, <1>4

\* The end of a cycle, for whichever of its answers.
LEMMA CycleIsOver ==
    ASSUME TypeOK, Cycle, loop = "receive", NEW read \in BOOLEAN, ~Leftover(Main, read),
           CompleteStep(Main), EndCycle(Main, read), UNCHANGED table,
           stoppedAt' = IF Hit(Main, read) THEN HitAt(Main)
                        ELSE IF EndsCycle(Main, read) THEN Nowhere ELSE stoppedAt
    PROVE  Kept' /\ FlagsAgree' /\ (steppingOver' => stepArmed')
<1>1. FlagsAgree'
    <2>1. CASE Completion(Main)
        <3>1. ~stepArmed'
            BY <2>1 DEF CompleteStep, TypeOK, Completion
        <3>2. singleStep'[Main] = FALSE \/ Main \in stray'
            BY <2>1 DEF CompleteStep, TypeOK
        <3> QED
            BY <3>1, <3>2 DEF FlagsAgree
    <2>2. CASE ~Completion(Main)
        <3>1. stepArmed' = stepArmed /\ UNCHANGED <<singleStep, stray>>
            BY <2>2 DEF CompleteStep, TypeOK
        <3> QED
            BY <3>1 DEF Cycle, FlagsAgree
    <2> QED
        BY <2>1, <2>2
<1>2. CASE EndsCycle(Main, read)
    <2>1. ~steppingOver' /\ PutBack(armed, stoppedAt) /\ steppingOver
        BY <1>2 DEF EndCycle, EndsCycle
    <2>2. armed \subseteq Enabled /\ Enabled \subseteq armed \cup lost \cup {stoppedAt}
        BY <2>1 DEF Cycle, Kept
    <2>3. armed' \subseteq Enabled' /\ Enabled' \subseteq armed' \cup lost'
        BY <2>1, <2>2, PutBackKeeps
    <2> QED
        BY <1>1, <2>1, <2>3 DEF Kept
<1>3. CASE ~EndsCycle(Main, read)
    <2>1. UNCHANGED <<steppingOver, armed, lost>>
        BY <1>3 DEF EndCycle
    <2>2. steppingOver => ~Completion(Main)
        BY <1>3 DEF EndsCycle
    <2>3. steppingOver' => stepArmed'
        BY <2>1, <2>2 DEF CompleteStep, Cycle, TypeOK
    <2>4. steppingOver /\ stoppedAt # Nowhere => stoppedAt' = stoppedAt
        BY <1>3, <2>2, OnlyTheStepLeaves
    <2>5. steppingOver /\ stoppedAt = Nowhere => Enabled \subseteq armed \cup lost
        BY DEF Cycle, Kept, Enabled
    <2>6. Enabled' = Enabled
        BY DEF Enabled
    <2>7. Kept'
        BY <2>1, <2>4, <2>5, <2>6 DEF Cycle, Kept
    <2> QED
        BY <1>1, <2>3, <2>7
<1> QED
    BY <1>2, <1>3

\* What an answer leaves behind that touches neither the book nor the thread.
LEMMA UndisturbedCycle ==
    ASSUME Cycle, UNCHANGED <<loop, book, table, armed, lost, stray, pc, singleStep>>,
           loop = "receive", stoppedAt # Nowhere => Waiting', Leaving'
    PROVE  Cycle' /\ loop' # "ended"
BY DEF Cycle, Kept, FlagsAgree, Enabled

LEMMA HandleCycle ==
    ASSUME Thread = {Main}, TypeOK, Cycle, Handle(Main)
    PROVE  Cycle' /\ loop' # "ended"
<1>0. PICK read \in BOOLEAN :
          \/ AnswerLeftover(Main, read) \/ AnswerStepOff(Main, read)
          \/ AnswerQueuedTrap(Main, read) \/ AnswerSigcont(Main) \/ ReportStop(Main, read)
    BY DEF Handle
<1>1. loop = "receive" /\ exc[Main] # "none"
    BY DEF Handle
<1>2. stoppedAt # Nowhere => steppingOver /\ stepArmed
    BY <1>1 DEF Cycle, Leaving
<1>3. CASE AnswerLeftover(Main, read)
    <2>1. UNCHANGED <<loop, book, table, armed, lost, stray, pc, singleStep>>
        BY <1>3 DEF AnswerLeftover, history
    <2>2. steppingOffFrom = pc[Main]
        BY <1>3 DEF AnswerLeftover, Leftover
    <2>3. stoppedAt # Nowhere => Waiting'
        BY <1>1, <2>1, <2>2 DEF Cycle, Leaving, SteppedOff, Waiting, Here
    <2>4. Leaving'
        BY <1>1, <1>2, <2>1, <2>3 DEF Leaving
    <2> QED
        BY <1>1, <2>1, <2>3, <2>4, UndisturbedCycle
<1>4. CASE AnswerStepOff(Main, read)
    <2>1. /\ EndsCycle(Main, read) /\ CompleteStep(Main) /\ EndCycle(Main, read)
          /\ stoppedAt' = Nowhere /\ UNCHANGED <<loop, table>>
        BY <1>4 DEF AnswerStepOff
    <2>2. ~Hit(Main, read) /\ ~Leftover(Main, read)
        BY <2>1 DEF EndsCycle, Hit
    <2>3. Kept' /\ FlagsAgree' /\ (steppingOver' => stepArmed')
        BY <1>1, <2>1, <2>2, CycleIsOver
    <2> QED
        BY <1>1, <2>1, <2>3 DEF Cycle, Leaving
<1>5. CASE AnswerQueuedTrap(Main, read)
    <2>1. /\ ~Leftover(Main, read) /\ CompleteStep(Main) /\ EndCycle(Main, read)
          /\ stoppedAt' = IF EndsCycle(Main, read) THEN Nowhere ELSE stoppedAt
          /\ UNCHANGED <<loop, table>>
        BY <1>5 DEF AnswerQueuedTrap, Goes
    <2>2. exc[Main] = "trap" /\ ~(stepArmed /\ ~Completion(Main))
        BY <1>5 DEF AnswerQueuedTrap, QueuedTrapArrived
    <2>3. ~Hit(Main, read)
        BY <2>2 DEF Hit, Breakpoints
    <2>4. stoppedAt' = Nowhere
        BY <1>2, <2>1, <2>2 DEF EndsCycle
    <2>5. Kept' /\ FlagsAgree' /\ (steppingOver' => stepArmed')
        BY <1>1, <2>1, <2>3, CycleIsOver
    <2> QED
        BY <1>1, <2>1, <2>4, <2>5 DEF Cycle, Leaving
<1>6. CASE AnswerSigcont(Main)
    <2>1. /\ UNCHANGED <<loop, stepArmed, stoppedAt, steppingOver, steppingOffFrom,
                         table, armed, lost, stray, pc, singleStep>>
          /\ exc[Main] = "cont"
        BY <1>6 DEF AnswerSigcont, history
    <2>2. stoppedAt # Nowhere => Waiting'
        BY <1>1, <2>1 DEF Cycle, Leaving, SteppedOff, Waiting, Here
    <2>3. Leaving'
        BY <1>1, <1>2, <2>1, <2>2 DEF Leaving
    <2>4. Kept' /\ FlagsAgree'
        BY <2>1 DEF Cycle, Kept, FlagsAgree, Enabled
    <2> QED
        BY <1>1, <2>1, <2>3, <2>4 DEF Cycle
<1>7. CASE ReportStop(Main, read)
    <2>1. /\ ~Leftover(Main, read) /\ CompleteStep(Main) /\ EndCycle(Main, read)
          /\ stoppedAt' = IF Hit(Main, read) THEN HitAt(Main)
                          ELSE IF EndsCycle(Main, read) THEN Nowhere ELSE stoppedAt
          /\ loop' = "parked" /\ UNCHANGED <<table, exc>>
        BY <1>7 DEF ReportStop, Goes
    <2>2. pc' = pc \/ (Hit(Main, read) /\ pc'[Main] = HitAt(Main))
        BY <1>7 DEF ReportStop, Rewind, TypeOK
    <2>3. ASSUME stoppedAt' # Nowhere PROVE Here'
        <3>1. CASE Hit(Main, read)
            <4>1. HitAt(Main) \in Address
                BY <3>1, HelpersTyped
            <4>2. pc[Main] \in Register
                BY DEF TypeOK
            <4>3. pc[Main] = HitAt(Main) \/ pc[Main] = Past(HitAt(Main))
                BY <4>1, <4>2 DEF HitAt, Past, Register
            <4> QED
                BY <2>1, <2>2, <3>1, <4>3 DEF Here
        <3>2. CASE ~Hit(Main, read)
            <4>1. ~EndsCycle(Main, read) /\ stoppedAt' = stoppedAt /\ pc' = pc
                BY <2>1, <2>2, <2>3, <3>2
            <4>2. ~Completion(Main)
                BY <1>2, <2>1, <2>3, <4>1 DEF EndsCycle
            <4>3. Waiting
                BY <1>1, <2>3, <4>1, <4>2, OnlyTheStepLeaves
            <4> QED
                BY <4>1, <4>3 DEF Waiting, Here
        <3> QED
            BY <3>1, <3>2
    <2>4. Kept' /\ FlagsAgree' /\ (steppingOver' => stepArmed')
        BY <1>1, <2>1, CycleIsOver
    <2> QED
        BY <1>1, <2>1, <2>3, <2>4 DEF Cycle, Leaving
<1> QED
    BY <1>0, <1>3, <1>4, <1>5, <1>6, <1>7

LEMMA ResumeCycle ==
    ASSUME TypeOK, Cycle, current = Main, NEW step \in BOOLEAN, Resume(step)
    PROVE  Cycle' /\ loop' # "ended"
<1>1. loop = "parked" /\ loop' = "receive" /\ UNCHANGED <<pc, table, stray>>
    BY DEF Resume
<1>2. Enabled' = Enabled /\ armed \subseteq Enabled
      /\ Enabled \subseteq armed \cup lost \cup {stoppedAt}
    BY <1>1 DEF Cycle, Kept, Enabled
<1>3. exc'[Main] = "none"
    BY DEF Resume, Reply, TypeOK
<1>4. CASE BeginCycle(step)
    <2>1. /\ armed' = armed \ {stoppedAt} /\ stepArmed' /\ steppingOver'
          /\ singleStep'[Main] /\ steppingOffFrom' \in {pc[Main], Nowhere}
          /\ UNCHANGED <<stoppedAt, lost>>
        BY <1>4 DEF BeginCycle, TypeOK
    <2>2. Kept'
        BY <1>2, <2>1 DEF Kept
    <2>3. stoppedAt # Nowhere => Here
        BY <1>1 DEF Cycle, Leaving
    <2>4. Leaving'
        BY <1>1, <2>1, <2>3 DEF Leaving, Waiting, Here
    <2> QED
        BY <1>1, <2>1, <2>2, <2>4 DEF Cycle, FlagsAgree
<1>5. CASE NoCycle(step)
    <2>1. stoppedAt' = Nowhere /\ UNCHANGED steppingOver
        BY <1>5 DEF NoCycle
    <2>2. armed' \subseteq Enabled' /\ Enabled' \subseteq armed' \cup lost'
        <3>1. CASE stoppedAt \notin Listed \ armed /\ UNCHANGED <<armed, lost>>
            <4>1. stoppedAt \in Enabled => stoppedAt \in armed
                BY <3>1 DEF Listed, Enabled
            <4> QED
                BY <1>2, <3>1, <4>1
        <3>2. CASE PutBack(armed \ {stoppedAt}, stoppedAt)
            BY <1>1, <1>2, <3>2, PutBackKeeps
        <3> QED
            BY <1>5, <3>1, <3>2 DEF NoCycle
    <2>3. Kept'
        BY <2>1, <2>2 DEF Kept
    <2>4. FlagsAgree' /\ (stepArmed => stepArmed')
        <3>1. PICK stepping \in {FALSE, step} :
                  /\ stepArmed' = (stepping \/ stepArmed)
                  /\ singleStep' = IF stepping THEN [singleStep EXCEPT ![Main] = TRUE]
                                               ELSE singleStep
            BY <1>5 DEF NoCycle
        <3>2. CASE stepping
            BY <1>1, <3>1, <3>2 DEF FlagsAgree, TypeOK
        <3>3. CASE ~stepping
            BY <1>1, <3>1, <3>3 DEF Cycle, FlagsAgree, TypeOK
        <3> QED
            BY <3>2, <3>3
    <2> QED
        BY <1>1, <2>1, <2>3, <2>4 DEF Cycle, Leaving
<1> QED
    BY <1>4, <1>5 DEF Resume

LEMMA TargetCycle ==
    ASSUME TypeOK, Cycle, TargetStep(Main)
    PROVE  Cycle' /\ UNCHANGED <<loop, current>>
<1>0. exc[Main] = "none" /\ loop = "receive"
    <2>1. Runs(Main)
        BY DEF TargetStep, Deliver, Trap, Fault, Execute
    <2>2. exc[Main] = "none" /\ loop # "ended"
        BY <2>1 DEF Runs
    <2> QED
        BY <2>2 DEF Cycle, TypeOK
<1>1. /\ UNCHANGED <<loop, current, book, table, armed, lost, stray, singleStep>>
      /\ Kept' /\ FlagsAgree' /\ (steppingOver' => stepArmed')
    <2>1. UNCHANGED <<loop, current, book, table, armed, lost, stray, singleStep>>
        BY DEF TargetStep, Deliver, Trap, Fault, Execute, history
    <2> QED
        BY <2>1 DEF Cycle, Kept, FlagsAgree, Enabled
<1>2. ASSUME stoppedAt # Nowhere
      PROVE  /\ steppingOver /\ singleStep[Main] /\ Here
             /\ steppingOffFrom \in {Nowhere, pc[Main]}
    BY <1>0, <1>2 DEF Cycle, Leaving, SteppedOff, Waiting, FlagsAgree
<1>3. ASSUME stoppedAt # Nowhere PROVE Waiting' \/ SteppedOff'
    <2>1. CASE Deliver(Main) \/ Fault(Main)
        <3>1. UNCHANGED pc
            BY <2>1 DEF Deliver, Fault
        <3> QED
            BY <1>1, <1>2, <1>3, <3>1 DEF Waiting, Here
    <2>2. CASE Trap(Main)
        <3>1. exc'[Main] = "bp" /\ pc[Main] \in Address
            BY <2>2 DEF Trap, Raise, TypeOK
        <3>2. pc'[Main] = pc[Main] \/ pc'[Main] = Past(pc[Main])
            BY <2>2 DEF Trap, TypeOK
        <3>3. pc[Main] = stoppedAt
            BY <1>2, <1>3, <3>1, PastIsInside DEF Here, TypeOK
        <3> QED
            BY <1>1, <3>1, <3>2, <3>3 DEF Waiting, Here
    <2>3. CASE Execute(Main)
        <3>1. exc'[Main] \in {"step", "trap"}
            BY <1>2, <1>3, <2>3 DEF Execute, Raise, TypeOK
        <3>2. pc'[Main] # pc[Main] /\ pc'[Main] # Nowhere
            BY <2>3, SuccMoves DEF Execute, TypeOK
        <3> QED
            BY <1>1, <1>2, <1>3, <3>1, <3>2 DEF SteppedOff
    <2> QED
        BY <2>1, <2>2, <2>3 DEF TargetStep
<1> QED
    BY <1>0, <1>1, <1>2, <1>3 DEF Cycle, Leaving

LEMMA EditCycle ==
    ASSUME TypeOK, Cycle, NEW a \in Address, Edit(a)
    PROVE  Cycle' /\ UNCHANGED <<loop, current>>
<1>1. UNCHANGED <<loop, current, book, pc, singleStep, exc, stray>> /\ lost' = lost \ {a}
    BY DEF Edit, thread
<1>2. Kept'
    <2>1. CASE Enable(a)
        <3>1. Enabled' = Enabled \cup {a} /\ armed' = armed \cup {a}
            BY <2>1 DEF Enable, Enabled, TypeOK
        <3> QED
            BY <1>1, <3>1 DEF Cycle, Kept
    <2>2. CASE Withdraw(a)
        <3>1. Enabled' = Enabled \ {a} /\ armed' = armed \ {a}
            BY <2>2 DEF Withdraw, Enabled, TypeOK
        <3> QED
            BY <1>1, <3>1 DEF Cycle, Kept
    <2> QED
        BY <2>1, <2>2 DEF Edit
<1> QED
    BY <1>1, <1>2 DEF Cycle, Leaving, Waiting, Here, SteppedOff, FlagsAgree

\* Every step of a target with one thread keeps the cycle's invariant.
LEMMA StepCycle ==
    ASSUME Thread = {Main}, IInv, [Next]_vars
    PROVE  IInv'
<1> USE DEF IInv
<1>1. TypeOK'
    BY StepTyped
<1>2. current' = Main
    BY <1>1 DEF TypeOK
<1>3. CASE Handle(Main)
    BY <1>1, <1>2, <1>3, HandleCycle DEF Handle
<1>4. CASE Continue \/ StepInto
    <2>1. PICK step \in BOOLEAN : Resume(step)
        BY <1>4 DEF Continue, StepInto
    <2>2. loop # "ended"
        BY <2>1 DEF Resume
    <2> QED
        BY <1>1, <1>2, <2>1, <2>2, ResumeCycle
<1>5. CASE TargetStep(Main)
    <2>1. loop # "ended"
        BY <1>5 DEF TargetStep, Deliver, Trap, Fault, Execute, Runs
    <2> QED
        BY <1>1, <1>2, <1>5, <2>1, TargetCycle
<1>6. CASE Stop
    BY <1>1, <1>2, <1>6 DEF Stop
<1>7. ASSUME NEW a \in Address, Edit(a) PROVE IInv'
    <2>1. loop # "ended"
        BY <1>7 DEF Edit
    <2> QED
        BY <1>1, <1>2, <1>7, <2>1, EditCycle
<1>8. CASE UNCHANGED vars
    <2>1. Cycle => Cycle'
        BY <1>8 DEF vars, thread, history, Cycle, Kept, Leaving, Waiting, Here, SteppedOff,
                    FlagsAgree, Enabled
    <2> QED
        BY <1>1, <1>2, <1>8, <2>1 DEF vars
<1> QED
    BY <1>3, <1>4, <1>5, <1>6, <1>7, <1>8 DEF Next

LEMMA InitCycle == Init => IInv
<1> SUFFICES ASSUME Init PROVE IInv
    OBVIOUS
<1>1. Enabled = {} /\ armed = {} /\ stoppedAt = Nowhere
    BY DEF Init, Enabled
<1>2. singleStep[Main] = FALSE /\ stepArmed = FALSE
    BY DEF Init
<1> QED
    BY <1>1, <1>2, InitTyped DEF Init, IInv, Cycle, Kept, Leaving, FlagsAgree

\* With one thread the invariant always holds.
LEMMA AlwaysCycle == Thread = {Main} /\ Spec => []IInv
<1>1. CASE Thread = {Main}
    <2>1. IInv /\ [Next]_vars => IInv'
        BY <1>1, StepCycle
    <2> QED
        BY <2>1, InitCycle, PTL DEF Spec
<1> QED
    BY <1>1

(***************************************************************************)
(* A target with one thread keeps its breakpoints through every cycle,     *)
(* whatever faults, queued signals and edits interrupt it, but for those   *)
(* the engine reports: no refusal of the target loses one in silence.      *)
(***************************************************************************)
THEOREM BreakpointsSurviveTheCycle == Thread = {Main} /\ Spec => []NoBreakpointLost
<1>1. IInv => NoBreakpointLost
    BY DEF IInv, Cycle, Kept, Enabled, NoBreakpointLost, TypeOK
<1> QED
    BY <1>1, AlwaysCycle, PTL

(***************************************************************************)
(* Nor is its one thread ever left single-stepping without a report.       *)
(***************************************************************************)
THEOREM NoFlagIsLeftBehind == Thread = {Main} /\ Spec => []NoStrayStep
<1>1. CASE Thread = {Main}
    <2>1. IInv => NoStrayStep
        BY <1>1 DEF IInv, Cycle, FlagsAgree, NoStrayStep
    <2> QED
        BY <1>1, <2>1, AlwaysCycle, PTL
<1> QED
    BY <1>1

=============================================================================

------------------------ MODULE ExceptionLoopProofs ------------------------
(***************************************************************************)
(* Proofs about ExceptionLoop, for any set of threads.  The invariants of  *)
(* the hand-off are inductive once it is said what the loop remembers of a *)
(* Stop (Remembered) and that nothing is pending before the flags of the   *)
(* last run are cleared (Quiet).                                           *)
(***************************************************************************)
EXTENDS ExceptionLoop, TLAPS

\* Before the flags are cleared no caller has acted.
Quiet ==
    loop \in {"idle", "claimed"} =>
        ~stopRequested /\ ~stopAsked /\ ~pausedByUser /\ suspended = 0

\* A request to end is never withdrawn, a Stop decision comes with one, and
\* from its letting go on nothing but a refusal or a late breakpoint holds the
\* target.
Remembered ==
    /\ stopRequested => stopAsked
    /\ pending = "Stop" => stopRequested
    /\ decision # "None" => loop \in {"answered", "replying"}
    /\ decision = "Stop" => stopRequested
    /\ decision = "Stop" /\ loop = "replying" => HeldByRefusal

\* TypeOK in two parts: the Boolean variables and the others.
Flags ==
    /\ running \in BOOLEAN /\ stopRequested \in BOOLEAN /\ stopped \in BOOLEAN
    /\ pausedByUser \in BOOLEAN /\ seenFirstStop \in BOOLEAN
    /\ alive \in BOOLEAN /\ ports \in BOOLEAN
    /\ stopAsked \in BOOLEAN
Values ==
    /\ loop \in LoopPc
    /\ pending \in Command /\ decision \in Command
    /\ current \in Thread \cup {NoThread}
    /\ blocked \subseteq Thread /\ queue \subseteq blocked
    /\ suspended \in Nat
    /\ traps \subseteq Era /\ refused \subseteq Hold

HandOff ==
    /\ Values
    /\ RepliesAccounted
    /\ CommandsBelongToTheirStop
    /\ SuspendsAreUndone
    /\ KilledClean
    /\ Quiet
    /\ Remembered

IInv == Flags /\ HandOff

USE DEF Goto, Post, engine, target, history, Command, Handling, LoopPc

\* The launched, not yet started engine satisfies the invariant.
LEMMA InitIInv == Init => IInv
<1> SUFFICES ASSUME Init PROVE IInv
    OBVIOUS
<1>1. Flags
    BY DEF Init, Flags
<1>2. Values /\ RepliesAccounted
    BY DEF Init, Values, RepliesAccounted, Era
<1>3. CommandsBelongToTheirStop /\ SuspendsAreUndone /\ KilledClean
    BY DEF Init, CommandsBelongToTheirStop, SuspendsAreUndone, KilledClean
<1>4. Quiet /\ Remembered
    BY DEF Init, Quiet, Remembered
<1> QED
    BY <1>1, <1>2, <1>3, <1>4 DEF IInv, HandOff

\* Every action keeps the flags in their types.
LEMMA StepFlags == Flags /\ [Next]_vars => Flags'
<1> SUFFICES ASSUME Flags, [Next]_vars PROVE Flags'
    OBVIOUS
<1> USE DEF Flags
<1>1. CASE StartClaim
    BY <1>1 DEF StartClaim
<1>2. CASE StartReset
    BY <1>2 DEF StartReset
<1>3. CASE StartInstall
    BY <1>3 DEF StartInstall
<1>4. CASE StartFails
    BY <1>4 DEF StartFails
<1>5. CASE LoopTop
    BY <1>5 DEF LoopTop
<1>6. ASSUME NEW t \in Thread, Receive(t) PROVE Flags'
    BY <1>6 DEF Receive
<1>7. CASE ReceiveTimesOut
    BY <1>7 DEF ReceiveTimesOut
<1>24. CASE ReceiveFails
    BY <1>24 DEF ReceiveFails
<1>8. CASE Absorb
    BY <1>8 DEF Absorb
<1>9. CASE Report
    BY <1>9 DEF Report
<1>10. CASE WakeUp
    BY <1>10 DEF WakeUp
<1>11. CASE LetGo
    BY <1>11 DEF LetGo, Released
<1>12. CASE SendReply
    BY <1>12 DEF SendReply
<1>13. CASE AfterReply
    BY <1>13 DEF AfterReply
<1>14. CASE Teardown
    BY <1>14 DEF Teardown, Released
<1>15. CASE DetachAndKill
    BY <1>15 DEF DetachAndKill
<1>16. CASE Continue
    BY <1>16 DEF Continue
<1>17. CASE StepInto
    BY <1>17 DEF StepInto
<1>18. CASE Pause
    BY <1>18 DEF Pause
<1>19. CASE Stop
    BY <1>19 DEF Stop
<1>20. CASE SetBreakpoint
    BY <1>20 DEF SetBreakpoint
<1>25. CASE DeleteBreakpoint
    BY <1>25 DEF DeleteBreakpoint
<1>21. ASSUME NEW t \in Thread, Raise(t) PROVE Flags'
    BY <1>21 DEF Raise
<1>22. ASSUME NEW t \in Thread, Exit(t) PROVE Flags'
    BY <1>22 DEF Exit
<1>23. CASE UNCHANGED vars
    BY <1>23 DEF vars
<1> QED
    BY <1>1, <1>2, <1>3, <1>4, <1>5, <1>6, <1>7, <1>8, <1>9, <1>10, <1>11,
       <1>12, <1>13, <1>14, <1>15, <1>16, <1>17, <1>18, <1>19, <1>20, <1>21,
       <1>22, <1>23, <1>24, <1>25
    DEF Next, LoopStep, CallerStep, TableStep, TargetStep

\* Every action keeps the hand-off between the port, the loop and the callers.
LEMMA StepHandOff == HandOff /\ [Next]_vars => HandOff'
<1> SUFFICES ASSUME HandOff, [Next]_vars PROVE HandOff'
    OBVIOUS
<1> USE DEF HandOff, Values, RepliesAccounted, CommandsBelongToTheirStop,
        SuspendsAreUndone, KilledClean, Quiet, Remembered, HeldByRefusal
<1>1. CASE StartClaim
    BY <1>1 DEF StartClaim
<1>2. CASE StartReset
    BY <1>2 DEF StartReset
<1>3. CASE StartInstall
    BY <1>3 DEF StartInstall
<1>4. CASE StartFails
    BY <1>4 DEF StartFails
<1>5. CASE LoopTop
    BY <1>5 DEF LoopTop
<1>6. ASSUME NEW t \in Thread, Receive(t) PROVE HandOff'
    BY NoThreadAssumption, <1>6 DEF Receive
<1>7. CASE ReceiveTimesOut
    BY <1>7 DEF ReceiveTimesOut
<1>24. CASE ReceiveFails
    BY <1>24 DEF ReceiveFails
<1>8. CASE Absorb
    BY <1>8 DEF Absorb
<1>9. CASE Report
    BY <1>9 DEF Report
<1>10. CASE WakeUp
    BY <1>10 DEF WakeUp
<1>11. CASE LetGo
    BY <1>11 DEF LetGo, Released
<1>12. CASE SendReply
    BY <1>12 DEF SendReply
<1>13. CASE AfterReply
    BY <1>13 DEF AfterReply
<1>14. CASE Teardown
    BY <1>14 DEF Teardown, Released
<1>15. CASE DetachAndKill
    BY <1>15 DEF DetachAndKill
<1>16. CASE loop \notin {"idle", "claimed"} /\ Continue
    BY <1>16 DEF Continue
<1>17. CASE loop \notin {"idle", "claimed"} /\ StepInto
    BY <1>17 DEF StepInto
<1>18. CASE loop \notin {"idle", "claimed"} /\ Pause
    BY <1>18 DEF Pause
<1>19. CASE loop \notin {"idle", "claimed"} /\ Stop
    BY <1>19 DEF Stop
<1>20. CASE SetBreakpoint
    BY <1>20 DEF SetBreakpoint, Era
<1>25. CASE DeleteBreakpoint
    BY <1>25 DEF DeleteBreakpoint
<1>21. ASSUME NEW t \in Thread, Raise(t) PROVE HandOff'
    BY NoThreadAssumption, <1>21 DEF Raise, CanRun
<1>22. ASSUME NEW t \in Thread, Exit(t) PROVE HandOff'
    BY <1>22 DEF Exit
<1>23. CASE UNCHANGED vars
    BY <1>23 DEF vars
<1> QED
    BY <1>1, <1>2, <1>3, <1>4, <1>5, <1>6, <1>7, <1>8, <1>9, <1>10, <1>11,
       <1>12, <1>13, <1>14, <1>15, <1>16, <1>17, <1>18, <1>19, <1>20, <1>21,
       <1>22, <1>23, <1>24, <1>25
    DEF Next, LoopStep, CallerStep, TableStep, TargetStep

\* The two halves together are inductive, hence invariant.
LEMMA Inductive == Spec => []IInv
<1>1. IInv /\ [Next]_vars => IInv'
    BY StepFlags, StepHandOff DEF IInv
<1> QED
    BY InitIInv, <1>1, PTL DEF Spec

-----------------------------------------------------------------------------
\* Every variable keeps its type, with the queue among the blocked threads.
THEOREM TypeCorrect == Spec => []TypeOK
<1>1. IInv => TypeOK
    BY DEF IInv, HandOff, Flags, Values, TypeOK
<1> QED
    BY Inductive, <1>1, PTL

\* No thread is lost between the port and the loop, and none is answered
\* twice, whatever the callers and the target's other threads do.
THEOREM EveryReplyIsOwed == Spec => []RepliesAccounted
<1>1. IInv => RepliesAccounted
    BY DEF IInv, HandOff
<1> QED
    BY Inductive, <1>1, PTL

\* A command never outlives the stop it was given in.
THEOREM NoStaleCommand == Spec => []CommandsBelongToTheirStop
<1>1. IInv => CommandsBelongToTheirStop
    BY DEF IInv, HandOff
<1> QED
    BY Inductive, <1>1, PTL

\* The task's suspend count is the pause flag's: one Continue undoes it.
THEOREM OneContinueIsEnough == Spec => []SuspendsAreUndone
<1>1. IInv => SuspendsAreUndone
    BY DEF IInv, HandOff
<1> QED
    BY Inductive, <1>1, PTL

\* At the kill nothing ties the target to the engine but what the kernel has
\* just refused to release and breakpoints set after Stop() was called.
THEOREM TheKillIsClean == Spec => []KilledClean
<1>1. IInv => KilledClean
    BY DEF IInv, HandOff
<1> QED
    BY Inductive, <1>1, PTL

\* The reply to a stop answered by Stop finds the target let go, with the same
\* two exceptions.
THEOREM TheReplyIsClean == Spec => StopLetsGoFirst
<1>1. IInv /\ [Next]_vars =>
          [SendReply /\ decision = "Stop" => HeldByRefusal]_vars
    BY DEF IInv, HandOff, Remembered, SendReply
<1> QED
    BY Inductive, <1>1, PTL DEF Spec, StopLetsGoFirst

-----------------------------------------------------------------------------
(***************************************************************************)
(* The loop implements what StopProtocol promises a caller.                *)
(***************************************************************************)
\* Before Start() a caller sees a target that is not stopped.
LEMMA InitRefines == Init => Protocol!Init
BY DEF Init, Protocol!Init, phase, Returned

\* Every step of the loop is a step of the protocol or none at all.
LEMMA StepRefines ==
    IInv /\ [Next]_vars => [Protocol!Next]_(Protocol!vars)
<1> SUFFICES ASSUME IInv, [Next]_vars PROVE [Protocol!Next]_(Protocol!vars)
    OBVIOUS
<1> USE DEF phase, Returned, Protocol!vars
<1>0. Values /\ CommandsBelongToTheirStop /\ Quiet /\ stopRequested \in BOOLEAN
    BY DEF IInv, HandOff, Flags
<1> USE DEF Values, CommandsBelongToTheirStop
<1>1. CASE StartClaim
    BY <1>0, <1>1 DEF StartClaim
<1>2. CASE StartReset
    <2>1. stopRequested = FALSE
        BY <1>0, <1>2 DEF StartReset, Quiet
    <2> QED
        BY <1>0, <1>2, <2>1 DEF StartReset
<1>3. CASE StartInstall
    BY <1>0, <1>3 DEF StartInstall
<1>4. CASE LoopTop
    BY <1>0, <1>4 DEF LoopTop
<1>5. ASSUME NEW t \in Thread, Receive(t) PROVE UNCHANGED Protocol!vars
    BY <1>0, <1>5 DEF Receive
<1>6. CASE ReceiveTimesOut
    BY <1>0, <1>6 DEF ReceiveTimesOut
<1>24. CASE ReceiveFails
    BY <1>0, <1>24 DEF ReceiveFails
<1>7. CASE Absorb
    BY <1>0, <1>7 DEF Absorb
<1>8. CASE LetGo
    BY <1>0, <1>8 DEF LetGo
<1>9. CASE SendReply
    BY <1>0, <1>9 DEF SendReply
<1>10. CASE AfterReply
    BY <1>0, <1>10 DEF AfterReply
<1>11. CASE SetBreakpoint
    BY <1>0, <1>11 DEF SetBreakpoint
<1>25. CASE DeleteBreakpoint
    BY <1>0, <1>25 DEF DeleteBreakpoint
<1>12. CASE Pause
    BY <1>0, <1>12 DEF Pause
<1>13. ASSUME NEW t \in Thread, Raise(t) PROVE UNCHANGED Protocol!vars
    BY <1>0, <1>13 DEF Raise
<1>14. ASSUME NEW t \in Thread, Exit(t) PROVE UNCHANGED Protocol!vars
    BY <1>0, <1>14 DEF Exit
<1>15. CASE StartFails
    BY <1>0, <1>15 DEF StartFails, Protocol!Next, Protocol!End
<1>16. CASE Report
    BY <1>0, <1>16 DEF Report, Protocol!Next, Protocol!Report
<1>17. CASE WakeUp
    BY <1>0, <1>17 DEF WakeUp, Protocol!Next, Protocol!Resume
<1>18. CASE Teardown
    BY <1>0, <1>18 DEF Teardown, Protocol!Next, Protocol!End
<1>19. CASE DetachAndKill
    BY <1>0, <1>19 DEF DetachAndKill, Protocol!Next, Protocol!End
<1>20. CASE Continue
    <2>1. CASE stopped
        <3>1. stopRequested' = (stopRequested \/ "Continue" = "Stop")
            BY <1>0, <1>20 DEF Continue
        <3>2. Protocol!Answer("Continue")
            BY <1>0, <1>20, <2>1, <3>1 DEF Continue, Protocol!Answer
        <3> QED
            BY <3>2 DEF Protocol!Next, Protocol!Answers
    <2>2. CASE ~stopped
        BY <1>0, <1>20, <2>2 DEF Continue
    <2> QED
        BY <2>1, <2>2
<1>21. CASE StepInto
    <2>1. CASE stopped
        <3>1. stopRequested' = (stopRequested \/ "StepInto" = "Stop")
            BY <1>0, <1>21 DEF StepInto
        <3>2. Protocol!Answer("StepInto")
            BY <1>0, <1>21, <2>1, <3>1 DEF StepInto, Protocol!Answer
        <3> QED
            BY <3>2 DEF Protocol!Next, Protocol!Answers
    <2>2. CASE ~stopped
        BY <1>0, <1>21, <2>2 DEF StepInto
    <2> QED
        BY <2>1, <2>2
<1>22. CASE Stop
    BY <1>0, <1>22 DEF Stop, Protocol!Next, Protocol!Answer, Protocol!Answers, Protocol!RequestEnd
<1>23. CASE UNCHANGED vars
    BY <1>23 DEF vars
<1> QED
    BY <1>1, <1>2, <1>3, <1>4, <1>5, <1>6, <1>7, <1>8, <1>9, <1>10, <1>11,
       <1>12, <1>13, <1>14, <1>15, <1>16, <1>17, <1>18, <1>19, <1>20, <1>21,
       <1>22, <1>23, <1>24, <1>25
    DEF Next, LoopStep, CallerStep, TableStep, TargetStep

\* Whatever the loop, its callers and the target do, a caller sees only the
\* steps of StopProtocol: a stop ends by an answer given during it or by a
\* request to end, and the loop never ends with a stop unanswered.
THEOREM LoopKeepsTheProtocol == Spec => ProtocolSafety
BY Inductive, InitRefines, StepRefines, PTL DEF Spec, ProtocolSafety, Protocol!Safety
=============================================================================

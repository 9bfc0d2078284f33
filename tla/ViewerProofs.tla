----------------------------- MODULE ViewerProofs -----------------------------
(***************************************************************************)
(* Until a second Stop() is lost no engine is destroyed under its thread,  *)
(* for any number of targets, stops and lost calls.  mStartReturned is     *)
(* shared by all the threads, so it says something about the engine at     *)
(* hand only when no earlier thread is left (Alone).  A thread is left     *)
(* behind only by a lost Stop(); where one was spent on it, the next       *)
(* engine hears its Stop() and is joined, or two are lost; and where it    *)
(* was the engine at hand that did not hear, there was no earlier thread.  *)
(* What the panels show is true whatever is lost: it is proved last, about *)
(* the engine at hand.                                                     *)
(***************************************************************************)
EXTENDS Viewer, TLAPS

Stopping == {"waiting", "choose", "join", "destroy"}

\* The part of the types the argument needs.
Shape ==
    /\ ui \in {"idle", "create"} \cup Stopping
    /\ sessions \in 0..MaxSessions
    /\ mEngine \in 0..sessions
    /\ lost \in Nat
    /\ mStartReturned \in BOOLEAN
    /\ thread \in [Session -> Places]
    /\ DOMAIN engine = Session
    /\ \A s \in Session : /\ DOMAIN engine[s] = DOMAIN Untouched
                          /\ engine[s].stopRequested \in BOOLEAN
    /\ \A s \in Session : thread[s] = "none" <=> s > sessions
    /\ ui \in Stopping => mEngine # 0
    /\ ui = "create" => mEngine = 0
    /\ mEngine # 0 /\ ui # "destroy" => mStartThread = mEngine

\* No thread but that of the engine at hand is left.
Alone == \A s \in Session : s # mEngine => thread[s] \in {"none", "over"}

\* The engine at hand is on its way to the end of Start().
Heard(s) ==
    \/ thread[s] \in {"returned", "over"}
    \/ thread[s] \in {"running", "parked", "stopped"} /\ engine[s].stopRequested

Abandoned ==
    /\ Alone \/ lost >= 1
    /\ ui \in Stopping => Heard(mEngine) \/ lost >= 1
    /\ ui \in {"waiting", "choose"} => Heard(mEngine) \/ Alone
    /\ ui = "choose" => /\ mStartReturned \/ lost >= 1
                        /\ mStartReturned \/ Alone
    /\ ui = "destroy" =>
           \/ thread[mEngine] = "over"
           \/ lost >= 1 /\ Alone /\ mStartReturned = FALSE
    /\ \A s \in destroyed : s \in Session /\ thread[s] \in {"returned", "over"}

IInv == Shape /\ (lost <= 1 => Abandoned)

LEMMA InitIInv == Init => IInv
<1> SUFFICES ASSUME Init PROVE IInv
    OBVIOUS
<1>1. Shape
    <2>1. /\ engine = [s \in Session |-> Untouched]
          /\ Untouched.stopRequested = FALSE
          /\ \A s \in Session : engine[s] = Untouched
        BY DEF Init, Untouched
    <2>2. /\ thread \in [Session -> Places]
          /\ \A s \in Session : thread[s] = "none" <=> s > sessions
        BY BoundsAssumption DEF Init, Session, Places
    <2>3. sessions \in 0..MaxSessions /\ mEngine \in 0..sessions /\ lost \in Nat
        BY BoundsAssumption DEF Init
    <2> QED
        BY <2>1, <2>2, <2>3 DEF Init, Shape, Stopping
<1>2. Abandoned
    BY DEF Init, Abandoned, Alone, Heard, Stopping
<1> QED
    BY <1>1, <1>2 DEF IInv

-----------------------------------------------------------------------------

ThreadSteps(s) == Runs(s) \/ Park(s) \/ TargetExits(s)

(***************************************************************************)
(* What a step of an engine's thread is, as far as the window can tell.    *)
(***************************************************************************)
Advances(s, to) ==
    /\ thread[s] \notin {"none", "over"}
    /\ to \in Places \ {"none"}
    /\ thread' = [thread EXCEPT ![s] = to]
    /\ to = "over" => thread[s] = "returned" /\ mStartReturned' = TRUE
    /\ to # "over" => mStartReturned' = mStartReturned /\ thread[s] # "returned"
    /\ UNCHANGED <<ui, next, mEngine, mStartThread, sessions, destroyed, lost>>

LEMMA ThreadAdvances ==
    ASSUME NEW s \in Session, Shape, ThreadSteps(s)
    PROVE  \E to \in Places : Advances(s, to)
<1> USE DEF Places
<1>1. CASE Claim(s)
    <2> WITNESS "claimed" \in Places
    <2> QED BY <1>1 DEF Claim, Moves, Advances, Places, window
<1>2. CASE LaunchFails(s)
    <2> WITNESS "returned" \in Places
    <2> QED BY <1>2 DEF LaunchFails, Moves, Advances, Places, window
<1>3. CASE ResetFlags(s)
    <2> WITNESS "running" \in Places
    <2> QED BY <1>3 DEF ResetFlags, Moves, Advances, Places, window
<1>4. CASE CallBack(s)
    <2> WITNESS "stopped" \in Places
    <2> QED BY <1>4 DEF CallBack, Moves, Advances, Places, window
<1>5. CASE Resume(s)
    <2> WITNESS "running" \in Places
    <2> QED BY <1>5 DEF Resume, Moves, Advances, Places, window
<1>6. CASE StopHeard(s)
    <2> WITNESS "returned" \in Places
    <2> QED BY <1>6 DEF StopHeard, Moves, Advances, Places, window
<1>7. CASE StartReturned(s)
    <2> WITNESS "over" \in Places
    <2> QED BY <1>7 DEF StartReturned, Moves, Advances, Places, window
<1>8. CASE Park(s)
    <2> WITNESS "parked" \in Places
    <2> QED BY <1>8 DEF Park, Moves, Advances, Places, window
<1>9. CASE TargetExits(s)
    <2> WITNESS "returned" \in Places
    <2> QED BY <1>9 DEF TargetExits, Moves, Advances, Places, window
<1> QED
    BY <1>1, <1>2, <1>3, <1>4, <1>5, <1>6, <1>7, <1>8, <1>9 DEF ThreadSteps, Runs

\* The engines' flags keep their form, and a running engine forgets no Stop().
LEMMA ThreadKeepsFlags ==
    ASSUME NEW s \in Session, Shape, ThreadSteps(s)
    PROVE  /\ DOMAIN engine' = Session
           /\ \A u \in Session : /\ DOMAIN engine'[u] = DOMAIN Untouched
                                 /\ engine'[u].stopRequested \in BOOLEAN
           /\ \A u \in Session : Heard(u) => Heard(u)'
<1> USE DEF Shape
<1>1. CASE ResetFlags(s)
    BY <1>1 DEF ResetFlags, Moves, Heard, Untouched
<1>2. CASE Park(s)
    BY <1>2 DEF Park, Moves, Heard, Untouched
<1>3. CASE UNCHANGED engine
    <2>1. \A u \in Session : Heard(u) => Heard(u)'
        BY <1>3 DEF ThreadSteps, Runs, Claim, LaunchFails, ResetFlags, CallBack, Resume,
                    StopHeard, StartReturned, Park, TargetExits, Moves, Heard
    <2> QED
        BY <1>3, <2>1
<1> QED
    BY <1>1, <1>2, <1>3 DEF ThreadSteps, Runs, Claim, LaunchFails, CallBack, Resume,
                            StopHeard, StartReturned, TargetExits

\* A thread's step leaves the books of the window in order.
LEMMA ThreadIInv ==
    ASSUME NEW s \in Session, IInv, ThreadSteps(s)
    PROVE  IInv'
<1> USE DEF IInv
<1>1. PICK to \in Places : Advances(s, to)
    BY ThreadAdvances
<1>2. /\ DOMAIN engine' = Session
      /\ \A u \in Session : /\ DOMAIN engine'[u] = DOMAIN Untouched
                            /\ engine'[u].stopRequested \in BOOLEAN
      /\ \A u \in Session : Heard(u) => Heard(u)'
    BY ThreadKeepsFlags
<1>3. Shape'
    BY <1>1, <1>2 DEF Shape, Advances
<1> SUFFICES ASSUME Abandoned PROVE Abandoned'
    BY <1>1, <1>3 DEF Advances
<1>4. Alone => Alone'
    BY <1>1 DEF Alone, Advances, Shape
<1>5. mEngine # 0 => mEngine \in Session
    BY BoundsAssumption DEF Shape, Session
<1>6. mEngine # 0 => (Heard(mEngine) => Heard(mEngine)')
    BY <1>1, <1>2, <1>5 DEF Advances, Heard
<1>7. \A u \in destroyed : u \in Session /\ thread'[u] \in {"returned", "over"}
    BY <1>1 DEF Abandoned, Advances, Shape
<1>8. ui = "destroy" =>
          \/ thread'[mEngine] = "over"
          \/ lost >= 1 /\ Alone /\ mStartReturned' = FALSE
    <2> SUFFICES ASSUME ui = "destroy" PROVE
          \/ thread'[mEngine] = "over"
          \/ lost >= 1 /\ Alone /\ mStartReturned' = FALSE
        OBVIOUS
    <2>1. mEngine \in Session
        BY <1>5 DEF Shape, Stopping
    <2>2. CASE thread[mEngine] = "over"
        BY <1>1, <2>1, <2>2 DEF Advances, Shape
    <2>3. CASE lost >= 1 /\ Alone /\ mStartReturned = FALSE /\ s = mEngine
        BY <1>1, <2>1, <2>3 DEF Advances, Shape
    <2>4. CASE lost >= 1 /\ Alone /\ mStartReturned = FALSE /\ s # mEngine
        BY <1>1, <2>4 DEF Advances, Alone
    <2> QED
        BY <2>2, <2>3, <2>4 DEF Abandoned
<1>9. ui = "choose" => /\ mStartReturned' \/ lost >= 1
                       /\ mStartReturned' \/ Alone'
    BY <1>1, <1>4 DEF Abandoned, Advances
<1> QED
    BY <1>1, <1>3, <1>4, <1>6, <1>7, <1>8, <1>9 DEF Abandoned, Advances, Shape, Stopping

-----------------------------------------------------------------------------

\* A Stop() that is not heard is the first to be lost, and nobody is left behind,
\* or it is one too many.
LEMMA StopEngineIInv ==
    ASSUME NEW then \in {"stop", "launch"}, IInv, StopEngine(then)
    PROVE  IInv'
<1> USE DEF IInv, StopEngine, Idle
<1>1. mEngine \in Session /\ thread[mEngine] \in Places \ {"none"}
    BY BoundsAssumption DEF Shape, Session
<1>2. /\ DOMAIN engine' = Session
      /\ \A u \in Session : /\ DOMAIN engine'[u] = DOMAIN Untouched
                            /\ engine'[u].stopRequested \in BOOLEAN
    BY <1>1 DEF Shape, Untouched
<1>3. lost' \in Nat /\ lost' >= lost /\ (lost' <= 1 => lost <= 1)
    BY DEF Shape
<1>4. Shape'
    BY <1>1, <1>2, <1>3 DEF Shape, Stopping
<1> SUFFICES ASSUME lost' <= 1, Abandoned PROVE Abandoned'
    BY <1>3, <1>4, Zenon
<1>5. Alone' <=> Alone
    BY DEF Alone
<1>6. CASE Unheard(mEngine)
    <2>1. lost = 0 /\ lost' = 1
        BY <1>6 DEF Shape
    <2>2. Alone
        BY <2>1 DEF Abandoned
    <2> QED
        BY <1>4, <1>5, <2>1, <2>2 DEF Abandoned, Stopping
<1>7. CASE ~Unheard(mEngine)
    <2>1. Heard(mEngine)'
        BY <1>1, <1>7 DEF Unheard, IsRunning, Heard, Places, Shape, Untouched
    <2> QED
        BY <1>3, <1>4, <1>5, <1>7, <2>1 DEF Abandoned, Stopping
<1> QED
    BY <1>6, <1>7

\* The wait ends by the flag, or where nobody else is left to have set it.
LEMMA WaitIInv == ASSUME IInv, Wait PROVE IInv'
<1> USE DEF IInv, Wait, Goes
<1>1. Shape'
    BY DEF Shape, Stopping
<1> SUFFICES ASSUME Abandoned PROVE Abandoned'
    BY <1>1
<1>2. (Alone' <=> Alone) /\ (Heard(mEngine)' <=> Heard(mEngine))
    BY DEF Alone, Heard
<1>3. Overruns(mEngine) => ~Heard(mEngine)
    BY DEF Overruns, Heard
<1> QED
    BY <1>1, <1>2, <1>3 DEF Abandoned, Stopping

LEMMA ChooseIInv == ASSUME IInv, Choose PROVE IInv'
<1> USE DEF IInv, Choose, Goes
<1>1. Shape'
    BY DEF Shape, Stopping
<1> SUFFICES ASSUME Abandoned PROVE Abandoned'
    BY <1>1
<1>2. (Alone' <=> Alone) /\ (Heard(mEngine)' <=> Heard(mEngine))
    BY DEF Alone, Heard
<1>3. mStartReturned \in BOOLEAN
    BY DEF Shape
<1> QED
    BY <1>1, <1>2, <1>3 DEF Abandoned, Stopping

\* What is joined is over, and it is the engine at hand.
LEMMA JoinIInv == ASSUME IInv, Join PROVE IInv'
<1> USE DEF IInv, Join, Goes
<1>1. Shape'
    BY DEF Shape, Stopping
<1> SUFFICES ASSUME Abandoned PROVE Abandoned'
    BY <1>1
<1>2. (Alone' <=> Alone) /\ (Heard(mEngine)' <=> Heard(mEngine))
    BY DEF Alone, Heard
<1>3. thread[mEngine] = "over"
    BY DEF Shape, Stopping
<1> QED
    BY <1>1, <1>2, <1>3 DEF Abandoned, Stopping

\* The engine given up is destroyed if it is over, and counts as left behind if not.
LEMMA DestroyIInv == ASSUME IInv, Destroy PROVE IInv'
<1> USE DEF IInv, Destroy
<1>1. mEngine \in Session
    BY BoundsAssumption DEF Shape, Session, Stopping
<1>2. Shape'
    BY DEF Shape, Stopping
<1> SUFFICES ASSUME Abandoned PROVE Abandoned'
    BY <1>2
<1>3. (Alone \/ lost >= 1) /\ (thread[mEngine] = "over" \/ lost >= 1)
    BY DEF Abandoned
<1>4. Alone' \/ lost' >= 1
    BY <1>3 DEF Alone
<1>5. mStartReturned => thread[mEngine] = "over"
    BY DEF Abandoned
<1> QED
    BY <1>1, <1>2, <1>4, <1>5 DEF Abandoned, Stopping

LEMMA StartEngineIInv == ASSUME IInv, StartEngine PROVE IInv'
<1> USE DEF IInv, StartEngine, Idle
<1>1. sessions + 1 \in Session /\ mEngine = 0 /\ sessions \in Nat
    BY BoundsAssumption DEF Shape, Session
<1>2. Shape'
    <2>1. /\ thread' \in [Session -> Places]
          /\ \A s \in Session : thread'[s] = "none" <=> s > sessions + 1
        BY <1>1 DEF Shape, Session, Places
    <2>2. sessions' \in 0..MaxSessions /\ mEngine' \in 0..sessions' /\ mEngine' # 0
        BY <1>1 DEF Shape, Session
    <2> QED
        BY <1>1, <2>1, <2>2 DEF Shape, Stopping
<1> SUFFICES ASSUME Abandoned PROVE Abandoned'
    BY <1>2
<1>3. Alone => Alone'
    BY <1>1 DEF Alone, Session, Shape
<1>4. \A u \in destroyed : u \in Session /\ thread'[u] \in {"returned", "over"}
    BY <1>1 DEF Abandoned, Shape, Session
<1> QED
    BY <1>2, <1>3, <1>4 DEF Abandoned, Stopping

\* The buttons and the signals that do not end a session.
LEMMA HandlersIInv ==
    ASSUME IInv,
           \/ \E step \in BOOLEAN : Answer(step)
           \/ Pause \/ OnStopped \/ UNCHANGED vars
    PROVE  IInv'
<1> USE DEF IInv
<1>1. /\ UNCHANGED <<ui, mEngine, mStartThread, mStartReturned, sessions, thread, destroyed, lost>>
      /\ ui = "idle" \/ engine' = engine
    BY DEF Answer, Pause, OnStopped, vars, window, Idle
<1>2. /\ DOMAIN engine' = Session
      /\ \A u \in Session : /\ DOMAIN engine'[u] = DOMAIN Untouched
                            /\ engine'[u].stopRequested \in BOOLEAN
    <2>1. CASE \E step \in BOOLEAN : Answer(step)
        <3>1. mEngine \in Session
            <4>1. mEngine # 0
                BY <2>1 DEF Answer
            <4> QED
                BY <4>1, BoundsAssumption DEF Shape, Session
        <3>2. \A u \in Session : /\ DOMAIN engine'[u] = DOMAIN engine[u]
                                 /\ engine'[u].stopRequested = engine[u].stopRequested
            <4>1. PICK step \in BOOLEAN : Answer(step)
                BY <2>1
            <4> DEFINE e == engine[mEngine]
                       f == [e EXCEPT !.answered = (@ \/ thread[mEngine] \in {"parked", "stopped"}),
                                      !.paused = (@ /\ step)]
            <4>2. engine' = [engine EXCEPT ![mEngine] = f]
                BY <4>1 DEF Answer
            <4>3. DOMAIN f = DOMAIN e
                OBVIOUS
            <4>4. f.stopRequested = e.stopRequested
                <5>1. "stopRequested" \in DOMAIN e
                    BY <3>1 DEF Shape, Untouched
                <5> QED
                    BY <5>1
            <4> HIDE DEF f
            <4> QED
                BY <3>1, <4>2, <4>3, <4>4 DEF Shape
        <3> QED
            BY <2>1, <3>2 DEF Answer, Shape
    <2>2. CASE Pause
        BY <2>2, BoundsAssumption DEF Pause, Shape, Session, Untouched
    <2>3. CASE OnStopped \/ UNCHANGED vars
        BY <2>3 DEF OnStopped, vars, Shape
    <2> QED
        BY <2>1, <2>2, <2>3
<1>3. Shape'
    BY <1>1, <1>2 DEF Shape
<1> SUFFICES ASSUME Abandoned PROVE Abandoned'
    BY <1>1, <1>3
<1>4. (Alone' <=> Alone) /\ (ui # "idle" => (Heard(mEngine)' <=> Heard(mEngine)))
    BY <1>1 DEF Alone, Heard
<1> QED
    BY <1>1, <1>3, <1>4 DEF Abandoned, Stopping

LEMMA NextIInv == IInv /\ [Next]_vars => IInv'
<1> SUFFICES ASSUME IInv, [Next]_vars PROVE IInv'
    OBVIOUS
<1>1. CASE \E s \in Session : ThreadSteps(s)
    BY <1>1, ThreadIInv
<1>2. CASE \E then \in {"stop", "launch"} : StopEngine(then)
    BY <1>2, StopEngineIInv
<1>3. CASE Wait \/ Choose \/ Join \/ Destroy
    BY <1>3, WaitIInv, ChooseIInv, JoinIInv, DestroyIInv
<1>4. CASE StartEngine
    BY <1>4, StartEngineIInv
<1>5. CASE \/ \E step \in BOOLEAN : Answer(step)
           \/ Pause \/ OnStopped \/ UNCHANGED vars
    BY <1>5, HandlersIInv
<1> QED
    BY <1>1, <1>2, <1>3, <1>4, <1>5 DEF Next, ThreadSteps, StopsEngine

(***************************************************************************)
(* For any number of targets, of stops and of calls of Stop() that are     *)
(* lost: until the second is, MachBugDestroy() is given no engine whose    *)
(* thread is still in its loop, although the flag it is decided by is set  *)
(* by every target's thread.                                               *)
(***************************************************************************)
THEOREM NoEngineDestroyedInUse == Spec => []DestroyedOnlyAfterReturn
<1>1. IInv => DestroyedOnlyAfterReturn
    BY DEF IInv, Abandoned, DestroyedOnlyAfterReturn
<1>2. IInv /\ [Next]_vars => IInv'
    BY NextIInv
<1> QED
    BY <1>1, <1>2, InitIInv, PTL DEF Spec

-----------------------------------------------------------------------------
(***************************************************************************)
(* What the panels show.  The argument is about the engine at hand alone,  *)
(* and needs no bound on what is lost: wherever that engine's thread waits *)
(* in a stop, its signal is still queued or the panels show that stop.     *)
(***************************************************************************)
Frame ==
    /\ sessions \in 0..MaxSessions /\ mEngine \in 0..sessions
    /\ DOMAIN thread = Session /\ DOMAIN engine = Session
    /\ \A s \in Session : "stops" \in DOMAIN engine[s]
    /\ queued \in Nat

StopIsKnown ==
    mEngine # 0 /\ thread[mEngine] = "stopped" =>
        queued > 0 \/ shown = <<mEngine, engine[mEngine].stops>>

KInv == Frame /\ StopIsKnown

LEMMA EngineAtHand == Frame => (mEngine # 0 => mEngine \in Session)
BY BoundsAssumption DEF Frame, Session

\* An engine's thread stops its target by a signal, and only in another place
\* does it count another stop.
LEMMA ThreadKInv ==
    ASSUME NEW s \in Session, KInv, ThreadSteps(s)
    PROVE  KInv'
<1> USE DEF KInv, Frame
<1>1. mEngine # 0 => mEngine \in Session
    BY EngineAtHand
<1>2. CASE Park(s)
    <2>1. /\ thread' = [thread EXCEPT ![s] = "parked"]
          /\ UNCHANGED <<sessions, mEngine, queued, shown>>
        BY <1>2 DEF Park, Moves, window
    <2>2. /\ DOMAIN engine' = Session
          /\ \A u \in Session : /\ DOMAIN engine'[u] = DOMAIN engine[u]
                                /\ u # s => engine'[u] = engine[u]
        BY <1>2 DEF Park
    <2> QED
        BY <1>1, <2>1, <2>2 DEF StopIsKnown
<1>3. CASE CallBack(s)
    BY <1>3 DEF CallBack, Moves, window, StopIsKnown
<1>4. CASE ResetFlags(s)
    <2>1. /\ thread' = [thread EXCEPT ![s] = "running"]
          /\ UNCHANGED <<sessions, mEngine, queued, shown>>
        BY <1>4 DEF ResetFlags, Moves, window
    <2>2. /\ DOMAIN engine' = Session
          /\ \A u \in Session : /\ DOMAIN engine'[u] = DOMAIN engine[u]
                                /\ u # s => engine'[u] = engine[u]
        BY <1>4 DEF ResetFlags
    <2> QED
        BY <1>1, <2>1, <2>2 DEF StopIsKnown
<1>5. CASE /\ UNCHANGED <<sessions, mEngine, engine, queued, shown>>
           /\ \E to \in Places \ {"stopped"} : thread' = [thread EXCEPT ![s] = to]
    BY <1>1, <1>5 DEF StopIsKnown
<1>6. ASSUME \/ Claim(s) \/ LaunchFails(s) \/ Resume(s)
             \/ StopHeard(s) \/ StartReturned(s) \/ TargetExits(s)
      PROVE  KInv'
    <2>1. \E to \in Places \ {"stopped"} : thread' = [thread EXCEPT ![s] = to]
        BY <1>6 DEF Claim, LaunchFails, Resume, StopHeard, StartReturned, TargetExits,
                    Moves, Places
    <2>2. UNCHANGED <<sessions, mEngine, engine, queued, shown>>
        BY <1>6 DEF Claim, LaunchFails, Resume, StopHeard, StartReturned, TargetExits, window
    <2> QED
        BY <1>5, <2>1, <2>2
<1> QED
    BY <1>2, <1>3, <1>4, <1>6 DEF ThreadSteps, Runs

\* The window's own steps: no button makes its panels older.
LEMMA WindowKInv ==
    ASSUME KInv, \/ \E then \in {"stop", "launch"} : StopEngine(then)
                 \/ StopsEngine \/ StartEngine
                 \/ \E step \in BOOLEAN : Answer(step)
                 \/ Pause \/ OnStopped \/ UNCHANGED vars
    PROVE  KInv'
<1> USE DEF KInv, Frame
<1>1. mEngine # 0 => mEngine \in Session
    BY EngineAtHand
<1>2. CASE StartEngine
    <2>1. sessions + 1 \in Session /\ sessions' \in 0..MaxSessions
        BY <1>2, BoundsAssumption DEF StartEngine, Session
    <2> QED
        BY <1>2, <2>1 DEF StartEngine, StopIsKnown
<1>3. CASE Wait \/ Choose \/ Join \/ Destroy
    BY <1>3 DEF Wait, Choose, Join, Destroy, Goes, StopIsKnown
<1>4. CASE OnStopped
    BY <1>4 DEF OnStopped, Refreshed, StopIsKnown, window
<1>5. CASE UNCHANGED vars
    BY <1>5 DEF vars, window, StopIsKnown
<1>6. ASSUME UNCHANGED <<sessions, mEngine, thread, queued>>, DOMAIN engine' = Session,
             \A u \in Session : /\ DOMAIN engine'[u] = DOMAIN engine[u]
                                /\ engine'[u].stops = engine[u].stops,
             shown' \in {shown, Refreshed}
      PROVE  KInv'
    BY <1>1, <1>6 DEF Refreshed, StopIsKnown
<1>7. CASE \E then \in {"stop", "launch"} : StopEngine(then)
    <2>1. mEngine \in Session
        BY <1>1, <1>7 DEF StopEngine
    <2> QED
        BY <1>6, <1>7, <2>1 DEF StopEngine
<1>8. CASE Pause
    <2>1. mEngine \in Session
        BY <1>1, <1>8 DEF Pause
    <2> QED
        BY <1>6, <1>8, <2>1 DEF Pause, window
<1>9. CASE \E step \in BOOLEAN : Answer(step)
    <2>1. PICK step \in BOOLEAN : Answer(step)
        BY <1>9
    <2>2. mEngine \in Session
        BY <1>1, <2>1 DEF Answer
    <2> DEFINE f == [engine[mEngine] EXCEPT
                        !.answered = (@ \/ thread[mEngine] \in {"parked", "stopped"}),
                        !.paused = (@ /\ step)]
    <2>3. engine' = [engine EXCEPT ![mEngine] = f]
        BY <2>1 DEF Answer
    <2>4. DOMAIN f = DOMAIN engine[mEngine] /\ f.stops = engine[mEngine].stops
        BY <2>2
    <2> HIDE DEF f
    <2> QED
        BY <1>6, <2>1, <2>2, <2>3, <2>4 DEF Answer, window
<1> QED
    BY <1>2, <1>3, <1>4, <1>5, <1>7, <1>8, <1>9 DEF StopsEngine

(***************************************************************************)
(* For any number of targets, of stops and of calls of Stop() that are     *)
(* lost: once the window has served its signals, its panels show the stop  *)
(* its target is in, although the signals name no sender.                  *)
(***************************************************************************)
THEOREM PanelsAreCurrent == Spec => []PanelsShowTheStop
<1>1. Init => KInv
    BY BoundsAssumption DEF Init, KInv, Frame, StopIsKnown, Untouched
<1>2. KInv /\ [Next]_vars => KInv'
    BY ThreadKInv, WindowKInv DEF Next, ThreadSteps
<1>3. KInv => PanelsShowTheStop
    BY DEF KInv, Frame, StopIsKnown, PanelsShowTheStop
<1> QED
    BY <1>1, <1>2, <1>3, PTL DEF Spec

=============================================================================

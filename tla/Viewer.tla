-------------------------------- MODULE Viewer --------------------------------
(***************************************************************************)
(* The register viewer (src/cross/regview/MainWindow.cpp) as a client of   *)
(* the engine.  Every target gets an engine and a thread of its own, the   *)
(* one that runs Start(); the window keeps only the last of them, in       *)
(* mEngine, mStartThread and mStartReturned.  A target that will not stop  *)
(* is left to its thread, which goes on using its engine, tells the same   *)
(* window of its stops and in the end sets the same mStartReturned.        *)
(*                                                                         *)
(* The window's handlers run on one thread, one after the other; a handler *)
(* is one step except stopEngine(), which waits.  An engine is what the C  *)
(* API lets the window see of it: ExceptionLoop and Lifecycle hold the     *)
(* detail.  The thread reads mEngine as its first act and five seconds are *)
(* taken to be enough for that, and for a Stop() that the loop has heard.  *)
(* Of the queued signals only targetStopped is kept, which changes more    *)
(* than the status line; none of them says which engine sent it.  The      *)
(* pages and the memory provider are set and cleared with mEngine.         *)
(***************************************************************************)
EXTENDS Naturals

CONSTANTS
    MaxSessions,    \* bound: targets launched or attached to
    MaxStops,       \* bound: stops of each target
    MaxLost         \* bound: calls of Stop() that the engine does not hear

ASSUME BoundsAssumption == {MaxSessions, MaxStops, MaxLost} \subseteq Nat

VARIABLES
    ui,             \* what the window's thread is doing
    next,           \* what it was asked for: "stop" or "launch"
    mEngine,        \* the engine it holds, 0 for nullptr
    mStartThread,   \* the thread it can join, 0 for none
    mStartReturned,
    sessions,       \* how many engines there have been
    thread,         \* where the thread of each engine is in Start()
    engine,         \* what is set in each engine
    destroyed,      \* the engines given to MachBugDestroy
    queued,         \* targetStopped signals waiting for the window
    shown,          \* the stop the panels show: whose, and which
    lost            \* calls of Stop() that were not heard

window == <<ui, next, mEngine, mStartThread>>
vars == <<window, mStartReturned, sessions, thread, engine, destroyed, queued,
          shown, lost>>

Session == 1..MaxSessions

(***************************************************************************)
(* "launching": Init() or Attach(), before mIsRunning is claimed;          *)
(* "claimed": mIsRunning is set and the flags are not cleared yet;         *)
(* "parked": mStopped is set and the callback has not been called;         *)
(* "returned": Start() is over and mStartReturned has not been stored.     *)
(***************************************************************************)
Places == {"none", "launching", "claimed", "running", "parked", "stopped",
           "returned", "over"}

IsRunning(s) == thread[s] \in {"claimed", "running", "parked", "stopped"}

Untouched == [stopRequested |-> FALSE, answered |-> FALSE, paused |-> FALSE, stops |-> 0]

Init ==
    /\ ui = "idle" /\ next = "stop"
    /\ mEngine = 0 /\ mStartThread = 0
    /\ mStartReturned = FALSE
    /\ sessions = 0
    /\ thread = [s \in Session |-> "none"]
    /\ engine = [s \in Session |-> Untouched]
    /\ destroyed = {}
    /\ queued = 0
    /\ shown = <<0, 0>>
    /\ lost = 0

-----------------------------------------------------------------------------

(***************************************************************************)
(* The thread of session s: startEngine()'s lambda, and Start() inside it. *)
(***************************************************************************)
Moves(s, from, to) == thread[s] = from /\ thread' = [thread EXCEPT ![s] = to]

Claim(s) ==
    /\ Moves(s, "launching", "claimed")
    /\ UNCHANGED <<window, mStartReturned, sessions, engine, destroyed, queued,
                   shown, lost>>

LaunchFails(s) ==
    /\ Moves(s, "launching", "returned")
    /\ UNCHANGED <<window, mStartReturned, sessions, engine, destroyed, queued,
                   shown, lost>>

\* Start() forgets a Stop() that came since the claim.
ResetFlags(s) ==
    /\ Moves(s, "claimed", "running")
    /\ engine' = [engine EXCEPT ![s].stopRequested = FALSE]
    /\ UNCHANGED <<window, mStartReturned, sessions, destroyed, queued, shown, lost>>

Park(s) ==
    /\ Moves(s, "running", "parked")
    /\ ~engine[s].paused
    /\ engine[s].stops < MaxStops
    /\ engine' = [engine EXCEPT ![s].stops = @ + 1, ![s].answered = FALSE]
    /\ UNCHANGED <<window, mStartReturned, sessions, destroyed, queued, shown, lost>>

\* onSystemBreakpoint, onStep, onException, onBreakpoint: the signal is queued.
CallBack(s) ==
    /\ Moves(s, "parked", "stopped")
    /\ queued' = queued + 1
    /\ UNCHANGED <<window, mStartReturned, sessions, engine, destroyed, shown, lost>>

Resume(s) ==
    /\ Moves(s, "stopped", "running")
    /\ engine[s].answered
    /\ ~engine[s].stopRequested
    /\ UNCHANGED <<window, mStartReturned, sessions, engine, destroyed, queued,
                   shown, lost>>

StopHeard(s) ==
    /\ engine[s].stopRequested
    /\ Moves(s, "running", "returned") \/ Moves(s, "stopped", "returned")
    /\ UNCHANGED <<window, mStartReturned, sessions, engine, destroyed, queued,
                   shown, lost>>

TargetExits(s) ==
    /\ Moves(s, "running", "returned")
    /\ ~engine[s].paused
    /\ UNCHANGED <<window, mStartReturned, sessions, engine, destroyed, queued,
                   shown, lost>>

StartReturned(s) ==
    /\ Moves(s, "returned", "over")
    /\ mStartReturned' = TRUE
    /\ UNCHANGED <<window, sessions, engine, destroyed, queued, shown, lost>>

-----------------------------------------------------------------------------

(***************************************************************************)
(* The window.  Its buttons and its queued signals are served when it is   *)
(* not inside a handler.                                                   *)
(***************************************************************************)
Idle == ui = "idle"

\* vtStop: refused before the loop runs, and lost before the flags are reset.
Unheard(s) == thread[s] \in {"launching", "claimed"}

StopEngine(then) ==
    /\ Idle
    /\ mEngine # 0
    /\ then = "launch" => sessions < MaxSessions
    /\ Unheard(mEngine) => lost < MaxLost
    /\ lost' = IF Unheard(mEngine) THEN lost + 1 ELSE lost
    /\ engine' = IF IsRunning(mEngine)
                     THEN [engine EXCEPT ![mEngine].stopRequested = TRUE] ELSE engine
    /\ ui' = "waiting"
    /\ next' = then
    /\ UNCHANGED <<mEngine, mStartThread, mStartReturned, sessions,
                   thread, destroyed, queued, shown>>

\* Nothing is bringing the loop down: the target outlasts the five seconds.
Overruns(s) ==
    \/ thread[s] = "launching"
    \/ thread[s] \in {"running", "parked", "stopped"} /\ ~engine[s].stopRequested

Goes(to) == ui' = to /\ UNCHANGED <<next, mEngine>>

Wait ==
    /\ ui = "waiting"
    /\ mStartReturned \/ Overruns(mEngine)
    /\ Goes("choose")
    /\ UNCHANGED <<mStartThread, mStartReturned, sessions, thread, engine, destroyed,
                   queued, shown, lost>>

\* A mutant: the thread is joined whether or not it has returned.
ChooseToJoin ==
    /\ ui = "choose"
    /\ Goes("join")
    /\ UNCHANGED <<mStartThread, mStartReturned, sessions, thread, engine, destroyed,
                   queued, shown, lost>>

Choose ==
    /\ ui = "choose"
    /\ Goes(IF mStartReturned THEN "join" ELSE "destroy")
    /\ mStartThread' = IF mStartReturned THEN mStartThread ELSE 0
    /\ UNCHANGED <<mStartReturned, sessions, thread, engine, destroyed, queued,
                   shown, lost>>

Join ==
    /\ ui = "join"
    /\ thread[mStartThread] = "over"
    /\ Goes("destroy")
    /\ mStartThread' = 0
    /\ UNCHANGED <<mStartReturned, sessions, thread, engine, destroyed, queued,
                   shown, lost>>

\* A mutant: the engine is destroyed although its thread may be using it.
DestroyAnyway ==
    /\ ui = "destroy"
    /\ destroyed' = destroyed \cup {mEngine}
    /\ mEngine' = 0
    /\ ui' = IF next = "launch" THEN "create" ELSE "idle"
    /\ UNCHANGED <<next, mStartThread, mStartReturned, sessions, thread, engine,
                   queued, shown, lost>>

\* The flag is loaded again, and need not be what it was.
Destroy ==
    /\ ui = "destroy"
    /\ destroyed' = IF mStartReturned THEN destroyed \cup {mEngine} ELSE destroyed
    /\ mEngine' = 0
    /\ ui' = IF next = "launch" THEN "create" ELSE "idle"
    /\ UNCHANGED <<next, mStartThread, mStartReturned, sessions, thread, engine,
                   queued, shown, lost>>

\* startEngine() after its stopEngine(), which returned at once without an engine.
StartEngine ==
    /\ ui = "create" \/ (Idle /\ mEngine = 0)
    /\ sessions < MaxSessions
    /\ sessions' = sessions + 1
    /\ mEngine' = sessions + 1
    /\ mStartThread' = sessions + 1
    /\ mStartReturned' = FALSE
    /\ thread' = [thread EXCEPT ![sessions + 1] = "launching"]
    /\ ui' = "idle"
    /\ UNCHANGED <<next, engine, destroyed, queued, shown, lost>>

\* onContinue and onStepInto: they answer a stop, and onContinue ends a pause.
Answer(step) ==
    /\ Idle
    /\ mEngine # 0
    /\ IsRunning(mEngine)
    /\ LET e == engine[mEngine] IN
       engine' = [engine EXCEPT ![mEngine] =
           [e EXCEPT !.answered = (@ \/ thread[mEngine] \in {"parked", "stopped"}),
                     !.paused = (@ /\ step)]]
    /\ UNCHANGED <<window, mStartReturned, sessions, thread, destroyed, queued,
                   shown, lost>>

\* refreshInventory and its fellows: what a stopped engine answers is shown.
Refreshed ==
    IF mEngine # 0 /\ thread[mEngine] \in {"parked", "stopped"}
    THEN <<mEngine, engine[mEngine].stops>> ELSE shown

\* onPause: the panels are refreshed whether or not there was anything to pause.
\* (A Pause before the flags are reset is a matter for ExceptionLoop.)
Pause ==
    /\ Idle
    /\ mEngine # 0
    /\ IsRunning(mEngine) /\ thread[mEngine] # "claimed"
    /\ engine' = [engine EXCEPT ![mEngine].paused = (@ \/ thread[mEngine] = "running")]
    /\ shown' = Refreshed
    /\ UNCHANGED <<window, mStartReturned, sessions, thread, destroyed, queued, lost>>

\* A mutant: the panels are filled once for each engine, like the descriptors.
OnStoppedOnce ==
    /\ Idle
    /\ queued > 0
    /\ queued' = queued - 1
    /\ shown' = IF shown[1] = mEngine THEN shown ELSE Refreshed
    /\ UNCHANGED <<window, mStartReturned, sessions, thread, engine, destroyed, lost>>

\* onStopped, for a signal of whichever engine.
OnStopped ==
    /\ Idle
    /\ queued > 0
    /\ queued' = queued - 1
    /\ shown' = Refreshed
    /\ UNCHANGED <<window, mStartReturned, sessions, thread, engine, destroyed, lost>>

-----------------------------------------------------------------------------

Runs(s) ==
    \/ Claim(s) \/ LaunchFails(s) \/ ResetFlags(s) \/ CallBack(s) \/ Resume(s)
    \/ StopHeard(s) \/ StartReturned(s)

StopsEngine == Wait \/ Choose \/ Join \/ Destroy \/ (ui = "create" /\ StartEngine)

Next ==
    \/ \E s \in Session : Runs(s) \/ Park(s) \/ TargetExits(s)
    \/ \E then \in {"stop", "launch"} : StopEngine(then)
    \/ StopsEngine
    \/ Idle /\ StartEngine
    \/ \E step \in BOOLEAN : Answer(step)
    \/ Pause
    \/ OnStopped

(***************************************************************************)
(* Engine threads and the window's thread are scheduled, and Qt delivers   *)
(* queued signals.  No user has to act and no target has to stop or end.   *)
(***************************************************************************)
Fairness ==
    /\ \A s \in Session : WF_vars(Runs(s))
    /\ WF_vars(StopsEngine)
    /\ WF_vars(OnStopped)

Spec == Init /\ [][Next]_vars /\ Fairness

-----------------------------------------------------------------------------

(***************************************************************************)
(* Until a second Stop() goes unheard, an engine is destroyed only when    *)
(* its thread is out of it.  One such Stop() leaves a detached thread in   *)
(* its loop; it takes another for the flag that thread sets to decide      *)
(* about an engine still in use, between the two loads of it.              *)
(***************************************************************************)
DestroyedOnlyAfterReturn ==
    lost <= 1 => \A s \in destroyed : thread[s] \in {"returned", "over"}

(***************************************************************************)
(* stopEngine() comes back, so that a Stop() the engine did not hear       *)
(* leaves a window that can be used.                                       *)
(***************************************************************************)
WindowComesBack == ui = "waiting" ~> ui = "idle"

(***************************************************************************)
(* When the window has served its signals its panels show the stop its     *)
(* target is in, although signals carry no sender, may be served in a      *)
(* later session and may come when the target has run on.                  *)
(***************************************************************************)
PanelsShowTheStop ==
    Idle /\ queued = 0 /\ mEngine # 0 =>
        (thread[mEngine] = "stopped" => shown = <<mEngine, engine[mEngine].stops>>)

=============================================================================

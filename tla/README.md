# The debuggers of this repository in TLA+

This repository is a fork of x64dbg that adds native debuggers for macOS
(MachBug) and Linux (ElfBug) beside the Windows one.  This directory holds TLA+
models of the parts in which several threads, processes or retries have to
agree, the TLC runs that check them on small instances, and TLAPS proofs of
what holds for every instance.

Paths starting with `core/`, `process/`, `arch/` or `api/` are below
`src/cross/MachBug/MachBug/`; the others start with `src/`.  `PROJECT.json` gives
the source lines of every definition, the hazards by line and the mutant of
every property.

## Inventory

| Component | State | Operations | Interacts with |
|---|---|---|---|
| MachBug exception loop, `core/Debugger.Loop.cpp` | `mIsRunning`, `mStopRequested`, `mStopped`, `mPausedByUser`, `mPendingCommand`, the step-off bookkeeping, the exception port | `Start` (one thread, blocks), `Continue`, `StepInto`, `Pause`, `Stop` (any thread) | callers through `mCmdMutex`/`mCmdCv`; the kernel through exception messages and replies; the table through `Arm`, `Disarm`, `RestoreAll`; callbacks to the user interface |
| Breakpoint table, `core/Breakpoints.cpp` | `mEntries` (address, kind, enabled, armed, slot, saved bytes) under `mMutex` | `Add`, `Remove`, `SetEnabled`, `Arm`, `Disarm`, `RestoreAll`, `ArmAll`, `ApplyToThread` | the target's memory; the debug registers of each thread the thread list names |
| Threads, `core/Threads.cpp` | the threads of the last look, one port each | `Refresh`, `Ports`, `PortFor` | `refreshThreads` at each stop and in `Pause`; the table |
| Modules, `core/Modules.cpp` | the images of the last look | `Refresh`, `Enumerate` | dyld's image list in the target |
| Lifecycle, `core/Debugger.cpp`; process, `process/Process.cpp` | `mProcess`, `mAttachedViaPtrace` | `Init`, `Attach`, `Terminate`; `DetachAndKill`, `WaitForRealExit` (bounded polling) | posix_spawn, ptrace, signals, waitpid, task ports; the loop |
| Architecture layer, `arch/`; memory, `memory/`; Mach-O reader, `macho/`; exception server | none | trap shapes, debug registers, page protections, parsing, MIG glue | the target |
| MachBug C API, `api/machbug_api.cpp` | one `Debugger` and the loop's thread | the vtable a shell calls | everything above |
| ElfBug engine, `src/cross/ElfBug` | `mPaused`, `mStepPending`, `mPauseRequested`, threads with a single-step flag each, breakpoints, a queue of requests | `Start` (the tracer), `Continue`, `StepInto`, `Pause`, `Stop`, breakpoint requests (any thread) | ptrace: one thread stopped at a time, signals, clone and exit events |
| Register viewer, `src/cross/regview` | `mEngine`, `mStartThread`, `mStartReturned`, the panels | launch, attach, stop, continue, step, pause, queued stop signals | one engine and one thread per target, through the C API |
| Cross-platform shell, `src/cross/debugger` | an adapter over ElfBug | toggling of breakpoints, commands | ElfBug's C API |
| Script interpreter, `src/dbg/simplescript.cpp` with `jobqueue.h` | `scriptState`, `gScriptInterruptReason`, `gScriptYieldContext`, the job queue | `scriptRun`, `ScriptInterruptAwait`, `scriptHandleInterrupt`, `ScriptCmdExecAwait`, `ScriptResume` | the debug loop's `cbGenericBreakpoint`, the user's commands |
| Task threads, `src/dbg/taskthread.h` | `args`, a semaphore that counts to one, `active` | `WakeUp` (any thread), `Loop`, the destructor | log, title, memory map and other views |
| Debugger core, GUI, bridge of x64dbg; Qt tools | inherited or separate programs | | not modelled, see below |

What is hard, and what each part has to get right:

* *MachBug's loop.*  The stopped state is a withheld reply.  Callers on any
  thread post commands while exceptions of other threads queue up and the target
  may die at any moment.  No command may answer a stop it was not given for, no
  thread may be lost between port and loop or answered twice, suspends must be
  undone, `Stop` must end the loop and let go of the target cleanly.
* *The step-off cycle.*  A breakpoint's trap is taken out, one step is made, the
  trap goes back.  Faults, signals queued behind answered exceptions, further
  hits and user edits arrive in between.
* *The table.*  What it says, what is in the target's memory and what is in each
  thread's registers must agree, though writes may be refused for one thread
  out of many and threads come and go.
* *The lifecycle.*  Each failure of a launch, an attach or a start must leave no
  stranded child, no stranger stopped or traced, and a Debugger that can be used
  again; pids are reused under it.
* *ElfBug.*  While the tracer waits for its own single step off a breakpoint
  anything else may arrive in its place.
* *The viewer.*  A target that will not stop is left to its thread, which goes on
  sharing flags and signals with the next one's.
* *Scripts.*  Two atomics and a state variable, read and written by three
  threads, decide who executes commands.
* *Task threads.*  Wake-ups coalesce in a semaphore that counts to one.

## Modules

| Module | Models | Uses |
|---|---|---|
| `ExceptionLoop` | `Start`, `exceptionLoop`, the parking half of `handleException`, the five callers' commands, the target's threads | instance of `StopProtocol` |
| `StopProtocol` | the abstract promise to a caller: running, stopped, ended | |
| `StepOff` | the classifying half of `handleException` and the resume cycle | |
| `Breakpoints` | the table with memory, registers, thread list and refresh | |
| `Lifecycle` | `Init`, `Attach`, `Start`, `Terminate`, `DetachAndKill`, the bounded waits, against a system of processes | |
| `ElfEngine` | ElfBug's tracer, its callers, ptrace and the target's threads | |
| `Viewer` | the register viewer's window over several engines | |
| `ScriptYield` | the script worker, the breakpoint callback and the user | |
| `TaskThread` | `TaskThread_` and `StringConcatTaskThread_` | instance of `Mailbox` |
| `Mailbox` | the abstract promise to whoever wakes a task thread | |
| `...Proofs` | theorems | the module they prove about, TLAPS |
| `MC...` | instances for TLC | the module they check |

The split follows the code's own locks and threads.  `ExceptionLoop` is about
`mCmdMutex`: it leaves open whether an exception is absorbed or reported and
tells the breakpoints apart only by whether they were set before or after `Stop`.
`StepOff`
fills in that choice and treats the hand-off as one step.  `Breakpoints` is
about the table's own mutex and knows nothing of why an operation is called.
`Lifecycle` is about the owner's calls one after the other and sees the loop
from outside.  `Viewer` sees an engine as its C API shows it.

### ExceptionLoop

`loop` is the program counter of the thread in `Start()`; the other engine
variables are the class members of the same name without the `m`.  `blocked`
are the threads of the target that wait for a reply, `queue` those whose
message is still in the port, `current` the one whose reply is withheld.  Each
caller's command holds `mCmdMutex` from end to end, so it is one step; the loop
thread's steps end where it takes or releases the mutex, where it reads an
atomic another thread writes, and where the kernel acts.  `Next` lets callers
in once `Start` has cleared the flags; `EagerNext` as soon as `mIsRunning` is
set, which is what `vtStop` and `vtPause` go by.  Breakpoints are set and deleted
through the C API at any time, a stop or not, after `Stop` as well as before
(`TableStep`).  `Released` is the restore of the traps and the release of the
exception ports: either may be refused, the loop reports that and goes on, and
`refused` remembers it.

### StepOff

The bookkeeping variables are the members `mStepArmed` to
`mQueuedSigTrapExpected`.  The program is a cycle of instructions; `table` is
what the user asked for by address, `armed` where a trap is.  `exc` is the
exception a thread is blocked on, `signal` what the kernel will deliver before
its next instruction.  The kernel's part follows the measurements recorded in the
code's comments: answering an `EXC_BREAKPOINT` may or may not queue a SIGTRAP,
and a completed step arrives as `EXC_BREAKPOINT` or as SIGTRAP.  `Handle(t)` is
one pass through `handleException`, one disjunct for each way out of it;
`Resume` is the way from the decision to the reply: `BeginCycle` where all goes
well, `NoCycle` for its failure paths.  Every write may be refused: the disarm,
the single-step flag set or cleared, the rewinding of the program counter, and
the arming that puts a trap back (`PutBack`), at the end of a cycle as well as
after a step that could not be armed.  What the code then reports by
`cbInternalError` is kept as history: `lost` are the breakpoints reported as not
put back, `stray` the threads whose flag is reported as not cleared.  Callers
edit the table at any time.

### Breakpoints

`table` is `mEntries` keyed by address; `mem` is what the target holds there;
`regs` the debug registers of each thread; `live` the threads that exist,
`ports` those the engine knows, `unapplied` those a refresh saw appear and has
not written yet; `refused` remembers that a write to all threads was reported
as a failure.  Operations hold `mMutex` and are one step; `RestoreAll` and
`ArmAll` hold it across several writes while the target's threads move
(`sweep`).  A hardware write fails for exactly the threads that have ended, and
every thread is tried, as `applyHardwareLocked` does.

### Lifecycle

`proc` is what the kernel knows of each pid; a pid is handed out again once its
process has been reaped, and `gen` tells its processes apart, as a task port
does.  `pc` is where the owner is; `DetachAndKill` is called from five places
and returns to `next`.  Each system call is a step, with its refusals; a
bounded wait polls up to `Attempts` times.  `PT_DETACH` is granted for a process
that has stopped, may be refused for a traced one that has not, and the engine
does not look; `kept` remembers the refusal.  The system's part lets processes be
born, take a stop that was sent, and die: on their own when they run, of a
SIGKILL, ours or another's, when they are not traced.

### ElfEngine

`tracer` is where the tracer thread is; `st`, `why`, `pc`, `mid` are the kernel's
view of each thread: what it stopped for, where, and whether it is one byte
past a 0xCC.  `WaitStops` and `WaitExits` are `waitpid(-1)`, which may hand over
any thread with news; the handlers are `handleSignal` and `handleSigtrap`.  The
step off a breakpoint comes after the user has been told and the requests are
served, and is two steps, because the engine waits in between for that thread
alone and takes whatever comes.  All breakpoints are written through the main
thread's pid, so writes take effect only while that thread is stopped
(`Writable`), and the code goes on either way.  `StepOffFails` is the single step
that ptrace refuses, to a thread killed meanwhile.  Other threads call `Continue`,
`StepInto`, `Pause`, `Stop` at any time, and toggle breakpoints through the
queue of requests, which only the tracer empties.

### Viewer

Each session is a target with an engine and a thread; the window has one
`mEngine`, one joinable thread and one `mStartReturned`, which every thread
sets.  A handler is one step, except `stopEngine`, which waits up to five
seconds and loads the flag twice.  `lost` counts the calls of `Stop` an engine
does not hear: refused before the loop runs or wiped by `Start`'s reset.
`MaxLost` bounds them for TLC alone.

### ScriptYield

Every load and store of the two atomics and of the script's state is a step, the
three stores of `scriptResetInterruptState` included.  The interpreter (`command`
to `judge`) runs on the worker or on the debug loop's thread, so it is written
once for both.  The Windows events that go with the atomics are left out: each
wait on them has a time limit and tests the atomics again.  `meddled` is set once
the user acts while the target runs or a breakpoint is handled; what a
breakpoint's own scriptcmd starts does not set it.

### TaskThread

A post is known by its number.  `kind` chooses between replacing and appending
arguments.  Blocks under the critical section are one step; the semaphore, the
latch, the call and the three parts of the destructor are steps of their own.

## Runs

| Run | Configuration | Asks | Distinct states |
|---|---|---|---|
| Loop | `MCExceptionLoop.cfg` | do replies, commands, suspends, teardown, protocol and progress hold? | 5,992 |
| Table | `MCBreakpoints.cfg` | do table, memory and registers agree? | 84,812 |
| Cycle | `MCStepOff.cfg` | does the step-off cycle keep its promises with one thread, on both builds? | 549,796 |
| Lifecycle | `MCLifecycle.cfg` | is everything let go of, whatever goes wrong? | 589,854 |
| ElfEngine | `MCElfEngine.cfg` | are breakpoints kept, stops answered and steps told apart? | 449,360 |
| ScriptYield | `MCScriptYield.cfg` | does a yielded script stay put, and does the callback come through? | 536,214 |
| TaskThread | `MCTaskThread.cfg` | is it a mailbox that loses nothing and can be destroyed? | 5,503 |
| Viewer | `MCViewer.cfg` | is no engine destroyed in use, with at most one `Stop` unheard? | 636,073 |
| LostStop | `MCExceptionLoopLostStop.cfg` | does `Stop()` always have an effect? No | |
| LostBreakpoint | `MCStepOffLostBreakpoint.cfg` | does the cycle work with two threads? No | |
| NextEvent | `MCScriptYieldNextEvent.cfg` | is an event on the heels of another handled? No | |
| Hang | `MCViewerHang.cfg` | does the window come back after two unheard stops? No | |

### Properties

*Loop.*  `RepliesAccounted`: the withheld reply, the blocked threads and the port's
messages account for each other.  `CommandsBelongToTheirStop`: `mStopped` is the
parked state and a command never outlives it.  `SuspendsAreUndone`: the suspend
count is the pause flag.  `StopLetsGoFirst`, `KilledClean`: before the reply to
`Stop`, and again before the kill, the breakpoints that were set when `Stop` was
called are out and the ports are given back, but for what the kernel refused at
that very attempt.  A breakpoint set after `Stop` is nobody's promise: nothing in
the C API keeps a caller from it.  `ProtocolSafety`,
`ProtocolProgress`: the loop implements `StopProtocol`, with `phase`, `pending`
and `stopRequested` as its refinement mapping.  `StopEndsTheLoop`,
`DeathIsNoticed`: a requested end comes, and so does notice of the target's own
end, which no message announces.

*Table.*  `TrapsAccounted`: the target holds a trap exactly where an armed entry
says so, and that entry saved the target's own bytes.  `SlotsDisjoint`: no two
hardware entries own one register.  `ThreadsCarryTheTable`: until a write is
refused, each thread caught up with carries exactly the armed hardware entries.
`SweepKeepsItsWord`, `HardwareChangesTogether`: what a *reported success* is worth.

*Cycle.*  `NoBreakpointLost`, `NoStrayStep`, `NoUnaskedStep`, `CycleEnds`: whatever
interrupts a cycle and whatever is refused, a breakpoint is only missing from the
target, and a flag is only left on a thread, while the cycle is on or once the
caller has been told; `cbStep` is only for a `StepInto`; and the cycle ends.  The
last has an exception, which the code really has: on arm64 a thread that finds
the trap under it again during its cycle raises an exception that passes for the
leftover of the stop, and does so for ever.

*Lifecycle.*  `ClaimIsReleased`: `mIsRunning` is set exactly while `Start()` is at
work.  `NoStrandedChild`, `OthersLetGo`: what the engine launched ends as its
target, as reaped, or killed with its death outlasting the bounded wait; what it
did not launch is traced only if the system refused to detach it, and stopped only
if it is still traced or its SIGSTOP came after the wait for it was given up.  `NothingRunsUnwatched`: a
launched child runs only with its exception ports in.  `KillsAreAnswerable`: a
SIGKILL goes to a traced process only where its detach was refused.  `CallsReturn`: every wait is bounded.

*ElfEngine.*  `NoBreakpointLost`: what the user is shown as set is in the target,
though a write may fail at each place where a breakpoint is deleted or set.
`PauseIsOnItsWay`: a pause asked for has its SIGSTOP on the way, also when it
arrives inside the step off a breakpoint.  `OverMeansDead`: the loop ends only
when the target has.  `NoUnaskedStep`, `StopsAreAnswered`: as above.

*ScriptYield.*  `RequestHolds`: while the callback of a breakpoint is at work under a
request, the worker executes nothing.  `OnlyRealStops`: a script waiting for its
own `run` does not take a breakpoint being looked at for the stop.
`YieldIsAnswered`: a request stored before the script that was on has reset it is
answered, whatever the user does short of resuming by hand; one stored later is
not, and only a user who acts while the target runs brings that about.
`EventEnds`: the callback comes to its end, unless the user acts.

*TaskThread.*  `NothingLost`: no text is lost, repeated or reordered.  `IsMailbox`: it
implements `Mailbox`, the liveness included.  `DestructorReturns`.

*Viewer.*  `DestroyedOnlyAfterReturn`: before a second `Stop` goes unheard, no engine is
destroyed under its thread.  `PanelsShowTheStop`, `WindowComesBack`.

Each property has a mutant, a plausible bug in the code it is about, under which
TLC finds it violated.

### What the violations mean

*LostStop.*  `Start()` sets `mIsRunning` and then clears `mStopRequested`; the C API
lets a caller call `Stop()` in between, and it is forgotten.  `mPausedByUser` is
lost the same way, with a suspend nobody undoes.

*LostBreakpoint.*  The cycle's records are one per engine: a hit on a second thread
overwrites which breakpoint has to be put back.

*NextEvent.*  `ScriptResume` clears the request without waiting for the script to
lower `active`; the next breakpoint can take that flag for the answer to its own
request, find it lowered a moment later, and queue its scriptcmd behind the
worker that waits for it.

*Hang.*  A detached thread sets `mStartReturned` for the engine that came after;
a second stop that was not heard then joins a thread that goes on.

### Bounds

Nothing is counted without a limit in these models, so no constraint on the state
is needed.

* `Loop`: three threads; one is held by a stop, one has a message in the port, one
  runs; breakpoints are counted by whether they came before `Stop`.  The proofs hold for any number.
* `Table`: three addresses, one more than the registers of either bank, so that
  allocation fails, skips and reuses; two threads, one that carries while the
  other refuses.  Addresses and threads are interchangeable and checked up to
  symmetry (`CHOOSE` is applied to the owners of a register, at most one by
  `SlotsDisjoint`).  The banks are arm64's separate ones; the shared registers of
  x86-64 are covered by the theorems.
* `Cycle`: one thread, since with two the promise fails (LostBreakpoint); three
  instructions, so that a breakpoint has a neighbour with one and a neighbour
  without; on either build one of the instructions may fault.
* `Lifecycle`: two pids and two processes, so that a stranger lives beside the
  engine's own target, or a pid is used again while the engine still knows its
  former owner; one poll, since a wait's length changes nothing but when it gives
  up.
* `ElfEngine`: two threads, the leader and one it clones, over two instructions;
  one faults and carries the breakpoint, one request at a time.
* `ScriptYield`: two starts, one abort, one resumption by hand; three threads are
  all there are.  Two events in a row need no more than one start.
* `TaskThread`: three callers and five posts: one running, one latched, the rest
  compressed.
* `Viewer`: three sessions, so that a detached thread can outlive a session it did
  not start with; two stops each; one `Stop` unheard.  With two the promise
  fails (Hang).

### Fairness

Only threads the code itself keeps running are assumed to be scheduled.

* `ExceptionLoop`: weak fairness of the loop's steps, strong fairness of a receive
  that ends with a message or at its time limit, since signals do not interrupt
  every 100 ms slice for ever.  Nothing of callers or target.
* `StepOff`: weak fairness, for each thread, of handling its message, of delivering
  what the kernel has queued or trapping, and of executing the next instruction.
* `Lifecycle`: weak fairness of the owner's thread.  Nothing of the system: a
  process may ignore its SIGKILL for ever, and that is what the bounded waits are
  for.
* `ElfEngine`: weak fairness of the tracer's thread, of a SIGKILL and a SIGSTOP the
  kernel has pending, and of the user answering a pause, without which a stop
  rightly stays.
* `ScriptYield`: weak fairness of the worker, of the thread that handles a breakpoint
  and of the user's thread once it is inside an abort.
* `TaskThread`: weak fairness of the loop, of a destructor begun, and of each caller
  between its two halves of `WakeUp`.
* `Viewer`: weak fairness of each engine's thread, of `stopEngine` and of Qt's
  delivery of queued signals.

`Breakpoints` states no liveness.

## Proofs

TLAPS proves the theorems of the eight `...Proofs` modules for every value of
the constants under the assumptions the modules state about them, all of which
TLC evaluates on the instances: `NoThreadAssumption` (the value for "no thread"
is not a thread), `SlotsAssumption` (slot counts are naturals, and equal when one bank serves both kinds), `StepOffAssumption` and
`ElfEngineAssumption` (a main thread among the threads, a program of at least two
and at least one instruction), `LifecycleAssumption` (the value for "none" is
the record of no target, a wait polls at least once), `Bounds`, `PostsAssumption` and `BoundsAssumption`
(bounds are naturals).  Assumptions beyond these are part of
the theorem that needs them and are named below.

| Module | Theorems |
|---|---|
| `ExceptionLoopProofs` | `TypeCorrect`, `EveryReplyIsOwed`, `NoStaleCommand`, `OneContinueIsEnough`, `TheKillIsClean`, `TheReplyIsClean`, `LoopKeepsTheProtocol` |
| `BreakpointsProofs` | `TypeCorrect`, `EveryTrapIsAccounted`, `NoSlotIsSharedOut`, `DisabledIsOut`, `SweepsAreThorough`, `ThreadsCarryWhatTheTableSays`, `HardwareChangesForAll` |
| `StepOffProofs` | `TypeCorrect`, `StepsAreAskedFor`, `BreakpointsSurviveTheCycle`, `NoFlagIsLeftBehind` |
| `LifecycleProofs` | `TypeCorrect`, `StartGivesItsClaimBack`, `KillsCanBeAnswered`, `NoChildIsStranded`, `ChildrenRunWatched`, `StrangersAreLetGo` |
| `ElfEngineProofs` | `TypeCorrect`, `TheLoopOutlivesTheTarget`, `PausesComeThrough`, `StepsAreAskedFor`, `BreakpointsAreKept` |
| `ScriptYieldProofs` | `TypeCorrect`, `ScriptStaysYielded`, `RunsWaitForRealStops` |
| `TaskThreadProofs` | `TypeCorrect`, `EveryTextIsPrinted`, `KeepsTheMailbox` |
| `ViewerProofs` | `NoEngineDestroyedInUse`, `PanelsAreCurrent` |

*ExceptionLoop.*  The invariants of the hand-off are inductive together with two
facts: nothing a caller asked for is on record before the flags are cleared
(`Quiet`), and once the loop has taken a Stop it lets go of the target before it
replies, but for what is refused, and does not take it up again (`Remembered`).
That breakpoints may be set at any time is why the two theorems speak of those
that came before `Stop`.  The refinement of
`StopProtocol` maps each step of the loop or a caller to a step of the protocol
or to none.

*Breakpoints.*  Every operation goes through arming or disarming one entry, so
`ArmEffect` and `DisarmEffect` say once what either may leave behind, whatever
is refused.  From them follows that operations keep `TInv` (types, traps,
disjoint slots, and that a disabled entry is not armed).  What threads carry is
a second invariant on top (`HInv`): a thread the engine has not caught up with
carries nothing, and until a write is refused the others carry the table.  It
needs `SameSlots`, that an operation which is not about hardware leaves the
register images alone.

*StepOff.*  That `cbStep` is only for a `StepInto` holds with any number of threads.
The promises of the cycle are proved under `Thread = {Main}`, which is what the
LostBreakpoint run shows to be necessary: the records of a cycle belong to the
engine, and speak of the stepping thread only when there is no other.  With
one thread, while a cycle is on, that thread is at the breakpoint it leaves (or,
on x86-64, one byte into it), or has made its step and brings the step's own
exception (`Leaving`); its single-step flag is `mStepArmed`, or is one the engine
has reported as stuck (`FlagsAgree`); and every enabled breakpoint is armed but
the one it is leaving and those reported as not put back (`Kept`).  `PutBackKeeps`
says what an arming, granted or refused, does to the last.

*Lifecycle.*  A first invariant says that each process record is possible and none
is killed while traced unless its detach was refused (`Sound`), that a SIGKILL is
only about to go to a process that is not traced or whose detach was refused
(`KillIsClear`), and that `mIsRunning` says where the owner is
(`Claimed`).  A second one, `Owned`, says who answers for a process at each of the
owner's places: whom the engine holds (`Held`), for a child of its own who will
see to its end and what watches it while it runs (`Child`), and for somebody
else's process who still traces it and what becomes of a SIGSTOP on its way
(`Stranger`).  A step of the owner touches the process it is about and no other,
so `Owned` is argued for that one.  No call of the owner is excluded: the theorems
range over any sequence of launches, attaches, failures, terminates and pids
used again.

*ElfEngine.*  Each theorem needs its own strengthening: what the target can be
before its first pause (`Launching`), whose single-step flag may be up while the
tracer waits for its own step (`StepsAsked`), that the SIGSTOP on its way is
not the one the user is being told of (`PauseIsAhead`), that the thread being
stepped off a breakpoint is alive and not past its exit event while the process
is not ending, and that a breakpoint that could be taken out of the main thread's
memory can be put back there (`StepsOffAlive`), and that a flag is only on a thread that is
entered and alive (`Entered`).  One pause carries out a queue of requests of any
length, which the model writes as a recursive function over the queue,
`CarriedOut`.  What it yields is argued by induction over the queue:
`EveryNatural` is induction in a form the provers can use, about a set in place of
a predicate, proved from the well-foundedness of `<`; `LoopFollows` shows that there
is such a function, and `ProcessedSound` and `ProcessedTyped` what it preserves.

*ScriptYield.*  A request stands only while the event that made it is being handled
(`RequestIsMine`), and the flag is up only while some thread is inside its yield
(`ActiveIsUsed`).  The types need one thing more: a script that the debug thread
interrupted is never resumed at the interpreter's top by that thread.
`OnlyRealStops` is an action property: on top of both, as long as the user acts
only at a standstill, a target that runs or a breakpoint that is being handled
belongs to a script inside the wait of its own command (`OnItsRun`), so the
callback finds a script that is on and its request stands (`ScriptsRun`).  By
`RequestHolds` the script is then not at its test of `WAITID_RUN`, and the moment in
which the callback has closed it is one the script cannot see.

*TaskThread.*  `NothingLost` is inductive once an open thread is known not to have
been told to end (`ActiveUntilDestroyed`); the refinement of `Mailbox` rests on
the order of the newest posts run, latched and waiting (`InOrder`).

*Viewer.*  A thread is left behind only by a `Stop` that was not heard.  Where one
was spent on it, the next engine hears its own `Stop`, or it is the second; and
where it was the engine at hand that did not hear, no earlier thread is there to
set the flag (`Abandoned`).  The invariant says this of the states in which at
most one was lost, for any number of calls that may be.  `PanelsAreCurrent` needs no bound on what is
not heard: wherever the thread of the engine at hand waits in a stop, a signal
is still queued or the panels show that stop (`StopIsKnown`); earlier threads may
add signals, which only refresh the panels again.

## Model-checked only

* All liveness: `ProtocolProgress`, `StopEndsTheLoop`, `DeathIsNoticed`, `CycleEnds`,
  `CallsReturn`, `StopsAreAnswered`, `YieldIsAnswered`, `EventEnds`,
  `DestructorReturns`, `WindowComesBack` and the liveness half of `IsMailbox`.
  Fairness and ENABLED are beyond the prover.

Every safety property the passing runs check, invariant or action property, is
a theorem, and so are the safety halves of the two refinements
(`LoopKeepsTheProtocol` of `ProtocolSafety`, `KeepsTheMailbox` of `IsMailbox`).
Two need a hypothesis beyond the modules' assumptions, one the code does not do
without: a single thread for `NoBreakpointLost` and `NoStrayStep` of `StepOff`
(see *LostBreakpoint*).  Others carry their condition themselves:
`DestroyedOnlyAfterReturn` that at most one `Stop` went unheard, `OnlyRealStops`
that the user has not acted while the target ran or a breakpoint was handled, and
the properties about writes and system calls that may be refused say what a
refusal excuses.

## Seen while modelling

Behaviour of the code that the models show or that reading for them brought up,
apart from the four violations above.  No document promises otherwise unless
one is named.

*MachBug, loop and cycle.*
* Two callers may answer one stop: `Continue` overwrites a `Stop` just posted
  (`core/Debugger.Loop.cpp:897`), and the loop ends only after that stop's
  reply went out with the traps in.
* A SIGTRAP queued by an earlier stop may be taken for the step
  (`core/Debugger.Loop.cpp:535`): `cbStep` may then not be called for a `StepInto`.
* The step-off records are not cleared for a second run on one Debugger
  (`core/Debugger.Loop.cpp:161`).
* On arm64, an exception that arrives with the trap back in and the thread not
  moved is answered silently, again and again (`core/Debugger.Loop.cpp:521`).  A
  caller who sets the breakpoint anew during its cycle brings this about, and so
  does a fault inside the cycle followed by a step that is refused; the comment at
  line 806 calls the trap that comes again "visible and recoverable".
* When the step's flag cannot be cleared (`core/Debugger.Loop.cpp:530`) `mStepArmed`
  is false already: the error is reported, and the thread's next step is reported
  as an exception.
* A breakpoint deleted between its trap and the handling of it leaves an x86-64
  thread one byte into the instruction: the table no longer knows the address, so
  the program counter is not moved back.  A rewinding that fails does the same.
* What `Stop` lets go of is what was set by then: `vtSetBreakpoint` may put a trap
  into the target between that and the kill.
* The teardown does not look at whether its port was released
  (`core/Debugger.Loop.cpp:438`); the release before the reply does.
* While a stop is parked, threads that did not report it keep running.
* `Continue` after `Pause` may call `cbResumed` with the task still suspended.
* A reply refused because the target has died ends the loop without
  `cbExitProcessEvent`.

*MachBug, table.*
* Writing memory over an armed trap (`api/machbug_api.cpp:410`) removes it; the
  disarm then writes the old byte over the edit.
* When one thread refuses a hardware disarm, the entry is armed again on paper
  although the threads that accepted are cleared (`core/Breakpoints.cpp:209`); the
  same holds for arming, the other way round.
* `Init`, `Attach` and `Terminate` keep the table of the last target.

*MachBug, lifecycle.*
* `Terminate` after a natural end that has been reaped sends SIGKILL to a pid that
  may belong to somebody else by then.
* After `PT_DETACH` the target of an attach is no child of the debugger's, so the
  bounded wait cannot see it end.
* A `Start` that fails past `PT_ATTACHEXC` leaves the target traced: a second one
  fails with EBUSY, and only `Terminate` is left.
* When `Attach` gives up polling its target has not stopped, and the system may
  refuse `PT_DETACH` for it (EBUSY); nobody looks (`core/Debugger.cpp:207`), so the
  stranger stays traced and its SIGSTOP then stops it for good.  Where the detach
  is granted, a SIGSTOP that comes later leaves it stopped.  The same refusal
  before a kill (`process/Process.cpp:123`) makes the SIGKILL unanswerable.
* `Terminate` restores no traps; it is only safe because it kills.

*ElfBug.*  The engine is kept for Linux and not built on macOS
(`src/docs/specs/2026-09-07-macos-port-design.md:92`).
* Memory is read and written through the main thread's pid.  When another thread
  hits a breakpoint while the main thread runs, the breakpoint cannot be removed
  (`process/Breakpoint.cpp:58`): the single step executes the 0xCC again, the
  engine takes that for the step, and the thread goes on inside the instruction.
  Requests the user makes in that pause fail and are dropped in silence.
* `StepInto` while the target runs turns the next `Continue` into a step.
* A breakpoint deleted while another thread's hit of it is queued leaves that
  thread one byte past the instruction's start.
* A breakpoint deleted by a request served while the user is told of its hit is put
  back when the step off it is over.  The user is shown none from then on, so the
  toggle asks to set it, and that is refused as it is set
  (`api/elfbug_api.cpp:156`): the trap stays.
* Any other signal during the step off a breakpoint lets the target run on
  although the user has been told of a pause.
* The SIGSTOP a clone starts with can be taken for the pause asked for.
* A thread whose end is reaped before its clone event is entered for good.
* Requests are only carried out in pauses; a `Stop` inside one waits for the user's
  `Continue`.
* Early returns of the launch leave the pid set.

*Scripts.*
* A callback hangs when the user ends the script between two lines of it:
  `ScriptInterruptAwait` loads the state of a script that is on
  (`src/dbg/simplescript.cpp:881`), the script is aborted and runs lines 680 to 685,
  and then line 887 stores a request that nobody is left to answer; lines 890 to
  898 wait for it without end, in the debug loop's thread.  It takes a user who
  acts while the target runs.  A request stored before that reset is wiped out
  by it, and the wait ends by that.
* `ScriptResume` can wipe out an abort.
* A `run` of the user's while a callback's scriptcmd is at work makes that scriptcmd
  yield to itself; a script the user starts between the callback's look at the
  state and its scriptcmd holds both up until the user aborts.
* An abort that arrives with no script on fails the next `scriptcmd`.

*Task threads.*  The base class's destructor runs with the base class's virtual
functions: text that waits is printed once more.  Its counters race.

*Viewer.*
* Once a second `Stop` goes unheard an engine can be destroyed under its thread.
* The thread's lambda reads the member `mEngine`, not the engine it was started for.
* The message "Stopped on ..." keeps an earlier breakpoint's text.

## Not modelled

* The race between `Pause` and the loop in `refreshThreads` and `refreshModules`: two
  unsynchronised writers of one vector, after which every state is possible.
* In `StepOff`: hits of watchpoints, a SIGTRAP or SIGCONT the target sends itself,
  and registers a caller writes at a stop.  A caller who moves the program counter
  there to another breakpoint's address has the cycle step from that address with
  the first breakpoint's trap out.  Branches go to the next instruction only: an
  instruction that branches to itself looks like a leftover when stepped.
* In `ElfEngine`: single-shot and hardware breakpoints, breakpoint callbacks, exec
  and relaunching: the C API reaches none of them or the code marks them TODO.  A
  leader that has exited before its threads, and `exit_group` from another thread.
  The flag and the signal of `Pause` are one step.
* In `ScriptYield`: a scriptcmd the user types (`src/dbg/commands/cmd-script.cpp:35`),
  assertions of script tests, time limits, and breakpoint
  commands that resume the target, which the code marks TODO.
* Port rights, page protections, messages MIG does not know.
* Pure functions over bytes and layouts: the Mach-O reader, the diff of the module
  list, watchpoint geometry, register formatting, marshalling in the C API.
  They keep no state and the repository's unit tests enumerate them.
* Qt widgets and the separate Qt tools.
* The Windows debugger the fork inherited, apart from scripts and task threads:
  its engine, TitanEngine, is not in the repository, so what its callbacks may
  assume cannot be read here.

Most of the repository's lines are headers of Windows interfaces, vendored
libraries, widgets and parsers, so the lines the models stand for are a small
share of the whole; of the code written for several threads in this fork they
are most.

## What is left

* `StepOff` over the table of `Breakpoints` itself, in place of its own sets.
* Under which condition what `IsBreakpointEffective` tells the user of a queued
  request is what carrying the queue out makes of it: not in the case above.
* The thread and module events at each stop, against what happened in between.

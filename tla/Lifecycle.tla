----------------------------- MODULE Lifecycle -----------------------------
(***************************************************************************)
(* How a MachBug Debugger gets hold of a target and lets go of it:         *)
(* Init(), Attach(), Start() and Terminate(), with DetachAndKill() and     *)
(* WaitForRealExit() under them, against processes that are born, stop and *)
(* die when they please and whose pids are used again.                     *)
(*                                                                         *)
(* One thread, the owner, makes these calls one after the other, as        *)
(* Debugger.h asks; other threads only post Stop().  What happens inside   *)
(* the loop is ExceptionLoop's subject, and the breakpoint table is        *)
(* Breakpoints': here the loop serves its target until it ends.            *)
(***************************************************************************)
EXTENDS Integers

CONSTANTS
    Pid,         \* the pids the system hands out, again and again
    None,        \* no target
    MaxTargets,  \* bound on the processes ever born
    Attempts     \* how often a bounded wait polls

ASSUME LifecycleAssumption ==
    /\ None \notin [pid: Pid, gen: 1 .. MaxTargets]
    /\ MaxTargets \in Nat /\ Attempts \in Nat \ {0}

VARIABLES
    proc,      \* what the kernel knows of each pid
    born,      \* how many processes there have been
    process,   \* mProcess: a pid, and the process its task port names
    viaPtrace, \* mAttachedViaPtrace
    running,   \* mIsRunning
    stop,      \* mStopRequested
    pc,        \* where the owner is
    next,      \* where DetachAndKill() returns to
    subject,   \* the pid the call is about
    polls      \* polls made of the wait it is in

debugger == <<process, viaPtrace, running, stop>>
owner == <<pc, next, subject, polls>>
kernel == <<proc, born>>
vars == <<kernel, debugger, owner>>

\* st: suspended is POSIX_SPAWN_START_SUSPENDED, stopped is a SIGSTOP's.
\* sigstop: the stop PT_ATTACHEXC sends, which takes effect in its own time.
\* stuck: killed while traced with nobody to answer; it will never die.
\* late: a bounded wait for it gave up.  kept: a PT_DETACH of it was refused,
\* which nobody asks about (history).
Process == [st: {"none", "suspended", "stopped", "running", "zombie"},
            by: {"engine", "other"}, traced: BOOLEAN, ports: BOOLEAN,
            sigstop: BOOLEAN, killed: BOOLEAN, stuck: BOOLEAN, late: BOOLEAN,
            kept: BOOLEAN, gen: 0 .. MaxTargets]

Returns == {"idle", "spawn", "trace", "end"}
InStart == {"ptrace", "port", "install", "cont", "loop", "wind", "restore",
            "release", "end"}
InKill == {"detach", "kill", "reap"}
Place == Returns \cup InStart \cup InKill \cup {"task", "poll", "atask"}

TypeOK ==
    /\ proc \in [Pid -> Process] /\ born \in 0 .. MaxTargets
    /\ process \in {None} \cup [pid: Pid, gen: 1 .. MaxTargets]
    /\ viaPtrace \in BOOLEAN /\ running \in BOOLEAN /\ stop \in BOOLEAN
    /\ pc \in Place /\ next \in Returns
    /\ subject \in Pid /\ polls \in 0 .. Attempts

Nobody == [st |-> "none", by |-> "other", traced |-> FALSE, ports |-> FALSE,
           sigstop |-> FALSE, killed |-> FALSE, stuck |-> FALSE,
           late |-> FALSE, kept |-> FALSE, gen |-> 0]

Init ==
    /\ proc = [p \in Pid |-> Nobody] /\ born = 0
    /\ process = None /\ viaPtrace = FALSE /\ running = FALSE /\ stop = FALSE
    /\ pc = "idle" /\ next = "idle" /\ subject \in Pid /\ polls = 0

Alive(p) == proc[p].st \in {"suspended", "stopped", "running"}
Gone(p) == proc[p].st = "none"
\* The task port names one process for good, whoever has the pid now.
TaskLives == process # None /\ Alive(process.pid)
                            /\ proc[process.pid].gen = process.gen

Return(place) == pc' = place /\ next' = "idle" /\ polls' = 0
                               /\ UNCHANGED subject
Stays(record) == [proc EXCEPT ![subject] = record]

\* The for loops of Attach() and WaitForRealExit().
PollsLeft == polls < Attempts

-----------------------------------------------------------------------------
(***************************************************************************)
(* Letting go: Process::DetachAndKill(subject), which returns to next.     *)
(***************************************************************************)
\* Mutant: the SIGKILL goes out without the PT_DETACH.
DetachForgotten ==
    /\ pc = "detach" /\ pc' = "kill"
    /\ UNCHANGED <<kernel, debugger, next, subject, polls>>

\* PT_DETACH with addr 1 resumes the process.  The system may refuse it for one
\* that has not stopped, and does for one that is dead or not traced; nobody
\* looks at the result.  A SIGSTOP still on its way is not called back.
Freed(r) == [r EXCEPT !.traced = FALSE, !.st = "running"]

Detached(r) ==
    CASE ~r.traced \/ r.st = "zombie" -> {r}
      [] r.traced /\ r.st = "running" -> {Freed(r), [r EXCEPT !.kept = TRUE]}
      [] r.traced /\ r.st \notin {"running", "zombie"} -> {Freed(r)}

Detach ==
    /\ pc = "detach"
    /\ \E r \in Detached(proc[subject]) : proc' = Stays(r)
    /\ pc' = "kill" /\ UNCHANGED <<born, debugger, next, subject, polls>>

\* A SIGKILL goes through the exception port of whoever is traced.
Killed(r) == [r EXCEPT !.killed = TRUE, !.stuck = r.stuck \/ r.traced]

Kill ==
    /\ pc = "kill"
    /\ IF Gone(subject)
       THEN Return(next) /\ UNCHANGED proc
       ELSE /\ proc' = Stays(IF Alive(subject) THEN Killed(proc[subject])
                                               ELSE proc[subject])
            /\ pc' = "reap" /\ polls' = 0 /\ UNCHANGED <<next, subject>>
    /\ UNCHANGED <<born, debugger>>

\* waitpid() answers only for a child or a tracee.
Waitable(p) == ~Gone(p) /\ (proc[p].by = "engine" \/ proc[p].traced)
Reaped == Stays(Nobody)

\* Mutant: the wait polls until the process is gone.
ReapForEver ==
    /\ pc = "reap"
    /\ \/ ~Waitable(subject) /\ Return(next) /\ UNCHANGED proc
       \/ /\ Waitable(subject) /\ proc[subject].st = "zombie"
          /\ proc' = Reaped /\ Return(next)
       \/ Waitable(subject) /\ proc[subject].st # "zombie" /\ UNCHANGED <<proc, owner>>
    /\ UNCHANGED <<born, debugger>>

\* WaitForRealExit: ECHILD and an exit end it, anything else is polled again.
Reap ==
    /\ pc = "reap"
    /\ \/ /\ ~Waitable(subject)
          /\ Return(next) /\ UNCHANGED proc
       \/ /\ Waitable(subject) /\ proc[subject].st = "zombie"
          /\ proc' = Reaped /\ Return(next)
       \/ /\ Waitable(subject) /\ proc[subject].st # "zombie"
          /\ IF PollsLeft
             THEN polls' = polls + 1 /\ UNCHANGED <<proc, pc, next, subject>>
             ELSE /\ proc' = Stays([proc[subject] EXCEPT !.late = TRUE])
                  /\ Return(next)
    /\ UNCHANGED <<born, debugger>>

\* Terminate(), on the way to place.
TerminateThen(place) ==
    IF process = None
    THEN /\ pc' = place
         /\ UNCHANGED <<next, subject, polls, process, viaPtrace>>
    ELSE /\ subject' = process.pid
         /\ process' = None /\ viaPtrace' = FALSE
         /\ pc' = "detach" /\ next' = place /\ UNCHANGED polls

Terminate ==
    /\ pc = "idle" /\ process # None
    /\ TerminateThen("idle")
    /\ UNCHANGED <<kernel, running, stop>>

-----------------------------------------------------------------------------
(***************************************************************************)
(* Init() and Attach().                                                    *)
(***************************************************************************)
CallInit ==
    /\ pc = "idle" /\ TerminateThen("spawn")
    /\ UNCHANGED <<kernel, running, stop>>

CallAttach ==
    /\ pc = "idle" /\ TerminateThen("trace")
    /\ UNCHANGED <<kernel, running, stop>>

\* A bad path, or posix_spawn failing.
SpawnFails ==
    /\ pc = "spawn" /\ viaPtrace' = FALSE
    /\ Return("idle") /\ UNCHANGED <<kernel, process, running, stop>>

Newborn(st, by) == [Nobody EXCEPT !.st = st, !.by = by, !.gen = born + 1]

SpawnSuspended ==
    /\ pc = "spawn" /\ viaPtrace' = FALSE
    /\ born < MaxTargets /\ born' = born + 1
    /\ \E p \in Pid :
           /\ Gone(p)
           /\ proc' = [proc EXCEPT ![p] = Newborn("suspended", "engine")]
           /\ subject' = p
    /\ pc' = "task" /\ UNCHANGED <<next, polls, process, running, stop>>

TakesTask ==
    process' = [pid |-> subject, gen |-> proc[subject].gen]

\* Mutant: task_for_pid denied: the suspended child is simply forgotten.
TaskForChildForgetting ==
    /\ pc = "task"
    /\ \/ Alive(subject) /\ TakesTask
       \/ UNCHANGED process
    /\ Return("idle") /\ UNCHANGED <<kernel, viaPtrace, running, stop>>

\* task_for_pid on the launched child; denied, the child is killed.
TaskForChild ==
    /\ pc = "task"
    /\ \/ Alive(subject) /\ TakesTask /\ Return("idle")
       \/ /\ pc' = "detach" /\ next' = "idle"
          /\ UNCHANGED <<subject, polls, process>>
    /\ UNCHANGED <<kernel, viaPtrace, running, stop>>

\* A pid that does not exist, is traced already, or may not be traced.
TraceRefused ==
    /\ pc = "trace" /\ viaPtrace' = FALSE
    /\ Return("idle") /\ UNCHANGED <<kernel, process, running, stop>>

TraceGiven ==
    /\ pc = "trace" /\ viaPtrace' = FALSE
    /\ \E p \in Pid :
           /\ Alive(p) /\ ~proc[p].traced
           /\ proc' = [proc EXCEPT ![p].traced = TRUE, ![p].sigstop = TRUE]
           /\ subject' = p
    /\ pc' = "poll" /\ polls' = 0
    /\ UNCHANGED <<born, next, process, running, stop>>

\* waitpid() for the stop; an exit, or the bound, makes Attach() fail.
Poll ==
    /\ pc = "poll"
    /\ \/ proc[subject].st = "stopped" /\ Return("atask") /\ UNCHANGED proc
       \/ proc[subject].st = "zombie" /\ proc' = Reaped /\ Return("idle")
       \/ /\ proc[subject].st \in {"running", "suspended"}
          /\ IF PollsLeft
             THEN polls' = polls + 1 /\ UNCHANGED <<proc, pc, next, subject>>
             ELSE /\ \E r \in Detached(proc[subject]) :
                         proc' = Stays([r EXCEPT !.late = TRUE])
                  /\ Return("idle")
    /\ UNCHANGED <<born, debugger>>

\* Mutant: task_for_pid denied: Attach() returns without detaching.
TaskForGivenKeeping ==
    /\ pc = "atask"
    /\ \/ Alive(subject) /\ TakesTask /\ viaPtrace' = TRUE
       \/ UNCHANGED <<process, viaPtrace>>
    /\ Return("idle") /\ UNCHANGED <<kernel, running, stop>>

\* Denied, the given process is detached and goes on.
TaskForGiven ==
    /\ pc = "atask"
    /\ \/ /\ Alive(subject) /\ TakesTask /\ viaPtrace' = TRUE
          /\ UNCHANGED proc
       \/ /\ \E r \in Detached(proc[subject]) : proc' = Stays(r)
          /\ UNCHANGED <<process, viaPtrace>>
    /\ Return("idle") /\ UNCHANGED <<born, running, stop>>

-----------------------------------------------------------------------------
(***************************************************************************)
(* Start(): every failure gives mIsRunning back.                           *)
(***************************************************************************)
StartClaims ==
    /\ pc = "idle" /\ process # None
    /\ running' = TRUE /\ stop' = FALSE
    /\ subject' = process.pid /\ pc' = "ptrace"
    /\ UNCHANGED <<kernel, process, viaPtrace, next, polls>>

\* Mutant: a failed Start() forgets to give mIsRunning back.
StartFailsClaimed ==
    /\ pc \in {"ptrace", "port", "install", "cont"}
    /\ Return("idle") /\ UNCHANGED <<kernel, debugger>>

StartFails ==
    /\ pc \in {"ptrace", "port", "install", "cont"}
    /\ running' = FALSE /\ Return("idle")
    /\ UNCHANGED <<kernel, process, viaPtrace, stop>>

\* Skipped for an attached target; EBUSY for one traced already.
StartTraces ==
    /\ pc = "ptrace"
    /\ IF viaPtrace THEN UNCHANGED proc
       ELSE /\ Alive(subject) /\ ~proc[subject].traced
            /\ proc' = Stays([proc[subject] EXCEPT !.traced = TRUE])
    /\ Return("port") /\ UNCHANGED <<born, debugger>>

\* SIGCONT undoes either kind of stop, and a SIGSTOP on its way.
Continued(r) == [r EXCEPT !.st = "running", !.sigstop = FALSE]

\* Mutant: the target is resumed before the exception ports are in.
StartAllocatesResuming ==
    /\ pc = "port" /\ ~Gone(subject)
    /\ proc' = Stays(IF Alive(subject) THEN Continued(proc[subject])
                                       ELSE proc[subject])
    /\ Return("install") /\ UNCHANGED <<born, debugger>>

StartAllocates ==
    /\ pc = "port" /\ Return("install") /\ UNCHANGED <<kernel, debugger>>

StartInstalls ==
    /\ pc = "install" /\ TaskLives
    /\ proc' = Stays([proc[subject] EXCEPT !.ports = TRUE])
    /\ Return("cont") /\ UNCHANGED <<born, debugger>>

StartContinues ==
    /\ pc = "cont" /\ ~Gone(subject)
    /\ proc' = Stays(IF Alive(subject) THEN Continued(proc[subject])
                                       ELSE proc[subject])
    /\ Return("loop") /\ UNCHANGED <<born, debugger>>

-----------------------------------------------------------------------------
(***************************************************************************)
(* The loop's ends, and its teardown.                                      *)
(***************************************************************************)
LoopSeesExit ==
    /\ pc = "loop" /\ proc[subject].st = "zombie"
    /\ proc' = Reaped /\ Return("wind") /\ UNCHANGED <<born, debugger>>

LoopSeesStop ==
    /\ pc = "loop" /\ stop
    /\ Return("wind") /\ UNCHANGED <<kernel, debugger>>

LoopFails ==
    /\ pc = "loop"
    /\ Return("wind") /\ UNCHANGED <<kernel, debugger>>

\* Only a requested stop touches the target again.
Wind ==
    /\ pc = "wind"
    /\ Return(IF stop THEN "restore" ELSE "end")
    /\ UNCHANGED <<kernel, debugger>>

\* The traps are taken out; nothing is asked of whether the writes are refused.
Restore ==
    /\ pc = "restore" /\ Return("release") /\ UNCHANGED <<kernel, debugger>>

Release ==
    /\ pc = "release"
    /\ proc' = IF TaskLives THEN [proc EXCEPT ![process.pid].ports = FALSE]
                            ELSE proc
    /\ pc' = "detach" /\ next' = "end"
    /\ UNCHANGED <<born, debugger, subject, polls>>

End ==
    /\ pc = "end"
    /\ running' = FALSE /\ Return("idle")
    /\ UNCHANGED <<kernel, process, viaPtrace, stop>>

OwnerStep ==
    \/ Detach \/ Kill \/ Reap \/ SpawnFails \/ SpawnSuspended \/ TaskForChild
    \/ TraceRefused \/ TraceGiven \/ Poll \/ TaskForGiven
    \/ StartFails \/ StartTraces \/ StartAllocates \/ StartInstalls
    \/ StartContinues \/ LoopSeesExit \/ LoopSeesStop
    \/ Wind \/ Restore \/ Release \/ End

Calls == Terminate \/ CallInit \/ CallAttach \/ StartClaims

-----------------------------------------------------------------------------
(***************************************************************************)
(* Other threads, while the target is in the loop.                         *)
(***************************************************************************)
Stop == /\ pc \in InStart /\ running /\ ~stop /\ stop' = TRUE
        /\ UNCHANGED <<kernel, process, viaPtrace, running, owner>>

-----------------------------------------------------------------------------
(***************************************************************************)
(* The system: processes the engine did not start, stops that take effect, *)
(* and deaths.  A pid is free again once it has been reaped.               *)
(***************************************************************************)
Born(p) ==
    /\ Gone(p) /\ born < MaxTargets /\ born' = born + 1
    /\ proc' = [proc EXCEPT ![p] = Newborn("running", "other")]
    /\ UNCHANGED <<debugger, owner>>

TakeStop(p) ==
    /\ proc[p].sigstop /\ proc[p].st = "running"
    /\ proc' = [proc EXCEPT ![p].sigstop = FALSE, ![p].st = "stopped"]
    /\ UNCHANGED <<born, debugger, owner>>

Zombie(r) == [r EXCEPT !.st = "zombie", !.ports = FALSE, !.sigstop = FALSE]

\* On its own if it runs, or of a SIGKILL, ours or another's.
Die(p) ==
    /\ Alive(p) /\ ~proc[p].stuck
    /\ proc[p].st = "running" \/ proc[p].killed \/ ~proc[p].traced
    /\ proc' = [proc EXCEPT ![p] = IF Waitable(p) THEN Zombie(@) ELSE Nobody]
    /\ UNCHANGED <<born, debugger, owner>>

System == \E p \in Pid : Born(p) \/ TakeStop(p) \/ Die(p)

Next == \/ OwnerStep \/ LoopFails \/ Calls
        \/ Stop \/ System

\* The owner's thread runs.  Nothing is asked of the system: a process may
\* ignore its SIGKILL for ever.
Spec == Init /\ [][Next]_vars /\ WF_vars(OwnerStep)

-----------------------------------------------------------------------------
(***************************************************************************)
(* What is promised.                                                       *)
(***************************************************************************)
\* A SIGKILL never goes to a process that is traced, unless the system has
\* refused to let the engine detach from it: with nobody to answer the exception
\* the signal turns into, the process could not die at all.
KillsAreAnswerable ==
    [][pc = "kill" /\ proc'[subject].stuck => proc'[subject].kept]_vars

\* mIsRunning is set exactly while Start() is at work, whichever of its five
\* failures ends it: left set, no Start() of this Debugger would work again.
ClaimIsReleased ==
    running <=> (pc \in InStart \/ (pc \in InKill /\ next = "end"))

Holds(p) == process # None /\ process.pid = p

\* Once the owner is idle, a child the engine launched is its target, or has
\* died and been reaped, or is one whose death outlasted the bounded wait;
\* and that one has been killed.
NoStrandedChild ==
    pc = "idle" => \A p \in Pid :
        proc[p].by = "engine" /\ ~Gone(p) /\ ~Holds(p)
            => proc[p].killed /\ proc[p].late

\* What the engine launched runs only with its exception ports installed;
\* it is on its own only while it is let go of to be killed.
NothingRunsUnwatched ==
    \A p \in Pid :
        proc[p].by = "engine" /\ proc[p].st = "running" /\ ~proc[p].killed
            => proc[p].ports \/ (subject = p /\ pc \in {"detach", "kill"})

\* A process of somebody else's that Attach() failed to take, or the engine
\* no longer holds, is traced only where the system refused the PT_DETACH, and
\* otherwise stopped only if its stop came after Attach() had stopped waiting
\* for it.
OthersLetGo ==
    pc = "idle" => \A p \in Pid :
        proc[p].by = "other" /\ Alive(p) /\ ~Holds(p)
            => /\ proc[p].traced => proc[p].kept
               /\ proc[p].st = "stopped" => proc[p].late \/ proc[p].traced

\* Init(), Attach(), Terminate() and Start() outside its loop come to an end:
\* every wait in them is bounded.
CallsReturn == pc \notin {"idle", "loop"} ~> pc \in {"idle", "loop"}

=============================================================================

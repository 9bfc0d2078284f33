---------------------------- MODULE Breakpoints ----------------------------
(***************************************************************************)
(* The breakpoint table of the MachBug engine (core/Breakpoints): what the *)
(* user asked for, what was written into the target to achieve it, and     *)
(* enough to undo it.  A software breakpoint is a trap in the target's     *)
(* memory; a hardware one is a debug register of every thread the engine   *)
(* knows.  The table has a mutex of its own, so each operation is one      *)
(* step, except the two sweeps (RestoreAll, ArmAll): they hold the mutex   *)
(* across several writes, between which the target still runs.             *)
(***************************************************************************)
EXTENDS Integers, FiniteSets

CONSTANTS
    Address,    \* where breakpoints may be set
    Thread,     \* identities of the target's threads
    ExecSlots,  \* arch::SlotCounts(...).exec
    WatchSlots, \* arch::SlotCounts(...).watch
    Shared      \* arch::SlotCounts(...).shared: one register pool for both

ASSUME SlotsAssumption ==
    /\ ExecSlots \in Nat
    /\ WatchSlots \in Nat
    /\ Shared \in BOOLEAN
    /\ Shared => ExecSlots = WatchSlots

VARIABLES
    table,     \* mEntries, by address: addresses are unique in it
    mem,       \* what the target's memory holds at each address
    regs,      \* the debug registers of each live thread
    live,      \* the threads the target really has
    ports,     \* the threads mThreadSource() names: those of the last refresh
    unapplied, \* threads a refresh saw appear, before ApplyToThread reaches them
    refused,   \* the last write to all threads was reported as a failure
    sweep      \* the sweep holding mMutex, the entries it has left, its result

vars == <<table, mem, regs, live, ports, unapplied, refused, sweep>>

\* HwRead and HwWrite differ only in the access bits of their register.
HwKind == {"HwExec", "HwWatch"}
Kind   == {"Software"} \cup HwKind

\* The target's own bytes, or the trap.
Byte    == {"own", "trap"}
NoBytes == "none"
NoSlot  == -1

Register == {<<"exec", n>> : n \in 0 .. ExecSlots - 1}
                \cup {<<"watch", n>> : n \in 0 .. WatchSlots - 1}
Empty    == <<>>
Content  == (Address \X HwKind) \cup {Empty}

Entry == [kind : Kind, enabled : BOOLEAN, armed : BOOLEAN,
          slot : Nat \cup {NoSlot}, original : Byte \cup {NoBytes}]
NoEntry == [kind |-> "none"]
NewEntry(kind, slot) == [kind |-> kind, enabled |-> TRUE, armed |-> FALSE,
                         slot |-> slot, original |-> NoBytes]

InTable(a)    == table[a] # NoEntry
IsHardware(e) == e # NoEntry /\ e.kind \in HwKind
IsArmed(e)    == e # NoEntry /\ e.armed

\* Where a hardware kind competes for registers: on a shared pool any kind
\* takes a register from any other, so all of them draw from one bank.
Bank(kind)      == IF kind = "HwWatch" /\ ~Shared THEN "watch" ELSE "exec"
Available(kind) == IF kind = "HwWatch" THEN WatchSlots ELSE ExecSlots
RegisterOf(e)   == <<Bank(e.kind), e.slot>>

\* Mutant: only armed entries hold a slot.
FreeOfArmed(kind) ==
    {n \in 0 .. Available(kind) - 1 :
        \A b \in Address : IsHardware(table[b]) /\ IsArmed(table[b])
                              => RegisterOf(table[b]) # <<Bank(kind), n>>}

\* The slots of the right pool that no entry holds, armed or not.
FreeSlots(kind) ==
    {n \in 0 .. Available(kind) - 1 :
        \A b \in Address : IsHardware(table[b]) =>
                               RegisterOf(table[b]) # <<Bank(kind), n>>}

LowestFree(kind) == {n \in FreeSlots(kind) : \A m \in FreeSlots(kind) : n <= m}

\* The slot table as the hardware wants it, built from the armed entries.
HardwareSlots(tbl) ==
    [r \in Register |->
        LET owners == {a \in Address : /\ IsHardware(tbl[a])
                                       /\ tbl[a].armed
                                       /\ RegisterOf(tbl[a]) = r}
        IN  IF owners = {} THEN Empty
            ELSE LET a == CHOOSE a \in owners : TRUE IN <<a, tbl[a].kind>>]

NoneLoaded == [r \in Register |-> Empty]

TypeOK ==
    /\ table \in [Address -> Entry \cup {NoEntry}]
    /\ mem \in [Address -> Byte]
    /\ regs \in [Thread -> [Register -> Content]]
    /\ live \subseteq Thread
    /\ ports \subseteq Thread
    /\ unapplied \subseteq ports
    /\ refused \in BOOLEAN
    /\ sweep \in [op : {"none", "RestoreAll", "ArmAll"},
                  todo : SUBSET Address, ok : BOOLEAN]

NoSweep == [op |-> "none", todo |-> {}, ok |-> TRUE]

\* The target at its first stop: the engine has taken its thread baseline.
Init ==
    /\ table = [a \in Address |-> NoEntry]
    /\ mem = [a \in Address |-> "own"]
    /\ regs = [t \in Thread |-> NoneLoaded]
    /\ live \in (SUBSET Thread) \ {{}}
    /\ ports = live
    /\ unapplied = {}
    /\ refused = FALSE
    /\ sweep = NoSweep

MutexFree == sweep.op = "none"

(***************************************************************************)
(* armLocked and disarmLocked.  An outcome says whether the call returned  *)
(* true and what it leaves in the table, the memory and the registers.     *)
(* Writing a thread fails exactly when the thread is gone; all the threads *)
(* of the list are attempted whatever the others answered.                 *)
(***************************************************************************)
ApplySucceeds  == ports # {} /\ ports \subseteq live
WriteThreads(tbl) ==
    [t \in Thread |-> IF t \in ports \cap live THEN HardwareSlots(tbl)
                                               ELSE regs[t]]

Outcome(ok, tbl, m, r, ref) ==
    [ok |-> ok, table |-> tbl, mem |-> m, regs |-> r, refused |-> ref]
Untouched(ok, tbl) == Outcome(ok, tbl, mem, regs, refused)

\* Mutant: the entry's flag is not put back.
ApplyHardwareKeepingFlag(new, old) ==
    {Outcome(ApplySucceeds, new, mem, WriteThreads(new), ~ApplySucceeds)}

\* Try the table `new`; the entry's own flag is put back if a thread refused.
ApplyHardware(new, old) ==
    {Outcome(ApplySucceeds, IF ApplySucceeds THEN new ELSE old,
             mem, WriteThreads(new), ~ApplySucceeds)}

\* Mutant: an entry that is armed already is armed again.
ArmTwice(tbl, a) ==
    IF IsHardware(tbl[a])
    THEN ApplyHardware([tbl EXCEPT ![a].armed = TRUE], tbl)
    ELSE {Untouched(FALSE, tbl),
          Outcome(TRUE,
                  [tbl EXCEPT ![a].armed = TRUE, ![a].original = mem[a]],
                  [mem EXCEPT ![a] = "trap"], regs, refused)}

ArmOutcomes(tbl, a) ==
    IF tbl[a].armed THEN {Untouched(TRUE, tbl)}
    ELSE IF IsHardware(tbl[a])
         THEN ApplyHardware([tbl EXCEPT ![a].armed = TRUE], tbl)
         ELSE {Untouched(FALSE, tbl),
               Outcome(TRUE,
                       [tbl EXCEPT ![a].armed = TRUE, ![a].original = mem[a]],
                       [mem EXCEPT ![a] = "trap"], regs, refused)}

DisarmOutcomes(tbl, a) ==
    IF ~tbl[a].armed THEN {Untouched(TRUE, tbl)}
    ELSE IF IsHardware(tbl[a])
         THEN ApplyHardware([tbl EXCEPT ![a].armed = FALSE], tbl)
         ELSE IF tbl[a].original = NoBytes THEN {Untouched(FALSE, tbl)}
         ELSE {Untouched(FALSE, tbl),
               Outcome(TRUE,
                       [tbl EXCEPT ![a].armed = FALSE, ![a].original = NoBytes],
                       [mem EXCEPT ![a] = tbl[a].original], regs, refused)}

Becomes(o, tbl) ==
    /\ table' = tbl
    /\ mem' = o.mem
    /\ regs' = o.regs
    /\ refused' = o.refused

TargetUnchanged == UNCHANGED <<live, ports, unapplied>>

-----------------------------------------------------------------------------
\* Add: in the table before it is armed, taken back out if arming fails.
\* (Refusals that touch nothing -- a duplicate, a bad alignment or size, no
\* free slot -- change no state.)
Add(a, kind) ==
    /\ MutexFree
    /\ ~InTable(a)
    /\ \E slot \in IF kind \in HwKind THEN LowestFree(kind) ELSE {NoSlot} :
       \E o \in ArmOutcomes([table EXCEPT ![a] = NewEntry(kind, slot)], a) :
           Becomes(o, IF o.ok THEN o.table ELSE table)
    /\ TargetUnchanged /\ UNCHANGED sweep

\* Remove: disarms, and forgets only what was really disarmed.
Remove(a) ==
    /\ MutexFree
    /\ InTable(a)
    /\ \E o \in DisarmOutcomes(table, a) :
           Becomes(o, IF o.ok THEN [o.table EXCEPT ![a] = NoEntry] ELSE o.table)
    /\ TargetUnchanged /\ UNCHANGED sweep

\* SetEnabled: the flag moves only if the target agreed.
SetEnabled(a, enabled) ==
    /\ MutexFree
    /\ InTable(a)
    /\ \E o \in IF enabled THEN ArmOutcomes(table, a)
                           ELSE DisarmOutcomes(table, a) :
           Becomes(o, IF o.ok THEN [o.table EXCEPT ![a].enabled = enabled]
                              ELSE o.table)
    /\ TargetUnchanged /\ UNCHANGED sweep

\* Disarm and Arm: the two halves of the resume cycle, which leave alone
\* whether the user wants the breakpoint.
Disarm(a) ==
    /\ MutexFree
    /\ InTable(a)
    /\ \E o \in DisarmOutcomes(table, a) : Becomes(o, o.table)
    /\ TargetUnchanged /\ UNCHANGED sweep

Arm(a) ==
    /\ MutexFree
    /\ InTable(a)
    /\ table[a].enabled
    /\ \E o \in ArmOutcomes(table, a) : Becomes(o, o.table)
    /\ TargetUnchanged /\ UNCHANGED sweep

\* RestoreAll and ArmAll: the mutex is taken, every entry is attempted even
\* after one fails, and the result is the conjunction of theirs.
SweepBegin(op) ==
    /\ MutexFree
    /\ sweep' = [op |-> op, todo |-> {a \in Address : InTable(a)}, ok |-> TRUE]
    /\ UNCHANGED <<table, mem, regs, refused>> /\ TargetUnchanged

\* Mutant: the sweep's result is its last entry's.
RestoreEntryLastResult(a) ==
    /\ sweep.op = "RestoreAll"
    /\ a \in sweep.todo
    /\ \E o \in DisarmOutcomes(table, a) :
           /\ Becomes(o, o.table)
           /\ sweep' = [sweep EXCEPT !.todo = @ \ {a}, !.ok = o.ok]
    /\ TargetUnchanged

RestoreEntry(a) ==
    /\ sweep.op = "RestoreAll"
    /\ a \in sweep.todo
    /\ \E o \in DisarmOutcomes(table, a) :
           /\ Becomes(o, o.table)
           /\ sweep' = [sweep EXCEPT !.todo = @ \ {a}, !.ok = @ /\ o.ok]
    /\ TargetUnchanged

ArmEntry(a) ==
    /\ sweep.op = "ArmAll"
    /\ a \in sweep.todo
    /\ \E o \in IF table[a].enabled THEN ArmOutcomes(table, a)
                                    ELSE {Untouched(TRUE, table)} :
           /\ Becomes(o, o.table)
           /\ sweep' = [sweep EXCEPT !.todo = @ \ {a}, !.ok = @ /\ o.ok]
    /\ TargetUnchanged

SweepEnd ==
    /\ ~MutexFree
    /\ sweep.todo = {}
    /\ sweep' = NoSweep
    /\ UNCHANGED <<table, mem, regs, refused>> /\ TargetUnchanged

-----------------------------------------------------------------------------
\* Mutant: the threads that appeared are not told of.
RefreshForgettingNew ==
    /\ unapplied = {}
    /\ ports' = live
    /\ UNCHANGED <<table, mem, regs, live, unapplied, refused, sweep>>

\* refreshThreads: the list is replaced by the target's threads, and those
\* that appeared get the table's registers one by one.  The list itself is
\* not under the table's mutex.
RefreshThreads ==
    /\ unapplied = {}
    /\ ports' = live
    /\ unapplied' = live \ ports
    /\ UNCHANGED <<table, mem, regs, live, refused, sweep>>

\* ApplyToThread: a table with no hardware breakpoint leaves the thread alone.
ApplyToThread(t) ==
    /\ MutexFree
    /\ t \in unapplied
    /\ unapplied' = unapplied \ {t}
    /\ regs' = IF t \in live /\ \E a \in Address : IsHardware(table[a])
               THEN [regs EXCEPT ![t] = HardwareSlots(table)] ELSE regs
    /\ UNCHANGED <<table, mem, live, ports, refused, sweep>>

\* The target goes on creating and ending threads: only the thread that
\* raised an exception is held by a stop.  A new thread has empty registers.
\* A system thread id is never used twice, so one of `Thread` that the engine
\* still lists is not born again.
ThreadStart(t) ==
    /\ t \in Thread \ (live \cup ports)
    /\ live' = live \cup {t}
    /\ UNCHANGED <<table, mem, regs, ports, unapplied, refused, sweep>>

ThreadExit(t) ==
    /\ t \in live
    /\ live' = live \ {t}
    /\ regs' = [regs EXCEPT ![t] = NoneLoaded]
    /\ UNCHANGED <<table, mem, ports, unapplied, refused, sweep>>

Operation ==
    \/ \E a \in Address, kind \in Kind : Add(a, kind)
    \/ \E a \in Address : Remove(a) \/ Disarm(a) \/ Arm(a)
    \/ \E a \in Address, enabled \in BOOLEAN : SetEnabled(a, enabled)
    \/ \E op \in {"RestoreAll", "ArmAll"} : SweepBegin(op)
    \/ \E a \in Address : RestoreEntry(a) \/ ArmEntry(a)
    \/ SweepEnd

Threading ==
    \/ RefreshThreads
    \/ \E t \in Thread : ApplyToThread(t) \/ ThreadStart(t) \/ ThreadExit(t)

Next == Operation \/ Threading

Spec == Init /\ [][Next]_vars

-----------------------------------------------------------------------------
(***************************************************************************)
(* What the table promises.                                                *)
(***************************************************************************)
\* The memory carries a trap exactly where the table has an armed software
\* breakpoint, and what that entry saved are the target's own bytes: no second
\* arm ever saves a trap as "the original", and nothing leaves one behind
\* (Add, armLocked, disarmLocked).
TrapsAccounted ==
    \A a \in Address :
        IF IsArmed(table[a]) /\ table[a].kind = "Software"
        THEN mem[a] = "trap" /\ table[a].original = "own"
        ELSE mem[a] = "own"

\* No two hardware entries are given the same register, whether or not they
\* are armed and whichever pool their kinds draw from: a slot is kept across a
\* disarm, and no later Add takes it (allocateSlotLocked).
SlotsDisjoint ==
    \A a, b \in Address :
        /\ a # b
        /\ IsHardware(table[a])
        /\ IsHardware(table[b])
        => RegisterOf(table[a]) # RegisterOf(table[b])

\* A breakpoint shown as disabled is not armed: neither the resume cycle nor
\* ArmAll resurrects what the user switched off (SetEnabled, Arm, ArmAll).
DisabledStaysOut ==
    \A a \in Address :
        InTable(a) /\ ~table[a].enabled => ~table[a].armed

\* As long as no write was refused, every live thread the engine has caught up
\* with carries exactly the armed hardware breakpoints, in their registers --
\* those born after a breakpoint was set included (applyHardwareLocked,
\* ApplyToThread).
ThreadsCarryTheTable ==
    ~refused => \A t \in (ports \cap live) \ unapplied :
                    regs[t] = HardwareSlots(table)

\* A sweep that is reported as successful left nothing out: RestoreAll leaves
\* no entry armed and no trap in the target, ArmAll leaves no enabled entry
\* unarmed, however the target's threads and memory behave meanwhile.
SweepKeepsItsWord ==
    sweep.ok => \A a \in Address \ sweep.todo :
        /\ sweep.op = "RestoreAll" => ~IsArmed(table[a]) /\ mem[a] = "own"
        /\ sweep.op = "ArmAll" => (InTable(a) /\ table[a].enabled => table[a].armed)

\* What the threads are meant to carry changes only when all of them took it:
\* after such a step every thread of the list is alive and has the new slots.
HardwareChangesTogether ==
    [][HardwareSlots(table') # HardwareSlots(table)
         => /\ ports # {} /\ ports \subseteq live
            /\ \A t \in ports : regs'[t] = HardwareSlots(table')]_vars

=============================================================================

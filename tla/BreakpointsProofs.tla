------------------------- MODULE BreakpointsProofs -------------------------
(***************************************************************************)
(* Proofs about Breakpoints, for any addresses, threads and number of      *)
(* debug registers.  What arming and disarming one entry does is stated    *)
(* once, in ArmEffect and DisarmEffect; each operation follows from them.  *)
(***************************************************************************)
EXTENDS Breakpoints, TLAPS

Table == [Address -> Entry \cup {NoEntry}]

TargetTyped ==
    /\ mem \in [Address -> Byte]
    /\ regs \in [Thread -> [Register -> Content]]
    /\ refused \in BOOLEAN

\* TrapsAccounted, of any table and memory.
Accounted(tbl, m) ==
    \A a \in Address :
        IF IsArmed(tbl[a]) /\ tbl[a].kind = "Software"
        THEN m[a] = "trap" /\ tbl[a].original = "own"
        ELSE m[a] = "own"

\* What a call of armLocked or disarmLocked on entry a of table tbl may leave:
\* only that entry's armed flag and saved bytes, and only if it succeeded.
OnlyTouches(o, tbl, a) ==
    /\ o.ok \in BOOLEAN
    /\ o.table \in Table
    /\ o.mem \in [Address -> Byte]
    /\ o.regs \in [Thread -> [Register -> Content]]
    /\ o.refused \in BOOLEAN
    /\ Accounted(o.table, o.mem)
    /\ \A b \in Address \ {a} : o.table[b] = tbl[b] /\ o.mem[b] = mem[b]
    /\ o.table[a] \in Entry
    /\ o.table[a].kind = tbl[a].kind
    /\ o.table[a].slot = tbl[a].slot
    /\ o.table[a].enabled = tbl[a].enabled
    /\ ~o.ok => o.table = tbl /\ o.mem = mem

\* No record of an entry is the record of its absence.
LEMMA EntryIsNotNoEntry == NoEntry \notin Entry
BY DEF NoEntry, Entry, Kind, HwKind

\* A call that leaves everything as it was.
LEMMA UntouchedEffect ==
    ASSUME NEW tbl \in Table, NEW a \in Address, tbl[a] \in Entry,
           TargetTyped,
           Accounted(tbl, mem), NEW ok \in BOOLEAN,
           NEW o, o = Untouched(ok, tbl)
    PROVE  OnlyTouches(o, tbl, a) /\ o.ok = ok /\ o.table = tbl
<1>1. /\ o.ok = ok /\ o.table = tbl /\ o.mem = mem /\ o.regs = regs
      /\ o.refused = refused
    BY DEF Untouched, Outcome
<1> QED
    BY <1>1 DEF OnlyTouches, TargetTyped

\* The slot table built from any entries is one a thread can hold.
LEMMA HardwareSlotsType ==
    ASSUME NEW tbl \in Table PROVE HardwareSlots(tbl) \in [Register -> Content]
<1>1. ASSUME NEW r \in Register
      PROVE  HardwareSlots(tbl)[r] \in Content
    <2> DEFINE owners == {a \in Address : /\ IsHardware(tbl[a])
                                          /\ tbl[a].armed
                                          /\ RegisterOf(tbl[a]) = r}
               owner == CHOOSE a \in owners : TRUE
    <2>1. HardwareSlots(tbl)[r] = IF owners = {} THEN Empty
                                  ELSE <<owner, tbl[owner].kind>>
        BY DEF HardwareSlots
    <2>2. CASE owners = {}
        BY <2>1, <2>2 DEF Content
    <2>3. CASE owners # {}
        <3>1. owner \in owners
            BY <2>3
        <3>2. owner \in Address /\ tbl[owner].kind \in HwKind
            BY <3>1 DEF IsHardware
        <3> HIDE DEF owners, owner
        <3> QED
            BY <2>1, <2>3, <3>2 DEF Content
    <2> QED
        BY <2>2, <2>3
<1>2. HardwareSlots(tbl) = [r \in Register |-> HardwareSlots(tbl)[r]]
    BY DEF HardwareSlots
<1> QED
    BY <1>1, <1>2

\* A change of a hardware entry's flag, taken back if a thread refuses.
LEMMA HardwareEffect ==
    ASSUME NEW tbl \in Table, NEW a \in Address, tbl[a] \in Entry,
           IsHardware(tbl[a]), TargetTyped,
           Accounted(tbl, mem), NEW flag \in BOOLEAN,
           NEW o \in ApplyHardware([tbl EXCEPT ![a].armed = flag], tbl)
    PROVE  OnlyTouches(o, tbl, a) /\ (o.ok => o.table[a].armed = flag)
<1> DEFINE new == [tbl EXCEPT ![a].armed = flag]
<1>1. /\ o.ok = ApplySucceeds /\ o.mem = mem /\ o.refused = ~ApplySucceeds
      /\ o.regs = WriteThreads(new)
      /\ o.table = IF ApplySucceeds THEN new ELSE tbl
    BY DEF ApplyHardware, Outcome
<1>2. new \in Table
    BY DEF Table, Entry
<1>3. /\ new[a] = [tbl[a] EXCEPT !.armed = flag]
      /\ \A b \in Address \ {a} : new[b] = tbl[b]
    BY DEF Table
<1>4. Accounted(new, mem)
    BY <1>3 DEF Accounted, IsArmed, IsHardware, HwKind, Entry
<1>5. ApplySucceeds \in BOOLEAN
    BY DEF ApplySucceeds
<1> HIDE DEF new
<1>6. WriteThreads(new) \in [Thread -> [Register -> Content]]
    BY <1>2, HardwareSlotsType DEF WriteThreads, TargetTyped
<1> QED
    BY <1>1, <1>2, <1>3, <1>4, <1>5, <1>6 DEF OnlyTouches, Entry, TargetTyped

\* Arming: if it succeeds the entry is armed.
LEMMA ArmEffect ==
    ASSUME NEW tbl \in Table, NEW a \in Address, tbl[a] \in Entry,
           TargetTyped,
           Accounted(tbl, mem), NEW o \in ArmOutcomes(tbl, a)
    PROVE  OnlyTouches(o, tbl, a) /\ (o.ok => o.table[a].armed)
<1>1. CASE tbl[a].armed
    <2>1. o = Untouched(TRUE, tbl)
        BY <1>1 DEF ArmOutcomes
    <2> QED
        BY <1>1, <2>1, UntouchedEffect
<1>2. CASE ~tbl[a].armed /\ IsHardware(tbl[a])
    <2>1. o \in ApplyHardware([tbl EXCEPT ![a].armed = TRUE], tbl)
        BY <1>2 DEF ArmOutcomes
    <2> QED
        BY <1>2, <2>1, HardwareEffect
<1>3. CASE o = Untouched(FALSE, tbl)
    BY <1>3, UntouchedEffect
<1>4. CASE ~tbl[a].armed /\ ~IsHardware(tbl[a]) /\ o # Untouched(FALSE, tbl)
    <2> DEFINE new == [tbl EXCEPT ![a].armed = TRUE, ![a].original = mem[a]]
               newMem == [mem EXCEPT ![a] = "trap"]
    <2>1. o = Outcome(TRUE, new, newMem, regs, refused)
        BY <1>4 DEF ArmOutcomes
    <2>2. o.ok = TRUE /\ o.table = new /\ o.refused = refused /\ o.mem = newMem
          /\ o.regs = regs
        BY <2>1 DEF Outcome
    <2>3. /\ new[a] = [tbl[a] EXCEPT !.armed = TRUE, !.original = mem[a]]
          /\ \A b \in Address \ {a} : new[b] = tbl[b]
        BY DEF Table
    <2>4. new \in Table /\ new[a] \in Entry
        BY <2>3 DEF Table, Entry, TargetTyped
    <2>5. tbl[a].kind = "Software"
        BY <1>4, EntryIsNotNoEntry DEF IsHardware, Entry, Kind
    <2>6. mem[a] = "own"
        BY <1>4 DEF Accounted, IsArmed
    <2>7. /\ newMem \in [Address -> Byte] /\ newMem[a] = "trap"
          /\ \A b \in Address \ {a} : newMem[b] = mem[b]
        BY <2>6 DEF Byte, TargetTyped
    <2> HIDE DEF new, newMem
    <2>8. new[a].original = mem[a] /\ new[a].armed = TRUE
        BY <2>3 DEF Entry
    <2>9. /\ new[a].kind = tbl[a].kind /\ new[a].slot = tbl[a].slot
          /\ new[a].enabled = tbl[a].enabled
        BY <2>3 DEF Entry
    <2>10. Accounted(new, newMem)
        <3> SUFFICES ASSUME NEW b \in Address
                     PROVE  IF IsArmed(new[b]) /\ new[b].kind = "Software"
                            THEN newMem[b] = "trap" /\ new[b].original = "own"
                            ELSE newMem[b] = "own"
            BY DEF Accounted
        <3>1. CASE b # a
            BY <2>3, <2>7, <3>1 DEF Accounted
        <3>2. CASE b = a
            BY <2>4, <2>5, <2>6, <2>7, <2>8, <2>9, <3>2, EntryIsNotNoEntry
               DEF IsArmed
        <3> QED
            BY <3>1, <3>2
    <2> QED
        BY <2>2, <2>3, <2>4, <2>7, <2>8, <2>9, <2>10
           DEF OnlyTouches, TargetTyped
<1> QED
    BY <1>1, <1>2, <1>3, <1>4 DEF Entry

\* Disarming: if it succeeds the entry is not armed.
LEMMA DisarmEffect ==
    ASSUME NEW tbl \in Table, NEW a \in Address, tbl[a] \in Entry,
           TargetTyped,
           Accounted(tbl, mem), NEW o \in DisarmOutcomes(tbl, a)
    PROVE  OnlyTouches(o, tbl, a) /\ (o.ok => ~o.table[a].armed)
<1>1. CASE ~tbl[a].armed
    <2>1. o = Untouched(TRUE, tbl)
        BY <1>1 DEF DisarmOutcomes
    <2> QED
        BY <1>1, <2>1, UntouchedEffect
<1>2. CASE tbl[a].armed /\ IsHardware(tbl[a])
    <2>1. o \in ApplyHardware([tbl EXCEPT ![a].armed = FALSE], tbl)
        BY <1>2 DEF DisarmOutcomes
    <2> QED
        BY <1>2, <2>1, HardwareEffect
<1>3. CASE o = Untouched(FALSE, tbl)
    BY <1>3, UntouchedEffect
<1>4. CASE tbl[a].armed /\ ~IsHardware(tbl[a]) /\ o # Untouched(FALSE, tbl)
    <2> DEFINE new == [tbl EXCEPT ![a].armed = FALSE, ![a].original = NoBytes]
               newMem == [mem EXCEPT ![a] = tbl[a].original]
    <2>1. o = Outcome(TRUE, new, newMem, regs, refused)
        BY <1>4 DEF DisarmOutcomes
    <2>2. o.ok = TRUE /\ o.table = new /\ o.refused = refused /\ o.mem = newMem
          /\ o.regs = regs
        BY <2>1 DEF Outcome
    <2>3. /\ new[a] = [tbl[a] EXCEPT !.armed = FALSE, !.original = NoBytes]
          /\ \A b \in Address \ {a} : new[b] = tbl[b]
        BY DEF Table
    <2>4. new \in Table /\ new[a] \in Entry
        BY <2>3 DEF Table, Entry, TargetTyped
    <2>5. tbl[a].kind = "Software"
        BY <1>4, EntryIsNotNoEntry DEF IsHardware, Entry, Kind
    <2>6. tbl[a].original = "own"
        BY <1>4, <2>5, EntryIsNotNoEntry DEF Accounted, IsArmed
    <2>7. /\ newMem \in [Address -> Byte] /\ newMem[a] = tbl[a].original
          /\ \A b \in Address \ {a} : newMem[b] = mem[b]
        BY <2>6 DEF Byte, TargetTyped
    <2> HIDE DEF new, newMem
    <2>8. new[a].original = NoBytes /\ new[a].armed = FALSE
        BY <2>3 DEF Entry
    <2>9. /\ new[a].kind = tbl[a].kind /\ new[a].slot = tbl[a].slot
          /\ new[a].enabled = tbl[a].enabled
        BY <2>3 DEF Entry
    <2>10. Accounted(new, newMem)
        <3> SUFFICES ASSUME NEW b \in Address
                     PROVE  IF IsArmed(new[b]) /\ new[b].kind = "Software"
                            THEN newMem[b] = "trap" /\ new[b].original = "own"
                            ELSE newMem[b] = "own"
            BY DEF Accounted
        <3>1. CASE b # a
            BY <2>3, <2>7, <3>1 DEF Accounted
        <3>2. CASE b = a
            BY <2>4, <2>5, <2>6, <2>7, <2>8, <2>9, <3>2, EntryIsNotNoEntry
               DEF IsArmed
        <3> QED
            BY <3>1, <3>2
    <2> QED
        BY <2>2, <2>3, <2>4, <2>7, <2>8, <2>9, <2>10
           DEF OnlyTouches, TargetTyped
<1> QED
    BY <1>1, <1>2, <1>3, <1>4 DEF Entry

-----------------------------------------------------------------------------
(***************************************************************************)
(* The invariant of the table and of the memory under it.                  *)
(***************************************************************************)
Disjoint(tbl) ==
    \A a, b \in Address :
        a # b /\ IsHardware(tbl[a]) /\ IsHardware(tbl[b])
            => RegisterOf(tbl[a]) # RegisterOf(tbl[b])

DisabledOut(tbl) ==
    \A a \in Address : tbl[a] # NoEntry /\ ~tbl[a].enabled => ~tbl[a].armed

\* The entries a sweep has been through are as it reports them.
SweptWell(s, tbl, m) ==
    s.ok => \A a \in Address \ s.todo :
        /\ s.op = "RestoreAll" => ~IsArmed(tbl[a]) /\ m[a] = "own"
        /\ s.op = "ArmAll" => (tbl[a] # NoEntry /\ tbl[a].enabled => tbl[a].armed)

Sweeps == [op : {"none", "RestoreAll", "ArmAll"}, todo : SUBSET Address,
           ok : BOOLEAN]

ThreadsTyped ==
    /\ live \subseteq Thread
    /\ ports \subseteq Thread
    /\ unapplied \subseteq ports

TInv ==
    /\ table \in Table
    /\ TargetTyped
    /\ ThreadsTyped
    /\ sweep \in Sweeps
    /\ Accounted(table, mem)
    /\ Disjoint(table)
    /\ DisabledOut(table)
    /\ sweep.op = "none" => sweep.todo = {}
    /\ sweep.todo \subseteq {a \in Address : InTable(a)}
    /\ SweptWell(sweep, table, mem)

\* Neither flag nor saved bytes decide which register an entry owns.
LEMMA DisjointKept ==
    ASSUME NEW tbl \in Table, NEW a \in Address, tbl[a] \in Entry,
           Disjoint(tbl), NEW o, OnlyTouches(o, tbl, a)
    PROVE  Disjoint(o.table)
<1>1. \A b \in Address : IsHardware(o.table[b]) => /\ IsHardware(tbl[b])
                                                   /\ RegisterOf(o.table[b]) = RegisterOf(tbl[b])
    BY EntryIsNotNoEntry DEF OnlyTouches, IsHardware, RegisterOf
<1> QED
    BY <1>1 DEF Disjoint

\* An empty table satisfies the invariant.
LEMMA InitTInv == Init => TInv
<1> SUFFICES ASSUME Init PROVE TInv
    OBVIOUS
<1>1. table \in Table /\ \A a \in Address : table[a] = NoEntry
    BY DEF Init, Table
<1>2. Accounted(table, mem) /\ Disjoint(table) /\ DisabledOut(table)
    BY <1>1 DEF Init, Accounted, Disjoint, DisabledOut, IsArmed, IsHardware
<1>3. TargetTyped
    BY DEF Init, TargetTyped, NoneLoaded, Content, Byte
<1>4. /\ sweep \in Sweeps /\ SweptWell(sweep, table, mem)
      /\ sweep.todo = {}
    BY DEF Init, NoSweep, Sweeps, SweptWell
<1>5. ThreadsTyped
    BY DEF Init, ThreadsTyped
<1> QED
    BY <1>1, <1>2, <1>3, <1>4, <1>5 DEF TInv

\* While no sweep holds the mutex nothing is said of the entries it visits.
LEMMA NoSweepToKeep ==
    ASSUME sweep \in Sweeps, MutexFree, NEW tbl, NEW m
    PROVE  SweptWell(sweep, tbl, m)
BY DEF Sweeps, MutexFree, SweptWell

\* What an operation on one entry, the mutex free, has to show.
LEMMA OperationKeepsTInv ==
    ASSUME TInv, MutexFree, UNCHANGED sweep, TargetUnchanged,
           table' \in Table, TargetTyped', Accounted(table', mem'),
           Disjoint(table'), DisabledOut(table')
    PROVE  TInv'
<1>1. SweptWell(sweep, table', mem')
    BY NoSweepToKeep DEF TInv
<1> QED
    BY <1>1 DEF TInv, TargetUnchanged, ThreadsTyped, InTable, MutexFree

\* Add's new entry, not yet armed, in a slot nobody has.
LEMMA NewEntryFits ==
    ASSUME TInv, NEW a \in Address, ~InTable(a), NEW kind \in Kind,
           NEW slot \in IF kind \in HwKind THEN LowestFree(kind) ELSE {NoSlot}
    PROVE  LET tbl == [table EXCEPT ![a] = NewEntry(kind, slot)]
           IN  /\ tbl \in Table /\ tbl[a] = NewEntry(kind, slot)
               /\ tbl[a] \in Entry
               /\ \A b \in Address \ {a} : tbl[b] = table[b]
               /\ Accounted(tbl, mem) /\ Disjoint(tbl) /\ DisabledOut(tbl)
<1> DEFINE tbl == [table EXCEPT ![a] = NewEntry(kind, slot)]
           new == NewEntry(kind, slot)
<1>1. slot \in Nat \cup {NoSlot} /\ (kind \in HwKind => slot \in FreeSlots(kind))
    BY SlotsAssumption DEF LowestFree, FreeSlots, Available, NoSlot
<1>2. new \in Entry /\ ~new.armed /\ new.enabled /\ new.kind = kind
      /\ new.slot = slot
    BY <1>1 DEF NewEntry, Entry
<1>3. /\ tbl \in Table /\ tbl[a] = new
      /\ \A b \in Address \ {a} : tbl[b] = table[b]
    BY <1>2 DEF TInv, Table
<1> HIDE DEF tbl, new
<1>4. Accounted(tbl, mem)
    BY <1>2, <1>3 DEF TInv, Accounted, IsArmed, InTable
<1>5. DisabledOut(tbl)
    BY <1>2, <1>3 DEF TInv, DisabledOut
<1>6. ASSUME NEW b \in Address \ {a}, IsHardware(table[b]), kind \in HwKind
      PROVE  RegisterOf(table[b]) # RegisterOf(new)
    BY <1>1, <1>2, <1>6 DEF FreeSlots, RegisterOf
<1>7. Disjoint(tbl)
    BY <1>2, <1>3, <1>6 DEF TInv, Disjoint, IsHardware
<1> QED
    BY <1>2, <1>3, <1>4, <1>5, <1>7 DEF tbl, new

\* Add: the entry is armed as the table shows it, or not entered at all.
LEMMA AddKeepsTInv ==
    ASSUME TInv, NEW a \in Address, NEW kind \in Kind, Add(a, kind) PROVE TInv'
<1>0. PICK slot \in IF kind \in HwKind THEN LowestFree(kind) ELSE {NoSlot} :
          \E o \in ArmOutcomes([table EXCEPT ![a] = NewEntry(kind, slot)], a) :
              Becomes(o, IF o.ok THEN o.table ELSE table)
    BY DEF Add
<1>1. PICK o \in ArmOutcomes([table EXCEPT ![a] = NewEntry(kind, slot)], a) :
          Becomes(o, IF o.ok THEN o.table ELSE table)
    BY <1>0
<1> DEFINE tbl == [table EXCEPT ![a] = NewEntry(kind, slot)]
<1>2. /\ tbl \in Table /\ tbl[a] \in Entry /\ tbl[a].enabled
      /\ \A b \in Address \ {a} : tbl[b] = table[b]
      /\ Accounted(tbl, mem) /\ Disjoint(tbl) /\ DisabledOut(tbl)
    <2>1. ~InTable(a)
        BY DEF Add
    <2>2. NewEntry(kind, slot).enabled
        BY DEF NewEntry
    <2>3. /\ tbl \in Table /\ tbl[a] = NewEntry(kind, slot) /\ tbl[a] \in Entry
          /\ \A b \in Address \ {a} : tbl[b] = table[b]
          /\ Accounted(tbl, mem) /\ Disjoint(tbl) /\ DisabledOut(tbl)
        BY <1>0, <2>1, NewEntryFits
    <2> QED
        BY <2>2, <2>3
<1>3. o \in ArmOutcomes(tbl, a)
    OBVIOUS
<1> HIDE DEF tbl
<1>4. OnlyTouches(o, tbl, a)
    BY <1>2, <1>3, ArmEffect DEF TInv
<1>5. Disjoint(o.table)
    BY <1>2, <1>4, DisjointKept
<1>6. DisabledOut(o.table)
    BY <1>2, <1>4, EntryIsNotNoEntry DEF DisabledOut, OnlyTouches
<1>7. /\ table' \in Table /\ Accounted(table', mem') /\ Disjoint(table')
      /\ DisabledOut(table') /\ TargetTyped'
    BY <1>1, <1>4, <1>5, <1>6 DEF Becomes, TInv, OnlyTouches, TargetTyped
<1> QED
    BY <1>7, OperationKeepsTInv DEF Add

\* Remove: what is forgotten had been disarmed.
LEMMA RemoveKeepsTInv ==
    ASSUME TInv, NEW a \in Address, Remove(a) PROVE TInv'
<1>1. PICK o \in DisarmOutcomes(table, a) :
          Becomes(o, IF o.ok THEN [o.table EXCEPT ![a] = NoEntry] ELSE o.table)
    BY DEF Remove
<1>2. table[a] \in Entry
    BY DEF Remove, InTable, TInv, Table
<1>3. OnlyTouches(o, table, a) /\ (o.ok => ~o.table[a].armed)
    BY <1>2, DisarmEffect DEF TInv
<1>4. Disjoint(o.table)
    BY <1>2, <1>3, DisjointKept DEF TInv
<1>5. DisabledOut(o.table)
    BY <1>2, <1>3 DEF DisabledOut, OnlyTouches, TInv
<1> DEFINE gone == [o.table EXCEPT ![a] = NoEntry]
<1>6. /\ gone \in Table /\ gone[a] = NoEntry
      /\ \A b \in Address \ {a} : gone[b] = o.table[b]
    BY <1>3 DEF OnlyTouches, Table
<1> HIDE DEF gone
<1>7. o.ok => Accounted(gone, o.mem)
    BY <1>3, <1>6, EntryIsNotNoEntry DEF Accounted, OnlyTouches, IsArmed
<1>8. Disjoint(gone) /\ DisabledOut(gone)
    BY <1>4, <1>5, <1>6 DEF Disjoint, DisabledOut, IsHardware
<1>9. /\ table' \in Table /\ Accounted(table', mem') /\ Disjoint(table')
      /\ DisabledOut(table') /\ TargetTyped'
    BY <1>1, <1>3, <1>4, <1>5, <1>6, <1>7, <1>8
       DEF Becomes, OnlyTouches, TargetTyped, gone
<1> QED
    BY <1>9, OperationKeepsTInv DEF Remove

\* Disarm: the entry is left enabled, out of the target.
LEMMA DisarmKeepsTInv ==
    ASSUME TInv, NEW a \in Address, Disarm(a) PROVE TInv'
<1>1. PICK o \in DisarmOutcomes(table, a) : Becomes(o, o.table)
    BY DEF Disarm
<1>2. table[a] \in Entry
    BY DEF Disarm, InTable, TInv, Table
<1>3. OnlyTouches(o, table, a) /\ (o.ok => ~o.table[a].armed)
    BY <1>2, DisarmEffect DEF TInv
<1>4. Disjoint(o.table)
    BY <1>2, <1>3, DisjointKept DEF TInv
<1>5. DisabledOut(o.table)
    BY <1>2, <1>3 DEF DisabledOut, OnlyTouches, TInv
<1>6. /\ table' \in Table /\ Accounted(table', mem') /\ Disjoint(table')
      /\ DisabledOut(table') /\ TargetTyped'
    BY <1>1, <1>3, <1>4, <1>5 DEF Becomes, OnlyTouches, TargetTyped
<1> QED
    BY <1>6, OperationKeepsTInv DEF Disarm

\* Arm: only an entry that is enabled.
LEMMA ArmKeepsTInv ==
    ASSUME TInv, NEW a \in Address, Arm(a) PROVE TInv'
<1>1. PICK o \in ArmOutcomes(table, a) : Becomes(o, o.table)
    BY DEF Arm
<1>2. table[a] \in Entry /\ table[a].enabled
    BY DEF Arm, InTable, TInv, Table
<1>3. OnlyTouches(o, table, a)
    BY <1>2, ArmEffect DEF TInv
<1>4. Disjoint(o.table)
    BY <1>2, <1>3, DisjointKept DEF TInv
<1>5. DisabledOut(o.table)
    BY <1>2, <1>3 DEF DisabledOut, OnlyTouches, TInv
<1>6. /\ table' \in Table /\ Accounted(table', mem') /\ Disjoint(table')
      /\ DisabledOut(table') /\ TargetTyped'
    BY <1>1, <1>3, <1>4, <1>5 DEF Becomes, OnlyTouches, TargetTyped
<1> QED
    BY <1>6, OperationKeepsTInv DEF Arm

\* SetEnabled: the flag follows what the target accepted.
LEMMA SetEnabledKeepsTInv ==
    ASSUME TInv, NEW a \in Address, NEW enabled \in BOOLEAN,
           SetEnabled(a, enabled)
    PROVE  TInv'
<1>1. PICK o \in IF enabled THEN ArmOutcomes(table, a)
                             ELSE DisarmOutcomes(table, a) :
          Becomes(o, IF o.ok THEN [o.table EXCEPT ![a].enabled = enabled]
                             ELSE o.table)
    BY DEF SetEnabled
<1>2. table[a] \in Entry
    BY DEF SetEnabled, InTable, TInv, Table
<1>3. OnlyTouches(o, table, a) /\ (o.ok /\ ~enabled => ~o.table[a].armed)
    BY <1>1, <1>2, ArmEffect, DisarmEffect DEF TInv
<1>4. Disjoint(o.table)
    BY <1>2, <1>3, DisjointKept DEF TInv
<1> DEFINE new == [o.table EXCEPT ![a].enabled = enabled]
<1>5. /\ new \in Table /\ new[a] = [o.table[a] EXCEPT !.enabled = enabled]
      /\ \A b \in Address \ {a} : new[b] = o.table[b]
    BY <1>3 DEF OnlyTouches, Table, Entry
<1> HIDE DEF new
<1>6. /\ new[a] \in Entry
      /\ new[a].kind = o.table[a].kind /\ new[a].slot = o.table[a].slot
      /\ new[a].original = o.table[a].original
    BY <1>3, <1>5 DEF OnlyTouches, Entry
<1>7. new[a].armed = o.table[a].armed /\ new[a].enabled = enabled
    BY <1>3, <1>5 DEF OnlyTouches, Entry
<1>8. Accounted(new, o.mem)
    <2> SUFFICES ASSUME NEW b \in Address
                 PROVE  IF IsArmed(new[b]) /\ new[b].kind = "Software"
                        THEN o.mem[b] = "trap" /\ new[b].original = "own"
                        ELSE o.mem[b] = "own"
        BY DEF Accounted
    <2>1. CASE b # a
        BY <1>3, <1>5, <2>1 DEF Accounted, OnlyTouches
    <2>2. CASE b = a
        <3>1. IsArmed(new[a]) <=> IsArmed(o.table[a])
            BY <1>3, <1>6, <1>7, EntryIsNotNoEntry DEF IsArmed, OnlyTouches
        <3> QED
            BY <1>3, <1>6, <2>2, <3>1 DEF Accounted, OnlyTouches
    <2> QED
        BY <2>1, <2>2
<1>9. Disjoint(new)
    <2>1. \A b \in Address : /\ IsHardware(new[b]) => IsHardware(o.table[b])
                             /\ RegisterOf(new[b]) = RegisterOf(o.table[b])
        BY <1>3, <1>5, <1>6, EntryIsNotNoEntry
           DEF IsHardware, OnlyTouches, RegisterOf
    <2> QED
        BY <1>4, <2>1 DEF Disjoint
<1>10. o.ok => DisabledOut(new)
    <2> SUFFICES ASSUME o.ok, NEW b \in Address, new[b] # NoEntry,
                        ~new[b].enabled
                 PROVE  ~new[b].armed
        BY DEF DisabledOut
    <2>1. CASE b = a
        BY <1>3, <1>7, <2>1
    <2>2. CASE b # a
        BY <1>3, <1>5, <2>2 DEF DisabledOut, OnlyTouches, TInv
    <2> QED
        BY <2>1, <2>2
<1>11. ~o.ok => DisabledOut(o.table)
    BY <1>3 DEF OnlyTouches, TInv
<1>12. /\ table' \in Table /\ Accounted(table', mem') /\ Disjoint(table')
       /\ DisabledOut(table') /\ TargetTyped'
    BY <1>1, <1>3, <1>4, <1>5, <1>8, <1>9, <1>10, <1>11
       DEF Becomes, OnlyTouches, TargetTyped, new
<1> QED
    BY <1>12, OperationKeepsTInv DEF SetEnabled

\* The sweeps.
LEMMA SweepBeginKeepsTInv ==
    ASSUME TInv, NEW op \in {"RestoreAll", "ArmAll"}, SweepBegin(op) PROVE TInv'
<1>1. /\ sweep'.op = op /\ sweep'.todo = {a \in Address : InTable(a)}
      /\ sweep'.ok = TRUE /\ sweep' \in Sweeps
    BY DEF SweepBegin, Sweeps
<1>2. \A a \in Address \ sweep'.todo : table[a] = NoEntry /\ mem[a] = "own"
    BY <1>1 DEF InTable, TInv, Accounted, IsArmed
<1>3. SweptWell(sweep', table, mem)
    BY <1>2 DEF SweptWell, IsArmed
<1> QED
    BY <1>1, <1>3 DEF TInv, SweepBegin, TargetUnchanged, ThreadsTyped,
                      TargetTyped, InTable

\* One entry of RestoreAll: the result stays true only if it was taken out.
LEMMA RestoreEntryKeepsTInv ==
    ASSUME TInv, NEW a \in Address, RestoreEntry(a) PROVE TInv'
<1>1. PICK o \in DisarmOutcomes(table, a) :
          /\ Becomes(o, o.table)
          /\ sweep' = [sweep EXCEPT !.todo = @ \ {a}, !.ok = @ /\ o.ok]
    BY DEF RestoreEntry
<1>2. table[a] \in Entry /\ sweep.op = "RestoreAll"
    BY DEF RestoreEntry, InTable, TInv, Table
<1>3. OnlyTouches(o, table, a) /\ (o.ok => ~o.table[a].armed)
    BY <1>2, DisarmEffect DEF TInv
<1>4. Disjoint(o.table)
    BY <1>2, <1>3, DisjointKept DEF TInv
<1>5. DisabledOut(o.table)
    BY <1>2, <1>3 DEF DisabledOut, OnlyTouches, TInv
<1>6. /\ sweep'.op = "RestoreAll" /\ sweep'.todo = sweep.todo \ {a}
      /\ sweep' \in Sweeps
    BY <1>1, <1>2, <1>3 DEF Sweeps, TInv, OnlyTouches
<1>7. sweep'.ok = (sweep.ok /\ o.ok)
    BY <1>1 DEF Sweeps, TInv
<1>8. ASSUME sweep'.ok, NEW b \in Address \ sweep'.todo
      PROVE  ~IsArmed(o.table[b]) /\ o.mem[b] = "own"
    <2>1. CASE b = a
        BY <1>3, <1>7, <1>8, <2>1 DEF OnlyTouches, Accounted, IsArmed
    <2>2. CASE b # a
        <3>1. sweep.ok /\ b \in Address \ sweep.todo
            BY <1>6, <1>7, <1>8, <2>2
        <3>2. ~IsArmed(table[b]) /\ mem[b] = "own"
            BY <1>2, <3>1 DEF SweptWell, TInv
        <3>3. o.table[b] = table[b] /\ o.mem[b] = mem[b]
            BY <1>3, <2>2, <3>1 DEF OnlyTouches
        <3> QED
            BY <3>2, <3>3
    <2> QED
        BY <2>1, <2>2
<1>9. SweptWell(sweep', o.table, o.mem)
    BY <1>6, <1>8 DEF SweptWell
<1>10. \A b \in Address : table[b] # NoEntry => o.table[b] # NoEntry
    BY <1>3, EntryIsNotNoEntry DEF OnlyTouches
<1>11. TargetTyped' /\ ThreadsTyped'
    BY <1>1, <1>3 DEF RestoreEntry, TargetUnchanged, ThreadsTyped, TInv,
                      Becomes, TargetTyped, OnlyTouches
<1> QED
    BY <1>1, <1>3, <1>4, <1>5, <1>6, <1>9, <1>10, <1>11
       DEF TInv, Becomes, OnlyTouches, InTable

\* One entry of ArmAll: the result stays true only if it went in.
LEMMA ArmEntryKeepsTInv ==
    ASSUME TInv, NEW a \in Address, ArmEntry(a) PROVE TInv'
<1>1. PICK o \in IF table[a].enabled THEN ArmOutcomes(table, a)
                                    ELSE {Untouched(TRUE, table)} :
          /\ Becomes(o, o.table)
          /\ sweep' = [sweep EXCEPT !.todo = @ \ {a}, !.ok = @ /\ o.ok]
    BY DEF ArmEntry
<1>2. table[a] \in Entry /\ sweep.op = "ArmAll"
    BY DEF ArmEntry, InTable, TInv, Table
<1>3. /\ OnlyTouches(o, table, a)
      /\ o.ok /\ table[a].enabled => o.table[a].armed
    BY <1>1, <1>2, ArmEffect, UntouchedEffect DEF TInv
<1>4. Disjoint(o.table)
    BY <1>2, <1>3, DisjointKept DEF TInv
<1>5. DisabledOut(o.table)
    <2>1. CASE table[a].enabled
        BY <1>2, <1>3, <2>1 DEF DisabledOut, OnlyTouches, TInv
    <2>2. CASE ~table[a].enabled
        BY <1>1, <1>2, <2>2, UntouchedEffect DEF TInv
    <2> QED
        BY <2>1, <2>2
<1>6. /\ sweep'.op = "ArmAll" /\ sweep'.todo = sweep.todo \ {a}
      /\ sweep' \in Sweeps
    BY <1>1, <1>2, <1>3 DEF Sweeps, TInv, OnlyTouches
<1>7. sweep'.ok = (sweep.ok /\ o.ok)
    BY <1>1 DEF Sweeps, TInv
<1>8. ASSUME sweep'.ok, NEW b \in Address \ sweep'.todo, o.table[b] # NoEntry,
             o.table[b].enabled
      PROVE  o.table[b].armed
    <2>1. CASE b = a
        BY <1>3, <1>7, <1>8, <2>1 DEF OnlyTouches
    <2>2. CASE b # a
        BY <1>2, <1>3, <1>6, <1>7, <1>8, <2>2 DEF OnlyTouches, SweptWell, TInv
    <2> QED
        BY <2>1, <2>2
<1>9. SweptWell(sweep', o.table, o.mem)
    BY <1>6, <1>8 DEF SweptWell
<1>10. \A b \in Address : table[b] # NoEntry => o.table[b] # NoEntry
    BY <1>3, EntryIsNotNoEntry DEF OnlyTouches
<1>11. TargetTyped' /\ ThreadsTyped'
    BY <1>1, <1>3 DEF ArmEntry, TargetUnchanged, ThreadsTyped, TInv,
                      Becomes, TargetTyped, OnlyTouches
<1> QED
    BY <1>1, <1>3, <1>4, <1>5, <1>6, <1>9, <1>10, <1>11
       DEF TInv, Becomes, OnlyTouches, InTable

\* The mutex is released.
LEMMA SweepEndKeepsTInv ==
    ASSUME TInv, SweepEnd PROVE TInv'
<1>1. sweep' \in Sweeps /\ sweep'.todo = {} /\ sweep'.op = "none"
    BY DEF SweepEnd, NoSweep, Sweeps
<1> QED
    BY <1>1 DEF TInv, SweepEnd, TargetUnchanged, ThreadsTyped, TargetTyped,
                SweptWell

\* The threads: only their registers and the engine's list of them change.
LEMMA ThreadingKeepsTInv ==
    ASSUME TInv, Threading PROVE TInv'
<1> USE DEF TInv, ThreadsTyped, TargetTyped
<1>1. CASE RefreshThreads
    BY <1>1 DEF RefreshThreads, InTable
<1>2. ASSUME NEW t \in Thread, ApplyToThread(t) PROVE TInv'
    <2>1. regs' \in [Thread -> [Register -> Content]]
        BY <1>2, HardwareSlotsType DEF ApplyToThread
    <2> QED
        BY <1>2, <2>1 DEF ApplyToThread, InTable
<1>3. ASSUME NEW t \in Thread, ThreadStart(t) PROVE TInv'
    BY <1>3 DEF ThreadStart, InTable
<1>4. ASSUME NEW t \in Thread, ThreadExit(t) PROVE TInv'
    <2>1. NoneLoaded \in [Register -> Content]
        BY DEF NoneLoaded, Content
    <2> QED
        BY <1>4, <2>1 DEF ThreadExit, InTable
<1> QED
    BY <1>1, <1>2, <1>3, <1>4 DEF Threading

\* Every step keeps the invariant of the table.
LEMMA StepTInv == TInv /\ [Next]_vars => TInv'
<1> SUFFICES ASSUME TInv, [Next]_vars PROVE TInv'
    OBVIOUS
<1>1. CASE Operation
    BY <1>1, AddKeepsTInv, RemoveKeepsTInv, DisarmKeepsTInv, ArmKeepsTInv,
       SetEnabledKeepsTInv, SweepBeginKeepsTInv, RestoreEntryKeepsTInv,
       ArmEntryKeepsTInv, SweepEndKeepsTInv DEF Operation
<1>2. CASE Threading
    BY <1>2, ThreadingKeepsTInv
<1>3. CASE UNCHANGED vars
    BY <1>3 DEF vars, TInv, ThreadsTyped, TargetTyped, InTable
<1> QED
    BY <1>1, <1>2, <1>3 DEF Next

\* The invariant of the table holds throughout.
LEMMA TableInvariant == Spec => []TInv
BY InitTInv, StepTInv, PTL DEF Spec

-----------------------------------------------------------------------------
(***************************************************************************)
(* The threads' registers.                                                 *)
(***************************************************************************)
ArmedHardware(e) == IsHardware(e) /\ e.armed

\* The slot table depends on the armed hardware entries alone.
LEMMA SameSlots ==
    ASSUME NEW tbl1, NEW tbl2,
           \A a \in Address :
               /\ ArmedHardware(tbl1[a]) <=> ArmedHardware(tbl2[a])
               /\ ArmedHardware(tbl1[a]) => /\ tbl1[a].kind = tbl2[a].kind
                                            /\ tbl1[a].slot = tbl2[a].slot
    PROVE  HardwareSlots(tbl1) = HardwareSlots(tbl2)
<1> DEFINE owners(tbl, r) == {a \in Address : /\ IsHardware(tbl[a])
                                              /\ tbl[a].armed
                                              /\ RegisterOf(tbl[a]) = r}
           content(tbl, r) ==
               IF owners(tbl, r) = {} THEN Empty
               ELSE LET a == CHOOSE a \in owners(tbl, r) : TRUE
                    IN  <<a, tbl[a].kind>>
<1>1. ASSUME NEW r \in Register PROVE content(tbl1, r) = content(tbl2, r)
    <2>1. owners(tbl1, r) = owners(tbl2, r)
        BY DEF ArmedHardware, RegisterOf
    <2>2. \A a \in owners(tbl1, r) : tbl1[a].kind = tbl2[a].kind
        BY DEF ArmedHardware
    <2> HIDE DEF owners
    <2>3. CASE owners(tbl1, r) = {}
        BY <2>1, <2>3
    <2>4. CASE owners(tbl1, r) # {}
        <3>1. (CHOOSE a \in owners(tbl1, r) : TRUE) \in owners(tbl1, r)
            BY <2>4
        <3> QED
            BY <2>1, <2>2, <2>4, <3>1
    <2> QED
        BY <2>3, <2>4
<1>2. /\ HardwareSlots(tbl1) = [r \in Register |-> content(tbl1, r)]
      /\ HardwareSlots(tbl2) = [r \in Register |-> content(tbl2, r)]
    BY DEF HardwareSlots
<1> HIDE DEF content
<1> QED
    BY <1>1, <1>2

\* What a call may do to the registers: nothing, a refused attempt that leaves
\* the slot table alone, or a write that every thread took.
Together(tbl, rg, ref) ==
    /\ \A t \in Thread \ (ports \cap live) : rg[t] = regs[t]
    /\ \/ ref = TRUE /\ HardwareSlots(tbl) = HardwareSlots(table)
       \/ ref = refused /\ rg = regs /\ HardwareSlots(tbl) = HardwareSlots(table)
       \/ ApplySucceeds /\ rg = WriteThreads(tbl)

\* A hardware write that is accepted reached every thread of the list.
LEMMA ApplyTogether ==
    ASSUME TInv, NEW tbl \in Table, HardwareSlots(tbl) = HardwareSlots(table),
           NEW new, NEW o \in ApplyHardware(new, tbl)
    PROVE  Together(o.table, o.regs, o.refused)
<1>1. /\ o.table = IF ApplySucceeds THEN new ELSE tbl
      /\ o.regs = WriteThreads(new) /\ o.refused = ~ApplySucceeds
    BY DEF ApplyHardware, Outcome
<1>2. \A t \in Thread \ (ports \cap live) : WriteThreads(new)[t] = regs[t]
    BY DEF WriteThreads
<1> QED
    BY <1>1, <1>2 DEF Together

\* A software entry is in no debug register.
LEMMA SoftwareTogether ==
    ASSUME TInv, NEW tbl \in Table, HardwareSlots(tbl) = HardwareSlots(table),
           NEW a \in Address, tbl[a] \in Entry, ~IsHardware(tbl[a]),
           NEW new \in Table, new[a] \in Entry, new[a].kind = tbl[a].kind,
           \A b \in Address \ {a} : new[b] = tbl[b]
    PROVE  Together(new, regs, refused)
<1>1. ~IsHardware(new[a])
    BY EntryIsNotNoEntry DEF IsHardware
<1>2. HardwareSlots(new) = HardwareSlots(tbl)
    BY <1>1, SameSlots DEF ArmedHardware
<1> QED
    BY <1>2 DEF Together

\* Arming changes the slot table only with all the threads.
LEMMA ArmTogether ==
    ASSUME TInv, NEW tbl \in Table, HardwareSlots(tbl) = HardwareSlots(table),
           Accounted(tbl, mem), NEW a \in Address, tbl[a] \in Entry,
           NEW o \in ArmOutcomes(tbl, a)
    PROVE  Together(o.table, o.regs, o.refused)
<1>1. CASE tbl[a].armed
    <2>1. o.table = tbl /\ o.regs = regs /\ o.refused = refused
        BY <1>1 DEF ArmOutcomes, Untouched, Outcome
    <2> QED
        BY <2>1 DEF Together
<1>2. CASE ~tbl[a].armed /\ IsHardware(tbl[a])
    BY <1>2, ApplyTogether DEF ArmOutcomes
<1>3. CASE ~tbl[a].armed /\ ~IsHardware(tbl[a])
    <2>1. o.regs = regs /\ o.refused = refused
        BY <1>3 DEF ArmOutcomes, Untouched, Outcome
    <2>2. OnlyTouches(o, tbl, a)
        BY ArmEffect DEF TInv
    <2> QED
        BY <1>3, <2>1, <2>2, SoftwareTogether DEF OnlyTouches
<1> QED
    BY <1>1, <1>2, <1>3

\* So does disarming.
LEMMA DisarmTogether ==
    ASSUME TInv, NEW a \in Address, table[a] \in Entry,
           NEW o \in DisarmOutcomes(table, a)
    PROVE  Together(o.table, o.regs, o.refused)
<1>0. table \in Table /\ Accounted(table, mem)
    BY DEF TInv
<1>1. CASE ~table[a].armed
    <2>1. o.table = table /\ o.regs = regs /\ o.refused = refused
        BY <1>1 DEF DisarmOutcomes, Untouched, Outcome
    <2> QED
        BY <2>1 DEF Together
<1>2. CASE table[a].armed /\ IsHardware(table[a])
    BY <1>0, <1>2, ApplyTogether DEF DisarmOutcomes
<1>3. CASE table[a].armed /\ ~IsHardware(table[a])
    <2>1. o.regs = regs /\ o.refused = refused
        BY <1>3 DEF DisarmOutcomes, Untouched, Outcome
    <2>2. OnlyTouches(o, table, a)
        BY <1>0, DisarmEffect DEF TInv
    <2> QED
        BY <1>0, <1>3, <2>1, <2>2, SoftwareTogether DEF OnlyTouches
<1> QED
    BY <1>1, <1>2, <1>3

\* Together speaks of the slot table, not of the table it is built from.
LEMMA TogetherOfSameSlots ==
    ASSUME NEW tbl, NEW rg, NEW ref, Together(tbl, rg, ref),
           NEW other, HardwareSlots(other) = HardwareSlots(tbl)
    PROVE  Together(other, rg, ref)
BY DEF Together, WriteThreads

\* Add: an entry that could not be armed leaves the slot table as it was.
LEMMA AddTogether ==
    ASSUME TInv, NEW a \in Address, NEW kind \in Kind, Add(a, kind)
    PROVE  Together(table', regs', refused')
<1>0. PICK slot \in IF kind \in HwKind THEN LowestFree(kind) ELSE {NoSlot} :
          \E o \in ArmOutcomes([table EXCEPT ![a] = NewEntry(kind, slot)], a) :
              Becomes(o, IF o.ok THEN o.table ELSE table)
    BY DEF Add
<1>1. PICK o \in ArmOutcomes([table EXCEPT ![a] = NewEntry(kind, slot)], a) :
          Becomes(o, IF o.ok THEN o.table ELSE table)
    BY <1>0
<1> DEFINE tbl == [table EXCEPT ![a] = NewEntry(kind, slot)]
<1>2. /\ tbl \in Table /\ tbl[a] = NewEntry(kind, slot) /\ tbl[a] \in Entry
      /\ \A b \in Address \ {a} : tbl[b] = table[b]
      /\ Accounted(tbl, mem)
    <2>1. ~InTable(a)
        BY DEF Add
    <2> QED
        BY <1>0, <2>1, NewEntryFits
<1>3. o \in ArmOutcomes(tbl, a)
    OBVIOUS
<1> HIDE DEF tbl
<1>4. ~ArmedHardware(tbl[a]) /\ ~ArmedHardware(table[a])
    BY <1>2 DEF ArmedHardware, NewEntry, Add, InTable, IsHardware
<1>5. HardwareSlots(tbl) = HardwareSlots(table)
    BY <1>2, <1>4, SameSlots
<1>6. Together(o.table, o.regs, o.refused)
    BY <1>2, <1>3, <1>5, ArmTogether
<1>7. OnlyTouches(o, tbl, a)
    BY <1>2, <1>3, ArmEffect DEF TInv
<1>8. HardwareSlots(table') = HardwareSlots(o.table)
    <2>1. CASE o.ok
        BY <1>1, <2>1 DEF Becomes
    <2>2. CASE ~o.ok
        BY <1>1, <1>5, <1>7, <2>2 DEF Becomes, OnlyTouches
    <2> QED
        BY <2>1, <2>2
<1> QED
    BY <1>1, <1>6, <1>8, TogetherOfSameSlots DEF Becomes

\* Remove: an entry already disarmed is in no slot.
LEMMA RemoveTogether ==
    ASSUME TInv, NEW a \in Address, Remove(a)
    PROVE  Together(table', regs', refused')
<1>1. PICK o \in DisarmOutcomes(table, a) :
          Becomes(o, IF o.ok THEN [o.table EXCEPT ![a] = NoEntry] ELSE o.table)
    BY DEF Remove
<1>2. table[a] \in Entry
    BY DEF Remove, InTable, TInv, Table
<1>3. OnlyTouches(o, table, a) /\ (o.ok => ~o.table[a].armed)
    BY <1>2, DisarmEffect DEF TInv
<1> DEFINE gone == [o.table EXCEPT ![a] = NoEntry]
<1>4. gone[a] = NoEntry /\ \A b \in Address \ {a} : gone[b] = o.table[b]
    BY <1>3 DEF OnlyTouches, Table
<1> HIDE DEF gone
<1>5. o.ok => HardwareSlots(gone) = HardwareSlots(o.table)
    BY <1>3, <1>4, SameSlots DEF ArmedHardware, IsHardware
<1>6. Together(o.table, o.regs, o.refused)
    BY <1>2, DisarmTogether
<1>7. HardwareSlots(table') = HardwareSlots(o.table)
    BY <1>1, <1>5 DEF Becomes, gone
<1> QED
    BY <1>1, <1>6, <1>7, TogetherOfSameSlots DEF Becomes

\* SetEnabled: the enabled flag is no part of the slot table.
LEMMA SetEnabledTogether ==
    ASSUME TInv, NEW a \in Address, NEW enabled \in BOOLEAN,
           SetEnabled(a, enabled)
    PROVE  Together(table', regs', refused')
<1>1. PICK o \in IF enabled THEN ArmOutcomes(table, a)
                             ELSE DisarmOutcomes(table, a) :
          Becomes(o, IF o.ok THEN [o.table EXCEPT ![a].enabled = enabled]
                             ELSE o.table)
    BY DEF SetEnabled
<1>2. table[a] \in Entry
    BY DEF SetEnabled, InTable, TInv, Table
<1>3. OnlyTouches(o, table, a)
    BY <1>1, <1>2, ArmEffect, DisarmEffect DEF TInv
<1> DEFINE new == [o.table EXCEPT ![a].enabled = enabled]
<1>4. /\ new[a] = [o.table[a] EXCEPT !.enabled = enabled]
      /\ \A b \in Address \ {a} : new[b] = o.table[b]
    BY <1>3 DEF OnlyTouches, Table
<1> HIDE DEF new
<1>5. /\ new[a] \in Entry
      /\ new[a].kind = o.table[a].kind /\ new[a].slot = o.table[a].slot
    BY <1>3, <1>4 DEF OnlyTouches, Entry
<1>6. new[a].armed = o.table[a].armed
    BY <1>3, <1>4 DEF OnlyTouches, Entry
<1>7. ArmedHardware(new[a]) <=> ArmedHardware(o.table[a])
    BY <1>3, <1>5, <1>6, EntryIsNotNoEntry
       DEF ArmedHardware, IsHardware, OnlyTouches
<1>8. HardwareSlots(new) = HardwareSlots(o.table)
    BY <1>4, <1>5, <1>7, SameSlots
<1>9. Together(o.table, o.regs, o.refused)
    BY <1>1, <1>2, ArmTogether, DisarmTogether DEF TInv
<1>10. HardwareSlots(table') = HardwareSlots(o.table)
    BY <1>1, <1>8 DEF Becomes, new
<1> QED
    BY <1>1, <1>9, <1>10, TogetherOfSameSlots DEF Becomes

\* Every operation changes the slot table only with all the threads.
LEMMA OperationTogether ==
    ASSUME TInv, Operation PROVE Together(table', regs', refused')
<1>1. ASSUME NEW a \in Address, NEW kind \in Kind, Add(a, kind)
      PROVE  Together(table', regs', refused')
    BY <1>1, AddTogether
<1>2. ASSUME NEW a \in Address, Remove(a)
      PROVE  Together(table', regs', refused')
    BY <1>2, RemoveTogether
<1>3. ASSUME NEW a \in Address, Disarm(a) \/ RestoreEntry(a)
      PROVE  Together(table', regs', refused')
    <2>1. table[a] \in Entry
        BY <1>3 DEF Disarm, RestoreEntry, InTable, TInv, Table
    <2>2. \E o \in DisarmOutcomes(table, a) : Becomes(o, o.table)
        BY <1>3 DEF Disarm, RestoreEntry
    <2> QED
        BY <2>1, <2>2, DisarmTogether DEF Becomes
<1>4. ASSUME NEW a \in Address, Arm(a) \/ (ArmEntry(a) /\ table[a].enabled)
      PROVE  Together(table', regs', refused')
    <2>1. table[a] \in Entry
        BY <1>4 DEF Arm, ArmEntry, InTable, TInv, Table
    <2>2. \E o \in ArmOutcomes(table, a) : Becomes(o, o.table)
        BY <1>4 DEF Arm, ArmEntry
    <2> QED
        BY <2>1, <2>2, ArmTogether DEF Becomes, TInv
<1>5. ASSUME NEW a \in Address, ArmEntry(a) /\ ~table[a].enabled
      PROVE  Together(table', regs', refused')
    BY <1>5 DEF ArmEntry, Becomes, Untouched, Outcome, Together
<1>6. ASSUME NEW a \in Address, NEW enabled \in BOOLEAN, SetEnabled(a, enabled)
      PROVE  Together(table', regs', refused')
    BY <1>6, SetEnabledTogether
<1>7. CASE SweepEnd \/ \E op \in {"RestoreAll", "ArmAll"} : SweepBegin(op)
    BY <1>7 DEF SweepBegin, SweepEnd, Together
<1> QED
    BY <1>1, <1>2, <1>3, <1>4, <1>5, <1>6, <1>7 DEF Operation

\* Threads the engine has not caught up with, or that are gone, hold nothing;
\* one it is catching up with holds nothing or all of the table.
HInv ==
    /\ \A t \in Thread \ (ports \cap live) : regs[t] = NoneLoaded
    /\ ~refused => \A t \in ports \cap live :
           \/ regs[t] = HardwareSlots(table)
           \/ t \in unapplied /\ regs[t] = NoneLoaded

\* At the first stop no thread carries anything.
LEMMA InitHInv == Init => HInv
<1> SUFFICES ASSUME Init PROVE HInv
    OBVIOUS
<1>1. \A a \in Address : ~IsHardware(table[a])
    BY DEF Init, IsHardware
<1>2. HardwareSlots(table) = NoneLoaded
    BY <1>1 DEF HardwareSlots, NoneLoaded
<1> QED
    BY <1>2 DEF Init, HInv

\* Operations write the threads' registers as one.
LEMMA OperationKeepsHInv ==
    ASSUME TInv, HInv, Operation PROVE HInv'
<1>1. Together(table', regs', refused')
    BY OperationTogether
<1>2. UNCHANGED <<live, ports, unapplied>>
    BY DEF Operation, Add, Remove, Disarm, Arm, SetEnabled, SweepBegin,
           RestoreEntry, ArmEntry, SweepEnd, TargetUnchanged
<1>3. \A t \in Thread \ (ports' \cap live') : regs'[t] = NoneLoaded
    BY <1>1, <1>2 DEF HInv, Together
<1>4. ASSUME ~refused', NEW t \in ports' \cap live'
      PROVE  \/ regs'[t] = HardwareSlots(table')
             \/ t \in unapplied' /\ regs'[t] = NoneLoaded
    <2>1. t \in Thread /\ t \in ports \cap live
        BY <1>2, <1>4 DEF TInv, ThreadsTyped
    <2>2. CASE /\ refused' = refused /\ regs' = regs
               /\ HardwareSlots(table') = HardwareSlots(table)
        BY <1>2, <1>4, <2>1, <2>2 DEF HInv
    <2>3. CASE regs' = WriteThreads(table')
        BY <2>1, <2>3 DEF WriteThreads
    <2> QED
        BY <1>1, <1>4, <2>2, <2>3 DEF Together
<1> QED
    BY <1>3, <1>4 DEF HInv

\* A new thread is one the engine has still to catch up with.
LEMMA ThreadingKeepsHInv ==
    ASSUME TInv, HInv, Threading PROVE HInv'
<1> USE DEF HInv, TInv, ThreadsTyped
<1>1. CASE RefreshThreads
    BY <1>1 DEF RefreshThreads
<1>2. ASSUME NEW t \in Thread, ApplyToThread(t) PROVE HInv'
    <2>1. CASE t \in live /\ \E a \in Address : IsHardware(table[a])
        BY <1>2, <2>1 DEF ApplyToThread, TargetTyped
    <2>2. CASE t \notin live
        BY <1>2, <2>2 DEF ApplyToThread
    <2>3. CASE t \in live /\ ~\E a \in Address : IsHardware(table[a])
        <3>1. HardwareSlots(table) = NoneLoaded
            BY <2>3 DEF HardwareSlots, NoneLoaded
        <3> QED
            BY <1>2, <2>3, <3>1 DEF ApplyToThread
    <2> QED
        BY <2>1, <2>2, <2>3
<1>3. ASSUME NEW t \in Thread, ThreadStart(t) PROVE HInv'
    BY <1>3 DEF ThreadStart
<1>4. ASSUME NEW t \in Thread, ThreadExit(t) PROVE HInv'
    BY <1>4 DEF ThreadExit, TargetTyped
<1> QED
    BY <1>1, <1>2, <1>3, <1>4 DEF Threading

\* The invariant of the threads' registers holds throughout.
LEMMA RegisterInvariant == Spec => []HInv
<1>1. TInv /\ HInv /\ [Next]_vars => HInv'
    <2> SUFFICES ASSUME TInv, HInv, [Next]_vars PROVE HInv'
        OBVIOUS
    <2>1. CASE Operation
        BY <2>1, OperationKeepsHInv
    <2>2. CASE Threading
        BY <2>2, ThreadingKeepsHInv
    <2>3. CASE UNCHANGED vars
        BY <2>3 DEF vars, HInv
    <2> QED
        BY <2>1, <2>2, <2>3 DEF Next
<1> QED
    BY <1>1, TableInvariant, InitHInv, PTL DEF Spec

-----------------------------------------------------------------------------
\* Every variable keeps its type, whatever fails on the way.
THEOREM TypeCorrect == Spec => []TypeOK
<1>1. TInv => TypeOK
    BY DEF TInv, TypeOK, Table, TargetTyped, ThreadsTyped, Sweeps
<1> QED
    BY TableInvariant, <1>1, PTL

\* A trap is in the target exactly where the table has an armed software
\* breakpoint, which saved the target's own bytes: for any interleaving of the
\* table's operations and any writes the target refuses.
THEOREM EveryTrapIsAccounted == Spec => []TrapsAccounted
<1>1. TInv => TrapsAccounted
    BY DEF TInv, Accounted, TrapsAccounted
<1> QED
    BY TableInvariant, <1>1, PTL

\* No two hardware entries own the same register, for any number of registers
\* and whether the kinds share them or not.
THEOREM NoSlotIsSharedOut == Spec => []SlotsDisjoint
<1>1. TInv => SlotsDisjoint
    BY DEF TInv, Disjoint, SlotsDisjoint
<1> QED
    BY TableInvariant, <1>1, PTL

\* What the user switched off is not armed, by the resume cycle or by a sweep.
THEOREM DisabledIsOut == Spec => []DisabledStaysOut
<1>1. TInv => DisabledStaysOut
    BY DEF TInv, DisabledOut, DisabledStaysOut, InTable
<1> QED
    BY TableInvariant, <1>1, PTL

\* A sweep reported as successful left nothing out.
THEOREM SweepsAreThorough == Spec => []SweepKeepsItsWord
<1>1. TInv => SweepKeepsItsWord
    BY DEF TInv, SweptWell, SweepKeepsItsWord, InTable
<1> QED
    BY TableInvariant, <1>1, PTL

\* Until a write is refused, every live thread the engine has caught up with
\* carries exactly the table's armed hardware breakpoints.
THEOREM ThreadsCarryWhatTheTableSays == Spec => []ThreadsCarryTheTable
<1>1. HInv => ThreadsCarryTheTable
    BY DEF HInv, ThreadsCarryTheTable
<1> QED
    BY RegisterInvariant, <1>1, PTL

\* What the threads are meant to carry changes only if all of them took it.
THEOREM HardwareChangesForAll == Spec => HardwareChangesTogether
<1> DEFINE A == HardwareSlots(table') # HardwareSlots(table)
                    => /\ ports # {} /\ ports \subseteq live
                       /\ \A t \in ports : regs'[t] = HardwareSlots(table')
<1>1. TInv /\ [Next]_vars => [A]_vars
    <2> SUFFICES ASSUME TInv, Next, HardwareSlots(table') # HardwareSlots(table)
                 PROVE  /\ ports # {} /\ ports \subseteq live
                        /\ \A t \in ports : regs'[t] = HardwareSlots(table')
        OBVIOUS
    <2>1. CASE Operation
        BY <2>1, OperationTogether
           DEF Together, ApplySucceeds, WriteThreads, TInv, ThreadsTyped
    <2>2. CASE Threading
        BY <2>2 DEF Threading, RefreshThreads, ApplyToThread, ThreadStart,
                    ThreadExit
    <2> QED
        BY <2>1, <2>2 DEF Next
<1> QED
    BY <1>1, TableInvariant, PTL DEF Spec, HardwareChangesTogether
=============================================================================

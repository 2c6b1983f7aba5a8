--------------------------- MODULE ModuleInitProofs ---------------------------
(***************************************************************************)
(* What ModuleInit promises, for any number of processes and of loads.     *)
(***************************************************************************)
EXTENDS ModuleInit, TLAPS

(* What the rungs before the k-th acquire.                                 *)
Below(k) == { Ladder[j] : j \in 1 .. k - 1 }

(* What may be there when the unwinding has come to place k: what it still *)
(* goes through, and what it never gives back.                             *)
Rest(k) == { Unwind[j] : j \in k .. 7 } \cup { "proc", "device", "queue" }

Ours == Resource \ {"proc"}

(* On the way up a load holds the rungs below, but for the /proc entry.    *)
Climbing ==
  phase = "init" =>
    /\ at \in 1 .. 12 /\ inside = early
    /\ held \subseteq Below(at) /\ Below(at) \ {"proc"} \subseteq held

(* On the way down, only a load that lacks a thread holds more than what   *)
(* is left to unwind.                                                      *)
Unwinding ==
  phase = "undo" =>
    /\ at \in 1 .. 8 /\ inside = early
    /\ "thread" \notin held /\ MapsInsideRegions
    /\ held \subseteq Rest(at) \/ (at = 8 /\ noThread)

Living == phase = "live" => Ours \subseteq held

Cleaning ==
  phase = "cleanup" =>
    /\ inside = {} /\ at \in 1 .. 12
    /\ held \subseteq {"queue"} \cup { Cleanup[j] : j \in at .. 11 }
    /\ {"queue"} \cup { Cleanup[j] : j \in at .. 10 } \subseteq held

Leaving == ~noThread => left \subseteq { "proc", "device" }

IInv ==
  TypeOK /\ Climbing /\ Unwinding /\ Living /\ Cleaning /\ Leaving

-----------------------------------------------------------------------------
(* The lists, element by element.                                          *)
LEMMA LadderIs ==
  /\ Ladder[1] = "proc" /\ Ladder[2] = "chrdev" /\ Ladder[3] = "class"
  /\ Ladder[4] = "device" /\ Ladder[5] = "queue" /\ Ladder[6] = "gpioMem"
  /\ Ladder[7] = "gpioMap" /\ Ladder[8] = "clockMem"
  /\ Ladder[9] = "clockMap" /\ Ladder[10] = "timerMem"
  /\ Ladder[11] = "timerMap" /\ Ladder[12] = "thread"
BY DEF Ladder

LEMMA UnwindIs ==
  /\ Unwind[1] = "timerMem" /\ Unwind[2] = "clockMap"
  /\ Unwind[3] = "clockMem" /\ Unwind[4] = "gpioMap"
  /\ Unwind[5] = "gpioMem" /\ Unwind[6] = "class" /\ Unwind[7] = "chrdev"
BY DEF Unwind

LEMMA CleanupIs ==
  /\ Cleanup[1] = "thread" /\ Cleanup[2] = "gpioMap"
  /\ Cleanup[3] = "clockMap" /\ Cleanup[4] = "timerMap"
  /\ Cleanup[5] = "timerMem" /\ Cleanup[6] = "clockMem"
  /\ Cleanup[7] = "gpioMem" /\ Cleanup[8] = "device"
  /\ Cleanup[9] = "class" /\ Cleanup[10] = "chrdev" /\ Cleanup[11] = "proc"
BY DEF Cleanup

(* One rung more below.                                                    *)
LEMMA BelowGrows ==
  ASSUME NEW k \in 1 .. 12
  PROVE  /\ Below(k + 1) = Below(k) \cup { Ladder[k] }
         /\ Ladder[k] \in Resource /\ Below(k) \subseteq Resource
BY DEF Below, Resource

LEMMA BelowEnds == Below(1) = {} /\ Below(13) = Resource
BY DEF Below, Resource

(* One place less to unwind.                                               *)
LEMMA RestShrinks ==
  ASSUME NEW k \in 1 .. 7
  PROVE  Rest(k) \ { Unwind[k] } \subseteq Rest(k + 1)
BY DEF Rest

(* What a failing rung has below it, the place it jumps to unwinds, but for*)
(* the thread.                                                             *)
LEMMA JumpsRight ==
  ASSUME NEW k \in 1 .. 12, Ladder[k] \notin { "proc", "queue" }
  PROVE  /\ UndoFrom(Ladder[k]) \in 1 .. 8
         /\ Ladder[k] # "thread" => Below(k) \subseteq Rest(UndoFrom(Ladder[k]))
         /\ Ladder[k] = "thread" => UndoFrom(Ladder[k]) = 8
<1>1. k = 2 \/ k = 3 \/ k = 4 \/ k = 6 \/ k = 7 \/ k = 8 \/ k = 9 \/ k = 10
        \/ k = 11 \/ k = 12
  BY LadderIs
<1>2. UndoFrom("thread") = 8 /\ UndoFrom("chrdev") = 8 /\ UndoFrom("class") = 7
        /\ UndoFrom("device") = 6 /\ UndoFrom("gpioMem") = 6
        /\ UndoFrom("gpioMap") = 5 /\ UndoFrom("clockMem") = 4
        /\ UndoFrom("clockMap") = 3 /\ UndoFrom("timerMem") = 2
        /\ UndoFrom("timerMap") = 1
  BY DEF UndoFrom
<1>3. UndoFrom(Ladder[k]) \in 1 .. 8
  BY <1>1, <1>2, LadderIs
<1>4. ASSUME Ladder[k] # "thread", NEW j \in 1 .. k - 1
      PROVE  Ladder[j] \in Rest(UndoFrom(Ladder[k]))
  <2>1. CASE k \in 2 .. 6
    <3>1. Rest(6) = { Unwind[6], Unwind[7], "proc", "device", "queue" }
      BY DEF Rest
    <3>2. Rest(7) = { Unwind[7], "proc", "device", "queue" }
      BY DEF Rest
    <3>3. {"proc", "device", "queue"} \subseteq Rest(8)
      BY DEF Rest
    <3> QED BY <1>1, <1>2, <2>1, <3>1, <3>2, <3>3, LadderIs, UnwindIs
  <2>2. CASE k \in 7 .. 9
    <3>1. { Unwind[5], Unwind[6], Unwind[7], "proc", "device", "queue" }
            \subseteq Rest(5)
      BY DEF Rest
    <3>2. Rest(5) \cup { Unwind[4] } \subseteq Rest(4)
      BY DEF Rest
    <3>3. Rest(4) \cup { Unwind[3] } \subseteq Rest(3)
      BY DEF Rest
    <3> QED BY <1>1, <1>2, <2>2, <3>1, <3>2, <3>3, LadderIs, UnwindIs
  <2>3. CASE k \in 10 .. 11
    <3>1. { Unwind[2], Unwind[3], Unwind[4], Unwind[5], Unwind[6], Unwind[7],
            "proc", "device", "queue" } \subseteq Rest(2)
      BY DEF Rest
    <3>2. Rest(2) \cup { Unwind[1] } \subseteq Rest(1)
      BY DEF Rest
    <3> QED BY <1>1, <1>2, <2>3, <3>1, <3>2, LadderIs, UnwindIs
  <2> QED BY <1>1, <1>4, <2>1, <2>2, <2>3, LadderIs
<1> QED BY <1>1, <1>2, <1>3, <1>4, LadderIs DEF Below

(* A load on its way up has a region for every mapping.                    *)
LEMMA ClimbingMaps ==
  ASSUME phase = "init", Climbing
  PROVE  /\ MapsInsideRegions /\ "thread" \notin held
         /\ Ladder[at] = "thread" => Ours \ {"thread"} \subseteq held
<1>1. /\ "gpioMap" \in Below(at) => "gpioMem" \in Below(at)
      /\ "clockMap" \in Below(at) => "clockMem" \in Below(at)
      /\ "timerMap" \in Below(at) => "timerMem" \in Below(at)
      /\ "thread" \notin Below(at)
  BY LadderIs DEF Below, Climbing
<1>2. Ladder[at] = "thread" => Resource \ {"thread"} \subseteq Below(at)
  <2>1. SUFFICES ASSUME Ladder[at] = "thread" PROVE at = 12
    <3>1. Below(13) = Below(12) \cup {"thread"}
      BY BelowGrows, LadderIs
    <3> QED BY <3>1, BelowEnds
  <2> QED BY <2>1, LadderIs DEF Climbing
<1> QED BY <1>1, <1>2 DEF MapsInsideRegions, Climbing, Ours

-----------------------------------------------------------------------------
LEMMA Start == Init => IInv
<1> SUFFICES ASSUME Init PROVE IInv
  OBVIOUS
<1>1. noThread \in BOOLEAN
  BY Zenon DEF Init
<1>2. TypeOK
  BY <1>1, LoadAssumption DEF Init, TypeOK
<1>3. Climbing /\ Unwinding /\ Living /\ Cleaning
  BY DEF Init, Climbing, Unwinding, Living, Cleaning
<1> QED BY <1>2, <1>3 DEF IInv, Leaving, Init

LEMMA InsmodStep == IInv /\ Insmod => IInv'
BY BelowEnds, LoadAssumption
   DEF IInv, TypeOK, Climbing, Unwinding, Living, Cleaning, Leaving, Insmod,
       Ours, Below, Resource

(* A rung is added to those below, and the last one makes a live module.   *)
LEMMA AcquireStep == IInv /\ Acquire => IInv'
<1> SUFFICES ASSUME IInv, Acquire PROVE IInv'
  OBVIOUS
<1> USE DEF IInv
<1>1. /\ at \in 1 .. 12 /\ Ladder[at] \in Resource /\ inside = early
      /\ Below(at + 1) = Below(at) \cup { Ladder[at] }
      /\ held' \subseteq Below(at + 1)
      /\ Below(at + 1) \ {"proc"} \subseteq held'
  BY BelowGrows DEF Climbing, Acquire
<1>2. held' \subseteq Resource
  BY <1>1, BelowGrows DEF Climbing, Acquire
<1>3. CASE Ladder[at] = "thread"
  <2>1. Ours \subseteq held'
    BY <1>1, <1>3, ClimbingMaps DEF Acquire, Ours
  <2> QED
    BY <1>2, <1>3, <2>1
       DEF Acquire, TypeOK, Climbing, Unwinding, Living, Cleaning, Leaving
<1>4. CASE Ladder[at] # "thread"
  <2>1. at + 1 \in 1 .. 12
    BY <1>1, <1>4, LadderIs
  <2>2. phase' = "init" /\ at' = at + 1 /\ inside' = early'
    BY <1>1, <1>4 DEF Acquire
  <2>3. Climbing'
    BY <1>1, <2>1, <2>2 DEF Climbing, Below
  <2> QED
    BY <1>2, <2>1, <2>2, <2>3
       DEF Acquire, TypeOK, Unwinding, Living, Cleaning, Leaving
<1> QED BY <1>3, <1>4

LEMMA FailStep == IInv /\ Fail => IInv'
<1> SUFFICES ASSUME IInv, Fail PROVE IInv'
  OBVIOUS
<1> USE DEF IInv
<1>1. at \in 1 .. 12 /\ Ladder[at] \notin { "proc", "queue" }
  BY DEF Fail, Climbing
<1>2. /\ UndoFrom(Ladder[at]) \in 1 .. 8
      /\ Ladder[at] # "thread" => Below(at) \subseteq Rest(UndoFrom(Ladder[at]))
      /\ Ladder[at] = "thread" => UndoFrom(Ladder[at]) = 8
  BY <1>1, JumpsRight
<1>3. MapsInsideRegions /\ "thread" \notin held
  BY ClimbingMaps DEF Fail
<1>4. MapsInsideRegions' /\ "thread" \notin held'
  BY <1>3 DEF Fail, MapsInsideRegions
<1>5. Unwinding'
  <2>1. phase' = "undo" /\ at' = UndoFrom(Ladder[at]) /\ inside' = early'
    BY DEF Fail, Climbing
  <2>2. held' \subseteq Rest(at') \/ (at' = 8 /\ noThread')
    BY <1>2, <2>1 DEF Fail, Climbing
  <2> QED BY <1>2, <1>4, <2>1, <2>2 DEF Unwinding, Rest
<1> QED
  BY <1>2, <1>5 DEF Fail, TypeOK, Climbing, Living, Cleaning, Leaving

(* A mapping goes before its region.                                       *)
LEMMA UndoStep == IInv /\ Undo => IInv'
<1> SUFFICES ASSUME IInv, Undo PROVE IInv'
  OBVIOUS
<1> USE DEF IInv
<1>1. at \in 1 .. 7 /\ held \subseteq Rest(at) /\ MapsInsideRegions
  BY DEF Undo, Unwinding
<1>2. held' = held \ { Unwind[at] } /\ held' \subseteq Rest(at + 1)
  BY <1>1, RestShrinks DEF Undo
<1>3. MapsInsideRegions'
  <2>1. CASE at = 5
    <3>1. "gpioMap" \notin Rest(5)
      BY UnwindIs DEF Rest
    <3> QED BY <1>1, <1>2, <2>1, <3>1, UnwindIs DEF MapsInsideRegions
  <2>2. CASE at = 3
    <3>1. "clockMap" \notin Rest(3)
      BY UnwindIs DEF Rest
    <3> QED BY <1>1, <1>2, <2>2, <3>1, UnwindIs DEF MapsInsideRegions
  <2>3. CASE at = 1
    <3>1. "timerMap" \notin Rest(1)
      BY UnwindIs DEF Rest
    <3> QED BY <1>1, <1>2, <2>3, <3>1, UnwindIs DEF MapsInsideRegions
  <2>4. CASE at \notin { 1, 3, 5 }
    BY <1>1, <1>2, <2>4, UnwindIs DEF MapsInsideRegions
  <2> QED BY <2>1, <2>2, <2>3, <2>4
<1>4. Unwinding'
  <2>1. phase' = "undo" /\ at' = at + 1 /\ inside' = early'
          /\ "thread" \notin held'
    BY DEF Undo, Unwinding
  <2>2. held' \subseteq Rest(at')
    BY <1>2, <2>1
  <2> QED BY <1>1, <1>3, <2>1, <2>2 DEF Unwinding, Rest
<1> QED
  BY <1>1, <1>4 DEF Undo, TypeOK, Climbing, Living, Cleaning, Leaving

LEMMA UndoneStep == IInv /\ Undone => IInv'
<1> SUFFICES ASSUME IInv, Undone PROVE IInv'
  OBVIOUS
<1> USE DEF IInv
<1>1. held \subseteq Rest(8) \/ noThread
  BY DEF Undone, Unwinding
<1>2. Rest(8) = { "proc", "device", "queue" }
  BY DEF Rest
<1>3. Leaving'
  BY <1>1, <1>2 DEF Undone, Leaving
<1> QED
  BY <1>3 DEF Undone, TypeOK, Climbing, Unwinding, Living, Cleaning

LEMMA RmmodStep == IInv /\ Rmmod => IInv'
<1> SUFFICES ASSUME IInv, Rmmod PROVE IInv'
  OBVIOUS
<1> USE DEF IInv
<1>1. /\ Resource = {"queue"} \cup { Cleanup[j] : j \in 1 .. 11 }
      /\ Ours = {"queue"} \cup { Cleanup[j] : j \in 1 .. 10 }
  <2>1. Resource = { "proc", "chrdev", "class", "device", "queue", "gpioMem",
                     "gpioMap", "clockMem", "clockMap", "timerMem",
                     "timerMap", "thread" }
    BY LadderIs DEF Resource
  <2> QED BY <2>1, CleanupIs DEF Ours
<1>2. Cleaning'
  BY <1>1 DEF Rmmod, Living, Cleaning, TypeOK
<1> QED
  BY <1>2 DEF Rmmod, TypeOK, Climbing, Unwinding, Living, Leaving

(* No place of the list is there twice.                                    *)
LEMMA ReleaseStep == IInv /\ Release => IInv'
<1> SUFFICES ASSUME IInv, Release PROVE IInv'
  OBVIOUS
<1> USE DEF IInv
<1>1. at \in 1 .. 11 /\ held' = held \ { Cleanup[at] } /\ at' = at + 1
        /\ phase' = "cleanup" /\ inside' = {}
  BY DEF Release, Cleaning
<1>2. held' \subseteq {"queue"} \cup { Cleanup[j] : j \in at' .. 11 }
  BY <1>1 DEF Cleaning, Release
<1>3. {"queue"} \cup { Cleanup[j] : j \in at' .. 10 } \subseteq held'
  <2>1. "queue" \in held'
    BY <1>1, CleanupIs DEF Cleaning, Release
  <2>2. ASSUME NEW j \in at' .. 10 PROVE Cleanup[j] \in held'
    <3>1. Cleanup[j] \in held
      BY <1>1, <2>2 DEF Cleaning, Release
    <3>2. at \in 1 .. 10 /\ j \in at + 1 .. 10
      BY <1>1, <2>2
    <3>3. Cleanup[j] # Cleanup[at]
      BY <3>2, CleanupIs
    <3> QED BY <1>1, <3>1, <3>3
  <2> QED BY <2>1, <2>2
<1>4. Cleaning'
  BY <1>1, <1>2, <1>3 DEF Cleaning
<1> QED
  BY <1>1, <1>4
     DEF Release, TypeOK, Climbing, Unwinding, Living, Leaving

LEMMA ReleasedStep == IInv /\ Released => IInv' /\ left' \subseteq left
<1> SUFFICES ASSUME IInv, Released PROVE IInv' /\ left' \subseteq left
  OBVIOUS
<1> USE DEF IInv
<1>1. held \subseteq {"queue"}
  BY DEF Released, Cleaning
<1>2. left' \subseteq left
  BY <1>1 DEF Released
<1>3. inside' = {} /\ early' = {}
  BY DEF Released, Cleaning, TypeOK
<1> QED
  BY <1>2, <1>3
     DEF Released, TypeOK, Climbing, Unwinding, Living, Cleaning, Leaving

LEMMA UserStep ==
  ASSUME NEW u \in Users PROVE IInv /\ (Open(u) \/ Close(u)) => IInv'
<1> SUFFICES ASSUME IInv, Open(u) \/ Close(u) PROVE IInv'
  OBVIOUS
<1> USE DEF IInv
<1>1. UNCHANGED << phase, at, held, left, noThread, loads >>
  BY DEF Open, Close
<1>2. early' \subseteq inside' /\ inside' \cup stranded' \subseteq Users
  BY DEF Open, Close, TypeOK
<1>3. phase = "init" \/ phase = "undo" => inside' = early'
  BY DEF Open, Close, Climbing, Unwinding
<1>4. phase = "out" \/ phase = "cleanup" => inside' = {}
  BY DEF Open, Close, Cleaning, TypeOK
<1>5. TypeOK'
  BY <1>1, <1>2, <1>4 DEF TypeOK
<1>6. Climbing' /\ Living' /\ Cleaning'
  BY <1>1, <1>3, <1>4 DEF Climbing, Living, Cleaning, Below
<1>7. Unwinding'
  BY <1>1, <1>3 DEF Unwinding, Rest, MapsInsideRegions
<1> QED BY <1>1, <1>5, <1>6, <1>7 DEF Leaving

LEMMA Inductive == IInv /\ [Next]_vars => IInv'
<1> SUFFICES ASSUME IInv, [Next]_vars PROVE IInv'
  OBVIOUS
<1>1. CASE UNCHANGED vars
  BY <1>1
     DEF vars, IInv, TypeOK, Climbing, Unwinding, Living, Cleaning, Leaving,
         Below, Rest, MapsInsideRegions
<1> QED
  BY <1>1, InsmodStep, AcquireStep, FailStep, UndoStep, UndoneStep,
     RmmodStep, ReleaseStep, ReleasedStep, UserStep DEF Next

LEMMA Always == Spec => []IInv
BY Start, Inductive, PTL DEF Spec

-----------------------------------------------------------------------------
(* The variables keep to their types.                                      *)
THEOREM TypeCorrect == Spec => []TypeOK
<1>1. IInv => TypeOK
  BY DEF IInv
<1> QED BY <1>1, Always, PTL

(* The thread never runs without the queue and the pins.                   *)
THEOREM ThreadSafe == Spec => []ThreadHasPins
<1>1. IInv => ThreadHasPins
  <2> SUFFICES ASSUME IInv, "thread" \in held PROVE ThreadHasPins
    BY DEF ThreadHasPins
  <2> USE DEF IInv
  <2>1. phase # "out"
    BY DEF TypeOK
  <2>2. phase # "init" /\ phase # "undo"
    BY ClimbingMaps DEF Unwinding
  <2>3. CASE phase = "live"
    <3>1. { "queue", "gpioMem", "gpioMap" } \subseteq Ours
      BY LadderIs DEF Ours, Resource
    <3> QED BY <2>3, <3>1 DEF Living, ThreadHasPins
  <2>4. CASE phase = "cleanup"
    <3>1. \E j \in at .. 11 : Cleanup[j] = "thread"
      BY <2>4 DEF Cleaning
    <3>2. at = 1
      BY <2>4, <3>1, CleanupIs DEF Cleaning
    <3> QED BY <2>4, <3>2, CleanupIs DEF Cleaning, ThreadHasPins
  <2> QED BY <2>1, <2>2, <2>3, <2>4 DEF TypeOK
<1> QED BY <1>1, Always, PTL

(* No mapping outlives its region, whichever rung fails.                   *)
THEOREM MapsSafe == Spec => []MapsInsideRegions
<1>1. IInv => MapsInsideRegions
  <2> SUFFICES ASSUME IInv PROVE MapsInsideRegions
    OBVIOUS
  <2> USE DEF IInv
  <2>1. CASE phase = "out"
    BY <2>1 DEF TypeOK, MapsInsideRegions
  <2>2. CASE phase = "init" \/ phase = "undo"
    BY <2>2, ClimbingMaps DEF Unwinding
  <2>3. CASE phase = "live"
    <3>1. Regions \subseteq Ours
      BY LadderIs DEF Ours, Resource, Regions
    <3> QED BY <2>3, <3>1 DEF Living, MapsInsideRegions, Regions
  <2>4. CASE phase = "cleanup"
    <3>1. at <= 5 => "timerMem" \in held
      BY <2>4, CleanupIs DEF Cleaning
    <3>2. at <= 6 => "clockMem" \in held
      BY <2>4, CleanupIs DEF Cleaning
    <3>3. at <= 7 => "gpioMem" \in held
      BY <2>4, CleanupIs DEF Cleaning
    <3>4. /\ "timerMap" \in held => at <= 5
          /\ "clockMap" \in held => at <= 6
          /\ "gpioMap" \in held => at <= 7
      BY <2>4, CleanupIs DEF Cleaning
    <3> QED BY <3>1, <3>2, <3>3, <3>4 DEF MapsInsideRegions
  <2> QED BY <2>1, <2>2, <2>3, <2>4 DEF TypeOK
<1> QED BY <1>1, Always, PTL

(* The device of a loaded module stays whole under those who opened it.    *)
THEOREM UsersSafe == Spec => []UsersAreServed
<1>1. IInv => UsersAreServed
  BY DEF IInv, TypeOK, Climbing, Unwinding, Living, Cleaning, UsersAreServed,
         Ours
<1> QED BY <1>1, Always, PTL

(* A load that failed for anything but a thread keeps no region and no     *)
(* mapping.                                                                *)
THEOREM LittleIsLeft == Spec => []FailedLoadLeaves
<1>1. IInv => FailedLoadLeaves
  BY DEF IInv, Leaving, FailedLoadLeaves
<1> QED BY <1>1, Always, PTL

(* An unload leaves nothing that was not there before.                     *)
THEOREM CleanUnload == Spec => CleanCycle
<1>1. IInv /\ [Next]_vars =>
        [phase = "cleanup" /\ phase' = "out" => left' \subseteq left]_vars
  <2> SUFFICES ASSUME IInv, Next, phase = "cleanup", phase' = "out"
               PROVE  left' \subseteq left
    OBVIOUS
  <2>1. CASE Released
    BY <2>1, ReleasedStep
  <2>2. CASE Release
    BY <2>2 DEF Release
  <2> QED
    BY <2>1, <2>2
       DEF Next, Insmod, Acquire, Fail, Undo, Undone, Rmmod, Open, Close
<1> QED BY <1>1, Always, PTL DEF Spec, CleanCycle
=============================================================================

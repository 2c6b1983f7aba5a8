----------------------------- MODULE ModuleInit -----------------------------
(***************************************************************************)
(* Loading and unloading the kernel module, module/src/sidpi.c: the ladder *)
(* of things _sid_init_module acquires, the labels it falls through when a *)
(* rung fails, the list _sid_cleanup_module releases, and the processes    *)
(* that open the device meanwhile.  insmod may be run again: what an       *)
(* earlier load left behind is still there, and a class, a device or a     *)
(* memory region that is still there cannot be had again.                  *)
(***************************************************************************)
EXTENDS Integers, Sequences

CONSTANTS
  Users,      (* processes that open the device                            *)
  MaxLoads    (* bound: times insmod is run                                *)

ASSUME LoadAssumption == MaxLoads \in Nat

(* In the order of the code.  "queue" is the kfifo, the wait queues and    *)
(* the semaphores; "thread" includes the pins, the tables and the clock,   *)
(* which are set up just before it.                                        *)
Ladder == << "proc", "chrdev", "class", "device", "queue", "gpioMem",
             "gpioMap", "clockMem", "clockMap", "timerMem", "timerMap",
             "thread" >>

Resource == { Ladder[k] : k \in 1 .. 12 }
Regions  == { "gpioMem", "clockMem", "timerMem" }
OnlyOnce == { "class", "device" } \cup Regions
Undoable == { "chrdev", "class" } \cup Regions \cup { "gpioMap", "clockMap" }

(* Fault: the GPIO region goes before its mapping.                         *)
UnwindSwapped == << "timerMem", "clockMap", "clockMem", "gpioMem", "gpioMap",
                    "class", "chrdev" >>

(* Every failing rung but the last enters this list at a place of its own. *)
Unwind == << "timerMem", "clockMap", "clockMem", "gpioMap", "gpioMem",
             "class", "chrdev" >>

(* Fault: a failed request for the timer keeps the clock's mapping.        *)
UndoFromTooLate(rung) ==
  CASE rung = "timerMap" -> 1 [] rung = "timerMem" -> 4
    [] rung = "clockMap" -> 3 [] rung = "clockMem" -> 4
    [] rung = "gpioMap"  -> 5 [] rung \in { "gpioMem", "device" } -> 6
    [] rung = "class"    -> 7 [] OTHER -> 8

(* When there is no thread the load fails on the spot.                     *)
UndoFrom(rung) ==
  CASE rung = "timerMap" -> 1 [] rung = "timerMem" -> 2
    [] rung = "clockMap" -> 3 [] rung = "clockMem" -> 4
    [] rung = "gpioMap"  -> 5 [] rung \in { "gpioMem", "device" } -> 6
    [] rung = "class"    -> 7 [] OTHER -> 8

(* Fault: the thread is stopped last.                                      *)
CleanupThreadLast ==
  << "gpioMap", "clockMap", "timerMap", "timerMem", "clockMem", "gpioMem",
     "device", "class", "chrdev", "proc", "thread" >>

(* Fault: the clock's region is released twice, the GPIO's not at all.     *)
CleanupTypo ==
  << "thread", "gpioMap", "clockMap", "timerMap", "timerMem", "clockMem",
     "clockMem", "device", "class", "chrdev", "proc" >>

Cleanup ==
  << "thread", "gpioMap", "clockMap", "timerMap", "timerMem", "clockMem",
     "gpioMem", "device", "class", "chrdev", "proc" >>

VARIABLES
  phase,       (* where insmod or rmmod is                                 *)
  at,          (* the rung of Ladder, or the place in Unwind or Cleanup    *)
  held,        (* what this load has acquired and not released             *)
  left,        (* what earlier loads left behind                           *)
  inside,      (* the processes that have the device open                  *)
  early,       (* those of them that opened it before the load was over    *)
  stranded,    (* those that had it open when their load failed            *)
  noThread,    (* history: a load failed for want of a thread              *)
  loads

vars == << phase, at, held, left, inside, early, stranded, noThread, loads >>

Init ==
  /\ phase = "out" /\ at = 1
  /\ held = {} /\ left = {}
  /\ inside = {} /\ early = {} /\ stranded = {}
  /\ noThread = FALSE
  /\ loads = 0

Insmod ==
  /\ phase = "out" /\ loads < MaxLoads
  /\ phase' = "init" /\ at' = 1
  /\ loads' = loads + 1
  /\ UNCHANGED << held, left, inside, early, stranded, noThread >>

(* A rung succeeds.  Nobody looks at what proc_create returns: without an  *)
(* entry, or with the one an earlier load left, the load goes on.          *)
Acquire ==
  /\ phase = "init"
  /\ Ladder[at] \in OnlyOnce => Ladder[at] \notin left
  /\ \/ held' = held \cup { Ladder[at] } /\ Ladder[at] \notin left \cap {"proc"}
     \/ held' = held /\ Ladder[at] = "proc"
  /\ phase' = IF Ladder[at] = "thread" THEN "live" ELSE "init"
  /\ at' = IF Ladder[at] = "thread" THEN 1 ELSE at + 1
  /\ UNCHANGED << left, inside, early, stranded, noThread, loads >>

Fail ==
  /\ phase = "init"
  /\ Ladder[at] \notin { "proc", "queue" }
  /\ phase' = "undo"
  /\ at' = UndoFrom(Ladder[at])
  /\ noThread' = (noThread \/ Ladder[at] = "thread")
  /\ UNCHANGED << held, left, inside, early, stranded, loads >>

Undo ==
  /\ phase = "undo" /\ at <= 7
  /\ held' = held \ { Unwind[at] }
  /\ at' = at + 1
  /\ UNCHANGED << phase, left, inside, early, stranded, noThread, loads >>

(* insmod gets its error, and the kernel drops the module.                 *)
Undone ==
  /\ phase = "undo" /\ at = 8
  /\ phase' = "out" /\ at' = 1
  /\ left' = left \cup (held \ {"queue"})
  /\ held' = {}
  /\ stranded' = stranded \cup inside
  /\ inside' = {} /\ early' = {}
  /\ UNCHANGED << noThread, loads >>

(* Fault: the file operations do not name the module that owns them.       *)
RmmodInUse ==
  /\ phase = "live"
  /\ phase' = "cleanup" /\ at' = 1
  /\ UNCHANGED << held, left, inside, early, stranded, noThread, loads >>

(* The kernel refuses it while the device of its owner is open.            *)
Rmmod ==
  /\ phase = "live" /\ inside = {}
  /\ phase' = "cleanup" /\ at' = 1
  /\ UNCHANGED << held, left, inside, early, stranded, noThread, loads >>

(* kthread_stop returns when the thread has.  A /proc entry goes by its    *)
(* name, whoever made it.                                                  *)
Release ==
  /\ phase = "cleanup" /\ at <= 11
  /\ held' = held \ { Cleanup[at] }
  /\ left' = left \ ({ Cleanup[at] } \cap {"proc"})
  /\ at' = at + 1
  /\ UNCHANGED << phase, inside, early, stranded, noThread, loads >>

Released ==
  /\ phase = "cleanup" /\ at = 12
  /\ phase' = "out" /\ at' = 1
  /\ left' = left \cup (held \ {"queue"})
  /\ held' = {}
  /\ UNCHANGED << inside, early, stranded, noThread, loads >>

(* A registered device can be opened, by a node made with mknod, before    *)
(* the load is over.                                                       *)
Open(u) ==
  /\ u \notin inside \cup stranded
  /\ phase \in { "init", "live" } /\ "chrdev" \in held
  /\ inside' = inside \cup {u}
  /\ early' = IF phase = "init" THEN early \cup {u} ELSE early
  /\ UNCHANGED << phase, at, held, left, stranded, noThread, loads >>

Close(u) ==
  /\ u \in inside
  /\ inside' = inside \ {u}
  /\ early' = early \ {u}
  /\ UNCHANGED << phase, at, held, left, stranded, noThread, loads >>

Next ==
  \/ Insmod \/ Acquire \/ Fail \/ Undo \/ Undone
  \/ Rmmod \/ Release \/ Released
  \/ \E u \in Users : Open(u) \/ Close(u)

Spec == Init /\ [][Next]_vars

-----------------------------------------------------------------------------
TypeOK ==
  /\ phase \in { "out", "init", "undo", "live", "cleanup" }
  /\ at \in 1 .. 12
  /\ held \subseteq Resource /\ left \subseteq Resource
  /\ early \subseteq inside /\ inside \cup stranded \subseteq Users
  /\ noThread \in BOOLEAN
  /\ loads \in 0 .. MaxLoads
  /\ phase = "out" => held = {} /\ inside = {}

(* The thread, which sidThread2 starts on the queue and writes the pins    *)
(* with, runs only while both are there: it is made after them, and        *)
(* stopped before them on the only path that stops it.                     *)
ThreadHasPins ==
  "thread" \in held => { "queue", "gpioMem", "gpioMap" } \subseteq held

(* Memory is mapped only while its region is ours, on every way up and     *)
(* down.                                                                   *)
MapsInsideRegions ==
  /\ "gpioMap"  \in held => "gpioMem"  \in held
  /\ "clockMap" \in held => "clockMem" \in held
  /\ "timerMap" \in held => "timerMem" \in held

(* Whoever opened the device of a loaded module has all of it until he     *)
(* closes it; only a process that came before the load was over can lose   *)
(* it.                                                                     *)
UsersAreServed ==
  inside \ early # {} =>
    /\ phase = "live"
    /\ Resource \ {"proc"} \subseteq held

(* A load that succeeded and its unload leave nothing behind.              *)
CleanCycle ==
  [][phase = "cleanup" /\ phase' = "out" => left' \subseteq left]_vars

(* A failed load gives back all but its /proc entry and its device, unless *)
(* it was the thread that could not be made: what it requested and mapped  *)
(* is free again.  (The device, if it got that far, is in the way of the   *)
(* next load.)                                                             *)
FailedLoadLeaves ==
  phase = "out" /\ ~noThread => left \subseteq { "proc", "device" }
=============================================================================

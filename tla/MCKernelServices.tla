-------------------------- MODULE MCKernelServices --------------------------
(***************************************************************************)
(* Small instances of four parts of the kernel that do not interact, in    *)
(* one state space: a behaviour picks the part that moves and leaves the   *)
(* others as they are.  The dependent objects are a context, two           *)
(* certificates and a handle that can be used again, up to the first       *)
(* attachment that comes late; three objects are left to the sweep; there  *)
(* are four blocks of secure memory.                                       *)
(***************************************************************************)
EXTENDS DependentObjects, ShutdownSweep, SecureMemory, HandleAllocation, TLC

CONSTANTS x1, c1, c2, t1, t2, sign, encrypt

VARIABLE component
Components == {"allocation", "sweep", "memory", "dependents"}

(* The blocks lie in three pages, two of them across a boundary.           *)
FirstPage == <<1, 1, 2, 2>>
LastPage == <<1, 2, 2, 3>>

(* A table of eight entries, two of them of system objects, and a          *)
(* polynomial of that degree; entry 5 is watched.                          *)
Register(size, polynomial) == INSTANCE HandleOrder WITH MAX_NO_OBJECTS <- size, LFSRPOLY <- polynomial
EightSteps == Register(8, 11)!LFSRSteps
ClockTimes == 0..7
LoadsToCreate == 2..8
LoadsToDestroy == 3..8

(* The polynomials of objects.c:77-105, for every size that              *)
(* CONFIG_NUM_OBJECTS allows, and that of the instance: each takes the     *)
(* search through the whole table.                                         *)
Sizes == <<8, 32, 64, 128, 256, 512, 1024, 2048, 4096, 8192, 16384>>
Polynomials == <<11, 37, 67, 131, 285, 529, 1033, 2053, 4179, 8219, 16427>>

ASSUME \A i \in 1..Len(Sizes) :
         GoesRound(Sizes[i], Register(Sizes[i], Polynomials[i])!LFSRSteps, Register(Sizes[i], Polynomials[i])!Turn)

ASSUME HandleAssumption /\ SweepAssumption /\ SecureMemoryAssumption /\ DependentObjectsAssumption

Symmetry == Permutations({t1, t2}) \union Permutations({c1, c2}) \union Permutations({sign, encrypt})

-----------------------------------------------------------------------------
servicesVars == <<component, allocationVars, sweepVars, memoryVars, vars>>

\* What the parts that do not move are: an empty table, or the initial state where there is but one.
AllocationIdle == AllocationInit /\ objectHandle = StartHandle(0)
SweepIdle ==
  /\ live = {} /\ dependentObject = <<>> /\ dependentDevice = <<>> /\ refCount = <<>>
  /\ external = {} /\ holds = <<>> /\ busy = {} /\ stack = <<>>
  /\ depth = 3 /\ at = 1 /\ skipped = <<{}, {}, {}>>

ServicesInit ==
  /\ component \in Components
  /\ IF component = "allocation" THEN AllocationInit ELSE AllocationIdle
  /\ IF component = "sweep" THEN SweepInit ELSE SweepIdle
  /\ MemoryInit
  /\ Init

AllocationStep == component = "allocation" /\ AllocationNext
                  /\ UNCHANGED <<component, sweepVars, memoryVars, vars>>
SweepStep == component = "sweep" /\ SweepNext
             /\ UNCHANGED <<component, allocationVars, memoryVars, vars>>
MemoryStep == component = "memory" /\ MemoryNext
              /\ UNCHANGED <<component, allocationVars, sweepVars, vars>>
DependentsStep == component = "dependents" /\ ~late /\ Next
                  /\ UNCHANGED <<component, allocationVars, sweepVars, memoryVars>>

ServicesNext == AllocationStep \/ SweepStep \/ MemoryStep \/ DependentsStep
ServicesSpec == ServicesInit /\ [][ServicesNext]_servicesVars
=============================================================================

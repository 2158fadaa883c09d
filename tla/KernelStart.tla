---------------------------- MODULE KernelStart ----------------------------
(***************************************************************************)
(* From the disk image to the user program.  The boot record and Pure64    *)
(* copy a window of what follows the boot loader to where the kernel is    *)
(* linked; the kernel copies the modules behind it to their addresses,     *)
(* clears its variables, which begin where the modules lie packed, and     *)
(* calls the first module (Kernel/loader.asm, kernel.c, moduleLoader.c).   *)
(* Memory is counted from the kernel's address.  Copies cannot overlap     *)
(* their sources: the addresses are three megabytes further on.            *)
(***************************************************************************)
EXTENDS Integers, SequencesExt, FiniteSetsExt

CONSTANTS
  KernelBinary,       \* the kernel's cells
  WINDOW,             \* cells that are copied from the disk, 250 KiB
  JUNK,               \* what the cells behind them hold
  bss, endOfKernel    \* from and up to where variables are, by the linker

VARIABLES
  disk,               \* the image
  payload,            \* where the boot loader ends on it
  pc,
  memory,             \* the cells from the kernel's address on
  currentModule,
  moduleCount, i,
  loaded              \* [module address -> cells]

vars == <<pc, memory, currentModule, moduleCount, i, loaded>>

endOfKernelBinary == Len(KernelBinary)
Cells == 0 .. (2 * WINDOW)

(* sampleCodeModuleAddress and sampleDataModuleAddress.                    *)
moduleAddresses == 0 .. 1

KernelStartConstants ==
  /\ WINDOW \in Nat /\ endOfKernelBinary <= bss /\ bss <= endOfKernel

Init ==
  /\ pc = "off" /\ memory = [c \in Cells |-> JUNK]
  /\ currentModule = 0 /\ moduleCount = 0 /\ i = 0
  /\ loaded = [a \in moduleAddresses |-> <<>>]

(* The copy ends with the memory of the screen, wherever the image does.   *)
Pure64 ==
  /\ pc = "off"
  /\ memory' = [c \in Cells |-> IF c < WINDOW /\ payload + c < Len(disk)
                                THEN disk[payload + c + 1] ELSE JUNK]
  /\ pc' = "loader"
  /\ UNCHANGED <<currentModule, moduleCount, i, loaded>>

Phases_Cleared == <<"bss", "modules", "main">>

(* What initializeKernelBinary does, in turn.                              *)
Phases == <<"modules", "bss", "main">>

After(phase) == Phases[CHOOSE n \in 2 .. 3 : Phases[n - 1] = phase]

(* What is not the kernel may do anything.                                 *)
loader ==
  /\ pc = "loader"
  /\ pc' = IF \A c \in 1 .. endOfKernelBinary : memory[c - 1] = KernelBinary[c]
           THEN Phases[1] ELSE "lost"
  /\ currentModule' = endOfKernelBinary
  /\ UNCHANGED <<memory, moduleCount, i, loaded>>

readUint32 == memory[currentModule]

loadModules ==
  /\ pc = "modules" /\ currentModule = endOfKernelBinary
  /\ moduleCount' = readUint32 /\ i' = 0
  /\ currentModule' = currentModule + 1
  /\ UNCHANGED <<pc, memory, loaded>>

(* The count and the sizes are believed.  An address there is no entry for *)
(* is whatever lies behind the array, and a size may lead anywhere.        *)
loadModule ==
  /\ pc = "modules" /\ currentModule > endOfKernelBinary /\ i < moduleCount
  /\ LET first == currentModule + 1
         end   == first + readUint32
     IN IF i \in moduleAddresses /\ end \in Cells
        THEN /\ loaded' = [loaded EXCEPT ![i] = [c \in 1 .. readUint32 |-> memory[first + c - 1]]]
             /\ currentModule' = end /\ i' = i + 1 /\ UNCHANGED pc
        ELSE pc' = "lost" /\ UNCHANGED <<currentModule, i, loaded>>
  /\ UNCHANGED <<memory, moduleCount>>

modulesLoaded ==
  /\ pc = "modules" /\ currentModule > endOfKernelBinary /\ i >= moduleCount
  /\ pc' = After("modules")
  /\ UNCHANGED <<memory, currentModule, moduleCount, i, loaded>>

clearBSS ==
  /\ pc = "bss"
  /\ memory' = [c \in Cells |-> IF c \in bss .. (endOfKernel - 1) THEN 0 ELSE memory[c]]
  /\ pc' = After("bss")
  /\ UNCHANGED <<currentModule, moduleCount, i, loaded>>

(* The call of the first module, if there is one.                          *)
main ==
  /\ pc = "main"
  /\ pc' = IF loaded[0] = <<>> THEN "lost" ELSE "started"
  /\ UNCHANGED <<memory, currentModule, moduleCount, i, loaded>>

Step == Pure64 \/ loader \/ loadModules \/ loadModule \/ modulesLoaded \/ clearBSS \/ main

Spec == Init /\ [][Step]_vars
=============================================================================

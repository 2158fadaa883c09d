------------------------------ MODULE Program ------------------------------
(***************************************************************************)
(* The user program of this commit, which tests the memory manager         *)
(* (Userland/SampleCodeModule: _loader.c, test_mm.c), from the kernel's    *)
(* call of it to its return, and started again after exceptions, by the    *)
(* stack pointer and the address that main saved (Kernel/kernel.c,         *)
(* Interrupt_routines.c).  The kernel's memory manager, which knows        *)
(* nothing of that, is any that keeps the promises of module Allocator, as *)
(* Heap does.  The random sizes are any that GetUniform may give.          *)
(***************************************************************************)
EXTENDS Integers, Sequences

CONSTANTS
  MAX_BLOCKS, MAX_MEMORY,
  MaxRestarts,                     \* bound: exceptions
  Arena, Header, Slack, Need(_)    \* the memory manager's

ASSUME ProgramAssumption ==
  /\ MAX_BLOCKS \in 1 .. 255 /\ MAX_MEMORY \in Nat \ {0} /\ MaxRestarts \in Nat
  /\ Header \in Nat \ {0} /\ Arena \subseteq Nat /\ Slack \in Nat
  /\ \A n \in 1 .. MAX_MEMORY : Need(n) \in Nat /\ Need(n) >= n + Header

NULL == -1
None == -2

VARIABLES
  extent, pending, answer,         \* the memory manager
  byte,                            \* what MemSet has left in the arena
  mm_rqs, total,
  pc,                              \* the next statement, or where a return leads
  i,
  rsp, stack,                      \* the stack below main's stack pointer, 0
  snapshotSP,
  error,                           \* `ERROR!' has been printed
  restarts,
  leaked                           \* ghost: extents held when exceptions struck

manager == <<extent, pending, answer>>
machine == <<rsp, stack, snapshotSP, restarts, leaked>>
locals == <<mm_rqs, total, i>>
vars == <<manager, byte, locals, pc, machine, error>>

MM == INSTANCE Allocator WITH Requests <- 1 .. MAX_MEMORY

Init ==
  /\ MM!Init
  /\ byte = [a \in Arena |-> NULL]
  /\ mm_rqs = <<>> /\ total = 0 /\ i = 1 /\ error = FALSE
  /\ pc = "main"
  /\ rsp = 0 /\ stack = [s \in -2 .. 0 |-> "main's frame"] /\ snapshotSP = 0
  /\ restarts = 0 /\ leaked = {}
-----------------------------------------------------------------------------
(* The kernel's main.                                                      *)

getSP_Callers(sp) == sp

(* What getSP returns when it is called at sp: the stack pointer inside.   *)
getSP(sp) == sp - 1

(* The call of the program leaves its return address where that of getSP   *)
(* was.                                                                    *)
main ==
  /\ pc = "main"
  /\ snapshotSP' = getSP(rsp)
  /\ stack' = [stack EXCEPT ![rsp - 1] = "hang"]
  /\ rsp' = rsp - 1
  /\ pc' = "_start"
  /\ UNCHANGED <<manager, byte, locals, restarts, leaked, error>>

(* The program's frames are one cell; its variables begin as they are      *)
(* declared.                                                               *)
_start ==
  /\ pc = "_start"
  /\ rsp' = rsp - 1 /\ stack' = [stack EXCEPT ![rsp - 1] = "the program's frame"]
  /\ mm_rqs' = <<>> /\ total' = 0 /\ i' = 1
  /\ pc' = "request"
  /\ UNCHANGED <<manager, byte, snapshotSP, restarts, leaked, error>>

(* Return from the program; another return address than main's leads to    *)
(* no code.                                                                *)
return ==
  /\ pc = "done"
  /\ pc' = stack[rsp + 1]
  /\ rsp' = rsp + 2
  /\ UNCHANGED <<manager, byte, locals, stack, snapshotSP, restarts, leaked, error>>
-----------------------------------------------------------------------------
(* test_mm *)

(* GetUniform(max) is below max, and 0 when max is 0.                      *)
GetUniform(max) == IF max = 0 THEN {0} ELSE 0 .. (max - 1)

WantsMore == Len(mm_rqs) < MAX_BLOCKS /\ total < MAX_MEMORY

request ==
  /\ pc = "request" /\ WantsMore
  /\ \E u \in GetUniform(MAX_MEMORY - total - 1) : MM!Ask(u + 1)
  /\ UNCHANGED <<byte, locals, pc, machine, error>>

(* A refusal is reported, kept as NULL and counted all the same.           *)
reply ==
  /\ MM!Grant \/ MM!Refuse
  /\ mm_rqs' = Append(mm_rqs, [address |-> answer', size |-> pending])
  /\ total' = total + pending
  /\ UNCHANGED <<byte, i, pc, machine, error>>

requested ==
  /\ pc = "request" /\ pending = None /\ ~ WantsMore
  /\ pc' = "set"
  /\ UNCHANGED <<manager, byte, locals, machine, error>>

(* The bytes MemSet writes.                                                *)
Filled(r) == r.address .. (r.address + r.size - 1)

memcheck_OnePast(r) == r.address .. (r.address + r.size)

(* The bytes memcheck looks at.                                            *)
memcheck(r) == r.address .. (r.address + r.size - 1)

IsLast_Early == i + 1 >= Len(mm_rqs)

IsLast == i = Len(mm_rqs)

(* The loops go on to the next request, and from the last to the next loop.*)
Advance(to) ==
  /\ i' = IF IsLast THEN 1 ELSE i + 1
  /\ pc' = IF IsLast THEN to ELSE pc
  /\ UNCHANGED <<mm_rqs, total>>

MemSet ==
  /\ pc = "set"
  /\ byte' = IF mm_rqs[i].address = NULL THEN byte
             ELSE [a \in Arena |-> IF a \in Filled(mm_rqs[i]) THEN i ELSE byte[a]]
  /\ Advance("check")
  /\ UNCHANGED <<manager, machine, error>>

check ==
  /\ pc = "check"
  /\ error' = \/ error
              \/ /\ mm_rqs[i].address # NULL
                 /\ \E a \in memcheck(mm_rqs[i]) : byte[a] # i
  /\ Advance("free")
  /\ UNCHANGED <<manager, byte, machine>>

Mfree ==
  /\ pc = "free"
  /\ IF mm_rqs[i].address = NULL THEN UNCHANGED manager
     ELSE MM!Release(mm_rqs[i].address - Header)
  /\ Advance("done")
  /\ UNCHANGED <<byte, machine, error>>

(* An exception between two statements of the program: returnToSnapshot    *)
(* puts two registers back, and nothing else.                              *)
exception ==
  /\ pc \in {"request", "set", "check", "free", "done"} /\ pending = None
  /\ restarts < MaxRestarts /\ restarts' = restarts + 1
  /\ pc' = "_start" /\ rsp' = snapshotSP
  /\ leaked' = DOMAIN extent
  /\ UNCHANGED <<manager, byte, locals, stack, snapshotSP, error>>

Code ==
  \/ main \/ _start \/ return
  \/ request \/ reply \/ requested \/ MemSet \/ check \/ Mfree

Next == Code \/ exception

Spec == Init /\ [][Next]_vars

(* The program runs by itself, and the kernel answers its calls.           *)
FairSpec == Spec /\ WF_vars(Code)
-----------------------------------------------------------------------------
(* Whatever sizes it draws, wherever the manager puts them, and whatever   *)
(* runs of the program before it have left behind, the test finds in every *)
(* block what it wrote there (test_mm.c 30-40).                            *)
NoError == ~ error

(* What is in use is what earlier runs held when an exception struck, and  *)
(* what the present one has been given and has not freed: nothing of its   *)
(* own is lost, nor anything of theirs freed or handed out again           *)
(* (Interrupt_routines.c 63-67, test_mm.c 19-46).                          *)
Held ==
  LET from == IF pc = "free" THEN i ELSE 1 IN
  IF pc \in {"request", "set", "check", "free"}
  THEN {mm_rqs[n].address - Header : n \in {m \in from .. Len(mm_rqs) : mm_rqs[m].address # NULL}}
  ELSE {}
Accounted == DOMAIN extent = leaked \cup Held /\ leaked \cap Held = {}

(* However often it has been started again, the program ends, and its      *)
(* return goes to the kernel's main and from there to the loader's halt:   *)
(* the stack pointer saved before its first call is the one it was called  *)
(* with (kernel.c 58-60, loader.asm 7-12).                                 *)
Halts == <>(pc = "hang" /\ rsp = 0)
=============================================================================

----------------------------- MODULE Exceptions -----------------------------
(***************************************************************************)
(* The interrupt routines, Kernel/interrupts: the timer and the keyboard,  *)
(* whose handlers run when interrupts are on, and the exceptions of the    *)
(* user program, which print the registers and read the keyboard port      *)
(* themselves, interrupts off, until left shift is pressed; then the       *)
(* program starts again.  With CTRL the keyboard handler saves the         *)
(* registers for inforeg, which copies them with interrupts on.  The       *)
(* keyboard and the interrupt controller are external: the controller      *)
(* remembers one interrupt of each line.  What the driver makes of a code  *)
(* is reduced to the flags of the modifiers and the number of characters   *)
(* added; CAPS is off.                                                     *)
(***************************************************************************)
EXTENDS Integers, Sequences, Functions

CONSTANTS
  Modifiers,        \* some of CTRL, LSHIFT, RSHIFT
  Letters,          \* keys that add a character
  REGS,             \* the registers that are saved
  TICKS,            \* of the timer, to a second
  MaxCodes, MaxTicks   \* bounds

NoCode == <<"none", FALSE>>      \* 0xFF, which no key sends

Keys == Modifiers \cup Letters

make(k) == <<k, TRUE>>
break(k) == <<k, FALSE>>

ASSUME ExceptionsAssumption ==
  /\ {"CTRL", "LSHIFT"} \subseteq Modifiers /\ Modifiers \cap Letters = {}
  /\ NoCode[1] \notin Keys
  /\ REGS \in Nat \ {0} /\ TICKS \in Nat \ {0} /\ MaxCodes \in Nat /\ MaxTicks \in Nat

VARIABLES
  held,             \* the keys under a finger
  fifo,             \* codes the keyboard has not yet handed to its port
  port, full,       \* the port's byte, and whether it has not been read
  irr,              \* the interrupts requested, of 0 and 1
  mode,             \* user: interrupts on; exception: the registers are shown
  LCKD,
  size,             \* characters added to the driver's buffer
  regs,             \* the saved registers: the number of times they were saved
  v,                \* the caller's copy of them, as far as getRegs has come
  ticks, seconds,
  sent, pit,        \* ghost: codes sent; ticks of the timer
  presses,          \* ghost: makes of letters sent
  eaten,            \* ghost: those that an exception read
  missed,           \* ghost: modifiers whose last code an exception read
  pressed           \* ghost: a press was handled since getRegs began

keyboard == <<held, fifo, sent, presses>>
controller == <<port, full>>
driver == <<LCKD, size, regs>>
inforeg == <<v, pressed>>
timer == <<ticks, seconds>>
vars == <<keyboard, controller, irr, mode, driver, timer, pit, eaten, missed, inforeg>>

(* As loadIDT leaves things: both lines open, no key down.                 *)
Init ==
  /\ held = {} /\ fifo = <<>> /\ port = NoCode /\ full = FALSE
  /\ irr = {} /\ mode = "user"
  /\ LCKD = [k \in Modifiers |-> FALSE] /\ size = 0 /\ regs = 0
  /\ v = <<>> /\ pressed = FALSE
  /\ ticks = 0 /\ seconds = 0
  /\ sent = 0 /\ pit = 0 /\ presses = 0 /\ eaten = 0 /\ missed = {}
-----------------------------------------------------------------------------
(* The keyboard, its port and the timer.                                   *)

send(code) ==
  /\ sent < MaxCodes
  /\ fifo' = Append(fifo, code)
  /\ sent' = sent + 1
  /\ presses' = IF code[2] /\ code[1] \in Letters THEN presses + 1 ELSE presses
  /\ UNCHANGED <<controller, irr, mode, driver, timer, pit, eaten, missed, inforeg>>

(* A key that is held repeats its make code.                               *)
press(k) == send(make(k)) /\ held' = held \cup {k}

release(k) == k \in held /\ send(break(k)) /\ held' = held \ {k}

load ==
  /\ ~ full /\ fifo # <<>>
  /\ port' = Head(fifo) /\ full' = TRUE /\ fifo' = Tail(fifo)
  /\ irr' = irr \cup {1}
  /\ UNCHANGED <<held, sent, presses, mode, driver, timer, pit, eaten, missed, inforeg>>

(* With interrupts on, a tick is served before the next one comes.         *)
tick ==
  /\ pit < MaxTicks
  /\ mode = "user" => 0 \notin irr
  /\ pit' = pit + 1
  /\ irr' = irr \cup {0}
  /\ UNCHANGED <<keyboard, controller, mode, driver, timer, eaten, missed, inforeg>>
-----------------------------------------------------------------------------
(* The status says whether there is a byte; 0xFFFF, cut to one, is no key. *)
get_key == IF full THEN port ELSE NoCode

(* keyboard_handler                                                        *)

Flags(code) == [k \in Modifiers |-> IF code[1] = k THEN code[2] ELSE LCKD[k]]
Shift(flags) == \E k \in Modifiers \ {"CTRL"} : flags[k]

(* Whether a code saves the registers.                                     *)
Saves(code) == code[2] /\ Flags(code)["CTRL"] /\ ~ Shift(Flags(code))

Takes(code, flags, adds, saves) ==
  /\ LCKD' = flags
  /\ size' = IF adds THEN size + 1 ELSE size
  /\ regs' = IF saves THEN regs + 1 ELSE regs

Adds(code) == code[2] /\ code[1] \in Letters /\ ~ Saves(code)

keyboard_handler_HoldsCtrl(code) ==
  Takes(code, IF code = break("CTRL") THEN LCKD ELSE Flags(code), Adds(code), Saves(code))

keyboard_handler_BothWays(code) ==
  Takes(code, Flags(code), code[1] \in Letters /\ ~ Saves(code), Saves(code))

keyboard_handler_SavesOnRelease(code) ==
  Takes(code, Flags(code), Adds(code), Saves(code) \/ code = break("CTRL"))

keyboard_handler(code) == Takes(code, Flags(code), Adds(code), Saves(code))

Second_Early == ticks % TICKS = 0

Second == (ticks + 1) % TICKS = 0

irq0Handler ==
  /\ mode = "user" /\ 0 \in irr
  /\ irr' = irr \ {0}
  /\ ticks' = ticks + 1
  /\ seconds' = IF Second THEN seconds + 1 ELSE seconds
  /\ UNCHANGED <<keyboard, controller, mode, driver, pit, eaten, missed, inforeg>>

irq1Handler_NotRead ==
  /\ mode = "user" /\ irr = {1}
  /\ irr' = {}
  /\ UNCHANGED <<keyboard, controller, mode, driver, timer, pit, eaten, missed, inforeg>>

(* The timer goes first.                                                   *)
irq1Handler ==
  /\ mode = "user" /\ irr = {1}
  /\ irr' = {}
  /\ keyboard_handler(get_key)
  /\ full' = FALSE
  /\ missed' = missed \ {get_key[1]}
  /\ pressed' = (pressed \/ get_key[2])
  /\ UNCHANGED <<keyboard, port, mode, timer, pit, eaten, v>>

(* getRegs, a word of it; after the last one its caller has the copy, until*)
(* it asks for another.                                                    *)
getRegs ==
  /\ mode = "user"
  /\ v' = IF Len(v) = REGS THEN <<regs>> ELSE Append(v, regs)
  /\ pressed' = (Len(v) \in 1 .. (REGS - 1) /\ pressed)
  /\ UNCHANGED <<keyboard, controller, irr, mode, driver, timer, pit, eaten, missed>>

(* The user program, not in a call of the kernel, divides by zero or       *)
(* executes what is no instruction.                                        *)
exception ==
  /\ mode = "user" /\ Len(v) \in {0, REGS}
  /\ mode' = "exception"
  /\ UNCHANGED <<keyboard, controller, irr, driver, timer, pit, eaten, missed, inforeg>>

Exit_OnBreak == break("LSHIFT")

Exit == make("LSHIFT")

(* One look at the port by printRegister, and the restart.  Whether the    *)
(* interrupt of a byte read this way is still requested is up to the       *)
(* controller.                                                             *)
printRegister ==
  /\ mode = "exception"
  /\ full' = FALSE
  /\ mode' = IF get_key = Exit THEN "user" ELSE mode
  /\ irr' \in {irr, IF full THEN irr \ {1} ELSE irr}
  /\ eaten' = IF full /\ port[2] /\ port[1] \in Letters THEN eaten + 1 ELSE eaten
  /\ missed' = IF full /\ port[1] \in Modifiers THEN missed \cup {port[1]} ELSE missed
  /\ UNCHANGED <<keyboard, port, driver, timer, pit, inforeg>>

Kernel == irq0Handler \/ irq1Handler \/ printRegister

Next ==
  \/ \E k \in Keys : press(k) \/ release(k)
  \/ load \/ tick
  \/ Kernel
  \/ exception \/ getRegs

Spec == Init /\ [][Next]_vars

(* Interrupts come through, the port takes the next code, and an exception *)
(* keeps looking at it.                                                    *)
FairSpec ==
  Spec /\ WF_vars(irq0Handler) /\ WF_vars(irq1Handler) /\ WF_vars(printRegister)
       /\ WF_vars(load)
-----------------------------------------------------------------------------
Codes == {make(k) : k \in Keys} \cup {break(k) : k \in Keys}
OnTheWay == Range(fifo) \cup (IF full THEN {port} ELSE {})

(* Seconds never run ahead of the ticks counted, nor those of the timer's  *)
(* (lines 20-25).                                                          *)
TypeOK ==
  /\ held \subseteq Keys /\ fifo \in Seq(Codes) /\ port \in Codes \cup {NoCode}
  /\ full \in BOOLEAN /\ irr \subseteq {0, 1} /\ mode \in {"user", "exception"}
  /\ LCKD \in [Modifiers -> BOOLEAN] /\ missed \subseteq Modifiers
  /\ size \in 0 .. MaxCodes /\ regs \in 0 .. MaxCodes /\ eaten \in 0 .. MaxCodes
  /\ ticks \in 0 .. pit /\ seconds \in 0 .. (ticks \div TICKS)

(* Once its codes are through, a modifier's flag is the state of its key,  *)
(* unless the last of them went to an exception; the next one that the     *)
(* handler gets puts it right (Interrupt_routines.c 33-37 and 80-85).      *)
FlagsFollowKeys ==
  \A k \in Modifiers \ missed :
    {make(k), break(k)} \cap OnTheWay = {} => LCKD[k] = (k \in held)

(* No press of a letter is added twice, though an exception reads the port *)
(* behind the back of an interrupt that is still to come (interrupts.asm   *)
(* 113-125), and none is lost but to an exception, or to the registers     *)
(* that CTRL saves instead (keyboard_driver.c 109-120).                    *)
TypedOnce ==
  OnTheWay \cap {make(k) : k \in Letters} = {} =>
    size <= presses - eaten /\ presses - eaten <= size + regs

(* The copy that inforeg prints is of one moment, unless a key was pressed *)
(* while it was made; releasing CTRL does not tear it (libasm.asm 42-81).  *)
CopyWhole == Len(v) = REGS /\ ~ pressed => \A i \in 1 .. REGS : v[i] = v[1]

(* Every code is read: a key whose interrupt an exception has used up does *)
(* not leave the port full for ever.                                       *)
NoKeyStuck == full ~> ~ full

(* Left shift ends an exception, whatever was typed before it.             *)
ExitsOnShift ==
  mode = "exception" /\ make("LSHIFT") \in OnTheWay ~> mode = "user"
=============================================================================

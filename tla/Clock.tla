------------------------------- MODULE Clock -------------------------------
(***************************************************************************)
(* The time of day: the conversions of Kernel/lib.c and the shell's        *)
(* get_time, which reads the clock chip in three system calls while the    *)
(* chip goes on counting.                                                  *)
(***************************************************************************)
EXTENDS Numbers

CONSTANTS
  Binary,       \* whether the chip counts in binary; otherwise in BCD
  Hours24,      \* whether its hours are 0 to 23; otherwise 1 to 12, AM and PM
  Starts,       \* the times of day, in seconds, at which a behaviour begins
  MaxTicks      \* bound: seconds that pass in a behaviour

Day == 24 * 3600

ASSUME ClockAssumption ==
  /\ Binary \subseteq BOOLEAN /\ Hours24 \subseteq BOOLEAN
  /\ Starts \subseteq 0 .. (Day - 1)
  /\ MaxTicks \in Nat

VARIABLES
  now,          \* seconds since midnight
  ticks,        \* how many have passed
  binary, hours24,      \* the chip's two mode bits
  regBData,
  shown,        \* the digits get_time has printed: hours, minutes, seconds
  midnight      \* ghost: whether it has passed since the hours were read

mode == <<binary, hours24>>
clock == <<now, ticks, mode, regBData, shown, midnight>>

Hours(t) == t \div 3600
Minutes(t) == (t \div 60) % 60
Seconds(t) == t % 60
Time(t) == <<Hours(t), Minutes(t), Seconds(t)>>

ClockInit ==
  /\ now \in Starts /\ ticks = 0
  /\ binary \in Binary /\ hours24 \in Hours24
  /\ regBData = 0
  /\ shown = <<>> /\ midnight = FALSE

(* The chip.                                                               *)
Encode(n) == IF binary THEN n ELSE 16 * (n \div 10) + (n % 10)

readCMOS(reg) ==
  CASE reg = 0 -> Encode(Seconds(now))
    [] reg = 2 -> Encode(Minutes(now))
    [] reg = 4 -> LET h == Hours(now) IN
                  IF hours24 THEN Encode(h)
                  ELSE Encode(((h + 11) % 12) + 1) + (IF h >= 12 THEN 128 ELSE 0)
    [] reg = 11 -> (IF binary THEN 4 ELSE 0) + (IF hours24 THEN 2 ELSE 0)

tick ==
  /\ ticks < MaxTicks
  /\ ticks' = ticks + 1
  /\ now' = (now + 1) % Day
  /\ midnight' = (midnight \/ now' = 0)
  /\ UNCHANGED <<mode, regBData, shown>>
-----------------------------------------------------------------------------
(* The two mode bits, and one so that 0 means they have not been read.     *)
initialized == IF regBData # 0 THEN regBData ELSE (readCMOS(11) % 8) \div 2 + 1

InBinary(r) == (r - 1) \div 2 = 1
In24(r) == (r - 1) % 2 = 1

FromBCD_LowDigit(b) == (b \div 16) * 8 + (b % 16)

FromBCD(b) == (b \div 16) * 8 + (b \div 16) * 2 + (b % 16)

decode(r, b) == IF InBinary(r) THEN b ELSE FromBCD(b)

readSeconds(r) == decode(r, readCMOS(0))
readMinutes(r) == decode(r, readCMOS(2))

(* An afternoon hour is doubled, in a byte.                                *)
readHours(r) ==
  LET byte == readCMOS(4)
      pm   == byte >= 128
      hour == decode(r, byte % 128)
  IN IF In24(r) THEN decode(r, byte)
     ELSE IF pm /\ hour # 12 THEN (hour * 2) % 256 ELSE hour % 12

Order_Reversed == <<readSeconds(initialized), readMinutes(initialized), readHours(initialized)>>

(* What get_time asks for, in turn.                                        *)
Order == <<readHours(initialized), readMinutes(initialized), readSeconds(initialized)>>

read ==
  /\ Len(shown) < 3
  /\ shown' = Append(shown, draw_number(Order[Len(shown) + 1], 10))
  /\ regBData' = initialized
  /\ midnight' = (shown # <<>> /\ midnight)
  /\ UNCHANGED <<now, ticks, mode>>

(* Another call of get_time.                                               *)
again ==
  /\ Len(shown) = 3
  /\ shown' = <<>>
  /\ UNCHANGED <<now, ticks, mode, regBData, midnight>>

ClockNext == tick \/ read \/ again

ClockSpec == ClockInit /\ [][ClockNext]_clock
-----------------------------------------------------------------------------
(* With a clock of 24 hours what is printed is what the clock shows,       *)
(* whichever way it counts, and the same is true of the minutes, the       *)
(* seconds and the hours before noon of a clock of 12 hours.  A number     *)
(* takes the digits it needs and no more: `9:5:0', of which each part fits *)
(* the driver's buffer (lib.c 65-136, video_driver.c 230-261).             *)
ReadsClock ==
  [][Len(shown') = Len(shown) + 1 /\ (hours24 \/ Hours(now) < 12 \/ Len(shown) > 0) =>
       /\ Numeral(shown'[Len(shown')], 10)
       /\ Value(shown'[Len(shown')], 10) = Time(now)[Len(shown')]]_clock

(* get_time reads from the hours down (shell.c 117-121), so that the time  *)
(* it prints, while not always a time that was, is never ahead of the      *)
(* clock, unless midnight came in between.                                 *)
NeverAhead ==
  Len(shown) = 3 /\ hours24 /\ ~ midnight =>
    3600 * Value(shown[1], 10) + 60 * Value(shown[2], 10) + Value(shown[3], 10) <= now
=============================================================================

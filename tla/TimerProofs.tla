------------------------------ MODULE TimerProofs ------------------------------
(***************************************************************************)
(* Proofs about Timer for halves of any width, any interval and any time   *)
(* between accesses that meet TimerAssumption.                             *)
(*                                                                         *)
(* The invariant has two parts.  Until main is done (Boot), all that       *)
(* happens takes less time than a tick: the interrupt comes once at most,  *)
(* nothing carries, and whichever half main and timer_isr write last, the  *)
(* deadline is an interval after some time already past.  After that only  *)
(* timer_isr runs (Steady), and time between accesses is not bounded any   *)
(* more: what it has read is worth a time of which something is known      *)
(* (Afforded), carry or not.                                               *)
(***************************************************************************)
EXTENDS Timer, TLAPS

Contents == [lo : 0 .. WORD - 1, hi : Nat]

TypeOK ==
    /\ mtime \in Nat /\ sys_tick \in Nat
    /\ mtimecmp \in Contents
    /\ reg \in [Contexts -> Contents]
    /\ stage \in [Contexts -> {"load", "store", "done"}]
    /\ todo \in [Contexts -> SUBSET Halves]
    /\ \A c \in Contexts : stage[c] = "done" <=> todo[c] = {}
    /\ lag \in 0 .. MaxLag

---------------------------------------------------------------------------------
(* Boot *)

Booting == stage["main"] # "done"

(* The accesses a context has still to make. *)
Count(set) == (IF "lo" \in set THEN 1 ELSE 0) + (IF "hi" \in set THEN 1 ELSE 0)
Remaining(c) == Count(todo[c]) + (IF stage[c] = "load" THEN 2 ELSE 0)

(* timer_isr makes four, and its entry counts as another. *)
InterruptRemaining ==
    IF sys_tick > 0 THEN 0 ELSE IF stage["isr"] = "done" THEN 5 ELSE Remaining("isr")

BootIsShort == mtime + MaxLag * (Remaining("main") + InterruptRemaining) <= 9 * MaxLag + lag

Once == sys_tick = 0 \/ (sys_tick = 1 /\ stage["isr"] = "done")

(* A deadline computed by now. *)
DeadlineHalf(half, n) ==
    IF half = "hi" THEN n = 0 ELSE TICK_INTERVAL <= n /\ n <= mtime + TICK_INTERVAL

(* A half of MTIME read by now, before any carry. *)
ReadHalf(half, n) == IF half = "hi" THEN n = 0 ELSE n <= mtime

InRegister(c) ==
    \A half \in Halves :
        /\ stage[c] = "load" /\ half \notin todo[c] => ReadHalf(half, reg[c][half])
        /\ stage[c] = "store" => DeadlineHalf(half, reg[c][half])

Written(half) ==
    \/ stage["main"] = "store" /\ half \notin todo["main"]
    \/ stage["isr"] = "store" /\ half \notin todo["isr"]
    \/ sys_tick > 0

InCompare == \A half \in Halves : Written(half) => DeadlineHalf(half, mtimecmp[half])

Boot == BootIsShort /\ Once /\ InCompare /\ \A c \in Contexts : InRegister(c)

---------------------------------------------------------------------------------
(* Afterwards *)

(* n ticks are no more than one for every interval until then, and one for  *)
(* every carry.                                                             *)
Covered(n, time, carries) == n * TICK_INTERVAL <= time + TICK_INTERVAL * carries

Carries == mtime \div WORD

(* The next tick will be covered, when d is its deadline. *)
Afforded(n, d) == Covered(n, mtime, Carries) \/ Covered(n, Value(d), d.hi)

InSight(d) == Value(d) <= mtime + TICK_INTERVAL + IF mtime < WORD THEN 0 ELSE WORD

(* The half that was read first, and what the time was. *)
LowRead ==
    \E k \in 0 .. Carries :
        /\ k * WORD + reg["isr"].lo <= mtime
        /\ Covered(sys_tick, k * WORD + reg["isr"].lo, k)

HighRead ==
    /\ reg["isr"].hi * WORD <= mtime
    /\ Covered(sys_tick, mtime, reg["isr"].hi)

Loading ==
    /\ Covered(sys_tick, mtime, Carries)
    /\ "lo" \notin todo["isr"] => LowRead
    /\ "hi" \notin todo["isr"] => HighRead

Storing ==
    /\ Covered(sys_tick, mtime, Carries)
    /\ InSight(reg["isr"])
    /\ Afforded(sys_tick + 1, reg["isr"])
    /\ \A half \in Halves \ todo["isr"] : mtimecmp[half] = reg["isr"][half]

Steady ==
    /\ stage["isr"] = "load" => Loading
    /\ stage["isr"] = "store" => Storing
    /\ stage["isr"] = "done" => InSight(mtimecmp) /\ Afforded(sys_tick, mtimecmp)

IInv ==
    /\ TypeOK
    /\ TicksInTime
    /\ IF Booting THEN Boot ELSE Steady

---------------------------------------------------------------------------------
(* Arithmetic *)

LEMMA Positive == WORD \in Nat \ {0} /\ TICK_INTERVAL \in Nat \ {0} /\ MaxLag \in Nat
BY TimerAssumption

LEMMA TimesMonotonic ==
    ASSUME NEW a \in Nat, NEW b \in Nat, NEW c \in Nat, a <= b
    PROVE  a * c <= b * c /\ c * a <= c * b
<1>1. PICK d \in Nat : b = a + d
  <2>1. b - a \in Nat /\ b = a + (b - a)
    OBVIOUS
  <2> QED
    BY <2>1
<1>2. b * c = a * c + d * c /\ d * c \in Nat /\ a * c \in Nat
  BY <1>1
<1>3. c * b = c * a + c * d /\ c * d \in Nat /\ c * a \in Nat
  BY <1>1
<1> QED
  BY <1>2, <1>3

LEMMA Division ==
    ASSUME NEW n \in Nat, NEW c \in Nat \ {0}
    PROVE  /\ n \div c \in Nat /\ n % c \in 0 .. c - 1
           /\ n = (n \div c) * c + (n % c)
OBVIOUS

LEMMA DivAbove ==
    ASSUME NEW n \in Nat, NEW c \in Nat \ {0}, NEW low \in Nat, low * c <= n
    PROVE  low <= n \div c
<1>1. PICK q : q = n \div c
  OBVIOUS
<1>2. q \in Nat /\ n < q * c + c
  BY <1>1, Division
<1>3. SUFFICES ASSUME q + 1 <= low PROVE FALSE
  BY <1>1, <1>2
<1>4. (q + 1) * c <= low * c
  BY <1>2, <1>3, TimesMonotonic
<1>5. (q + 1) * c = q * c + c /\ q * c \in Nat /\ low * c \in Nat
  BY <1>2
<1> QED
  BY <1>2, <1>4, <1>5

(* Later times have seen no fewer carries, and none before the first. *)
LEMMA CarriesGrow ==
    ASSUME NEW m \in Nat, NEW n \in Nat, m <= n
    PROVE  m \div WORD <= n \div WORD
<1>1. m \div WORD \in Nat /\ m % WORD \in Nat /\ m = (m \div WORD) * WORD + (m % WORD)
  BY Positive, Division
<1>2. (m \div WORD) * WORD \in Nat
  BY <1>1, Positive
<1>3. (m \div WORD) * WORD <= n
  BY <1>1, <1>2
<1> QED
  BY <1>1, <1>3, Positive, DivAbove

LEMMA NoCarry ==
    ASSUME NEW n \in Nat, n < WORD
    PROVE  n \div WORD = 0 /\ n % WORD = n
<1>1. n \div WORD \in Nat /\ n % WORD \in 0 .. WORD - 1 /\ n = (n \div WORD) * WORD + (n % WORD)
  BY Positive, Division
<1>2. n \div WORD = 0
  <2>1. SUFFICES ASSUME 1 <= n \div WORD PROVE FALSE
    BY <1>1
  <2>2. 1 * WORD <= (n \div WORD) * WORD
    BY <1>1, <2>1, Positive, TimesMonotonic
  <2>3. (n \div WORD) * WORD \in Nat
    BY <1>1, Positive
  <2> QED
    BY <1>1, <2>2, <2>3, Positive
<1>3. 0 * WORD = 0
  BY Positive
<1> QED
  BY <1>1, <1>2, <1>3

---------------------------------------------------------------------------------
(* Halves *)

(* Taking a value apart and putting it together again. *)
LEMMA Halved ==
    ASSUME NEW n \in Nat
    PROVE  /\ Double(n) \in Contents
           /\ Double(n).lo = n % WORD /\ Double(n).hi = n \div WORD
           /\ Value(Double(n)) = n
<1>1. n \div WORD \in Nat /\ n % WORD \in 0 .. WORD - 1 /\ n = (n \div WORD) * WORD + (n % WORD)
  BY Positive, Division
<1>2. Double(n).lo = n % WORD /\ Double(n).hi = n \div WORD
  BY DEF Double
<1> QED
  BY <1>1, <1>2 DEF Contents, Double, Value

LEMMA ValueType ==
    ASSUME NEW d \in Contents
    PROVE  Value(d) \in Nat /\ d.hi * WORD \in Nat /\ d.lo \in Nat /\ d.lo < WORD /\ d.hi \in Nat
<1>1. d.lo \in 0 .. WORD - 1 /\ d.hi \in Nat
  BY DEF Contents
<1>2. d.hi * WORD \in Nat
  BY <1>1, Positive
<1> QED
  BY <1>1, <1>2, Positive DEF Value

LEMMA DeadlineType ==
    ASSUME NEW d \in Contents
    PROVE  /\ NextDeadline(d) \in Contents
           /\ Value(NextDeadline(d)) = Value(d) + TICK_INTERVAL
           /\ d.hi <= NextDeadline(d).hi
<1>1. PICK n : n = Value(d) + TICK_INTERVAL
  OBVIOUS
<1>2. n \in Nat
  BY <1>1, ValueType, Positive
<1>3. NextDeadline(d) = Double(n)
  BY <1>1 DEF NextDeadline
<1>4. d.hi * WORD <= n
  BY <1>1, ValueType, Positive DEF Value
<1>5. d.hi <= n \div WORD
  BY <1>2, <1>4, ValueType, Positive, DivAbove
<1> QED
  BY <1>1, <1>2, <1>3, <1>5, Halved

(* Writing or reading a half leaves a register a register. *)
LEMMA HalfType ==
    ASSUME NEW d \in Contents, NEW e \in Contents, NEW half \in Halves
    PROVE  /\ [d EXCEPT ![half] = e[half]] \in Contents
           /\ [d EXCEPT ![half] = e[half]].lo = IF half = "lo" THEN e.lo ELSE d.lo
           /\ [d EXCEPT ![half] = e[half]].hi = IF half = "hi" THEN e.hi ELSE d.hi
BY DEF Contents, Halves

---------------------------------------------------------------------------------
(* Types *)

LEMMA InitTyped == Init => TypeOK
BY TimerAssumption DEF Init, TypeOK, Contents, Contexts, Halves

(* What a load reads, and what it leaves in the registers. *)
LEMMA LoadTyped ==
    ASSUME TypeOK, NEW c \in Contexts, NEW half \in Halves, load(c, half)
    PROVE  TypeOK'
<1>1. PICK e : e = Double(mtime)
  OBVIOUS
<1>2. e \in Contents
  BY <1>1, Halved DEF TypeOK
<1>3. PICK read : read = [reg[c] EXCEPT ![half] = e[half]]
  OBVIOUS
<1>4. read \in Contents /\ NextDeadline(read) \in Contents
  BY <1>2, <1>3, HalfType, DeadlineType DEF TypeOK
<1>5. CASE todo[c] = {half}
  <2>1. /\ reg' = [reg EXCEPT ![c] = NextDeadline(read)]
        /\ stage' = [stage EXCEPT ![c] = "store"]
        /\ todo' = [todo EXCEPT ![c] = Halves]
    BY <1>1, <1>3, <1>5 DEF load, Loaded
  <2>2. reg' \in [Contexts -> Contents]
    BY <1>4, <2>1 DEF TypeOK
  <2> QED
    BY <2>1, <2>2, TimerAssumption DEF TypeOK, load, Halves
<1>6. CASE todo[c] # {half}
  <2>1. /\ reg' = [reg EXCEPT ![c] = read]
        /\ todo' = [todo EXCEPT ![c] = @ \ {half}]
        /\ stage' = stage
    BY <1>1, <1>3, <1>6 DEF load, Loaded
  <2>2. reg' \in [Contexts -> Contents]
    BY <1>4, <2>1 DEF TypeOK
  <2> QED
    BY <1>6, <2>1, <2>2, TimerAssumption DEF TypeOK, load, Halves
<1> QED
  BY <1>5, <1>6

LEMMA StoreTyped ==
    ASSUME TypeOK, NEW c \in Contexts, NEW half \in Halves, store(c, half)
    PROVE  TypeOK'
<1>1. mtimecmp' \in Contents
  BY HalfType DEF TypeOK, store
<1> QED
  BY <1>1, TimerAssumption DEF TypeOK, store, Halves

LEMMA StepTyped == TypeOK /\ [Next]_vars => TypeOK'
<1> SUFFICES ASSUME TypeOK, [Next]_vars PROVE TypeOK'
  OBVIOUS
<1>1. CASE clock
  BY <1>1, TimerAssumption DEF clock, TypeOK
<1>2. CASE trap_handler
  BY <1>2, TimerAssumption DEF trap_handler, TypeOK, Contexts, Halves
<1>3. ASSUME NEW c \in Contexts, NEW half \in Halves, load(c, half) \/ store(c, half)
      PROVE  TypeOK'
  BY <1>3, LoadTyped, StoreTyped
<1>4. CASE UNCHANGED vars
  BY <1>4 DEF vars, TypeOK
<1> QED
  BY <1>1, <1>2, <1>3, <1>4 DEF Next

(* The registers hold 64-bit values, in halves; a context has accesses left   *)
(* to make until it is done.                                                  *)
THEOREM TimerTypeCorrect == Spec => []TypeOK
BY InitTyped, StepTyped, PTL DEF Spec

---------------------------------------------------------------------------------
(* Ticks covered stay so, and another one is by an interval or a carry more. *)
LEMMA CoveredGrows ==
    ASSUME NEW n \in Nat, NEW t \in Nat, NEW u \in Nat, NEW k \in Nat, NEW l \in Nat,
           Covered(n, t, k), t <= u, k <= l
    PROVE  Covered(n, u, l)
<1>1. TICK_INTERVAL * k <= TICK_INTERVAL * l
  BY Positive, TimesMonotonic
<1>2. TICK_INTERVAL * k \in Nat /\ TICK_INTERVAL * l \in Nat /\ n * TICK_INTERVAL \in Nat
  BY Positive
<1> QED
  BY <1>1, <1>2 DEF Covered

LEMMA AnotherTick ==
    ASSUME NEW n \in Nat, NEW t \in Nat, NEW k \in Nat, Covered(n, t, k)
    PROVE  Covered(n + 1, t + TICK_INTERVAL, k) /\ Covered(n + 1, t, k + 1)
<1>1. /\ (n + 1) * TICK_INTERVAL = n * TICK_INTERVAL + TICK_INTERVAL
      /\ TICK_INTERVAL * (k + 1) = TICK_INTERVAL * k + TICK_INTERVAL
      /\ TICK_INTERVAL * k \in Nat /\ n * TICK_INTERVAL \in Nat
  BY Positive
<1> QED
  BY <1>1, Positive DEF Covered

(* The first tick is covered by the one allowed for at boot. *)
LEMMA FirstTick ==
    ASSUME NEW n \in {0, 1}, NEW t \in Nat, NEW k \in Nat
    PROVE  /\ n = 0 => Covered(n, t, k)
           /\ TICK_INTERVAL <= t => Covered(n, t, k)
           /\ Covered(n, t, k + 1)
<1>1. TICK_INTERVAL * k \in Nat /\ TICK_INTERVAL * (k + 1) = TICK_INTERVAL * k + TICK_INTERVAL
  BY Positive
<1> QED
  BY <1>1, Positive DEF Covered

LEMMA TicksCovered == TicksInTime <=> Covered(sys_tick, mtime, Carries + 1)
BY DEF TicksInTime, Covered, Carries

LEMMA CarriesType == TypeOK => Carries \in Nat /\ mtime \in Nat /\ sys_tick \in Nat
BY Positive, Division DEF TypeOK, Carries

---------------------------------------------------------------------------------
(* Boot *)

LEMMA RemainingType ==
    ASSUME TypeOK
    PROVE  /\ Remaining("main") \in 0 .. 4 /\ InterruptRemaining \in 0 .. 5
           /\ Booting => Remaining("main") >= 1
<1>1. ASSUME NEW set \in SUBSET Halves
      PROVE  Count(set) \in 0 .. 2 /\ (set # {} => Count(set) >= 1)
  <2>1. set # {} => "lo" \in set \/ "hi" \in set
    BY DEF Halves
  <2> QED
    BY <2>1 DEF Count
<1>2. \A c \in Contexts : /\ Remaining(c) \in 0 .. 4
                          /\ stage[c] # "done" => Remaining(c) >= 1
  BY <1>1 DEF Remaining, TypeOK
<1> QED
  BY <1>2 DEF InterruptRemaining, Booting, Contexts

(* Boot is over before the first tick after it is due, and before any carry. *)
LEMMA BootBounded ==
    ASSUME TypeOK, Booting, BootIsShort
    PROVE  mtime < TICK_INTERVAL /\ mtime + TICK_INTERVAL < WORD
<1>1. PICK rem \in Nat : rem = Remaining("main") + InterruptRemaining /\ rem >= 1
  BY RemainingType
<1>2. MaxLag * 1 <= MaxLag * rem /\ MaxLag * rem \in Nat
  BY <1>1, Positive, TimesMonotonic
<1>3. mtime + MaxLag * rem <= 9 * MaxLag + lag
  BY <1>1 DEF BootIsShort
<1>4. mtime <= 9 * MaxLag
  BY <1>2, <1>3, Positive DEF TypeOK
<1> QED
  BY <1>4, TimerAssumption DEF TypeOK

(* An access, or the entry, is one of those boot has time for. *)
LEMMA AccessShortens ==
    ASSUME TypeOK, BootIsShort, mtime' = mtime, lag' = 0,
           NEW rem \in Nat, rem = Remaining("main") + InterruptRemaining,
           (Remaining("main") + InterruptRemaining)' = rem - 1
    PROVE  BootIsShort'
<1>1. MaxLag * (rem - 1) = MaxLag * rem - MaxLag /\ MaxLag * rem \in Nat
  BY Positive
<1>2. mtime + MaxLag * rem <= 9 * MaxLag + lag
  BY DEF BootIsShort
<1>3. mtime + (MaxLag * rem - MaxLag) <= 9 * MaxLag
  BY <1>1, <1>2, Positive DEF TypeOK
<1>4. mtime' + MaxLag * (rem - 1) <= 9 * MaxLag + lag'
  BY <1>1, <1>3, Positive DEF TypeOK
<1> QED
  BY <1>4 DEF BootIsShort

---------------------------------------------------------------------------------
(* Time passes. *)
LEMMA ClockInBoot ==
    ASSUME TypeOK, Booting, Boot, clock
    PROVE  Boot'
<1>1. UNCHANGED <<mtimecmp, sys_tick, reg, stage, todo>> /\ mtime' = mtime + 1
  BY DEF clock
<1>2. lag' = lag + 1
  BY DEF clock, Idle, Booting, Contexts
<1>3. BootIsShort'
  <2>1. PICK rem \in Nat : rem = Remaining("main") + InterruptRemaining
    BY RemainingType
  <2>2. (Remaining("main") + InterruptRemaining)' = rem
    BY <1>1, <2>1 DEF Remaining, InterruptRemaining
  <2>3. mtime + MaxLag * rem <= 9 * MaxLag + lag /\ MaxLag * rem \in Nat
    BY <2>1, Positive DEF Boot, BootIsShort
  <2>4. mtime' + MaxLag * rem <= 9 * MaxLag + lag'
    BY <1>1, <1>2, <2>3, Positive DEF TypeOK
  <2> QED
    BY <2>2, <2>4 DEF BootIsShort
<1>4. ASSUME NEW half \in Halves, NEW n \in Nat
      PROVE  /\ DeadlineHalf(half, n) => DeadlineHalf(half, n)'
             /\ ReadHalf(half, n) => ReadHalf(half, n)'
  BY <1>1, Positive DEF TypeOK, DeadlineHalf, ReadHalf
<1>5. /\ \A half \in Halves : mtimecmp[half] \in Nat
      /\ \A c \in Contexts, half \in Halves : reg[c][half] \in Nat
  BY DEF TypeOK, Contents, Halves
<1>6. InCompare'
  BY <1>1, <1>4, <1>5 DEF Boot, InCompare, Written
<1>7. \A c \in Contexts : InRegister(c)'
  BY <1>1, <1>4, <1>5 DEF Boot, InRegister
<1>8. Once'
  BY <1>1 DEF Boot, Once
<1> QED
  BY <1>3, <1>6, <1>7, <1>8 DEF Boot

LEMMA ClockSteady ==
    ASSUME TypeOK, TypeOK', Steady, clock
    PROVE  Steady'
<1>1. UNCHANGED <<mtimecmp, sys_tick, reg, stage, todo>> /\ mtime' = mtime + 1
  BY DEF clock
<1>2. PICK later : later = mtime'
  OBVIOUS
<1>3. PICK carries : carries = Carries'
  OBVIOUS
<1>4. /\ mtime \in Nat /\ later \in Nat /\ mtime <= later
      /\ Carries \in Nat /\ carries \in Nat /\ Carries <= carries
      /\ sys_tick \in Nat /\ sys_tick + 1 \in Nat
  <2>1. mtime \in Nat /\ later \in Nat /\ mtime <= later
    BY <1>1, <1>2 DEF TypeOK
  <2>2. carries = later \div WORD
    BY <1>2, <1>3 DEF Carries
  <2>3. Carries <= carries /\ carries \in Nat
    BY <2>1, <2>2, CarriesGrow, Positive, Division DEF Carries
  <2> QED
    BY <2>1, <2>3, CarriesType DEF TypeOK
<1>5. ASSUME NEW n \in Nat, Covered(n, mtime, Carries)
      PROVE  Covered(n, later, carries)
  BY <1>4, <1>5, CoveredGrows
<1>6. ASSUME NEW d \in Contents
      PROVE  /\ InSight(d) => InSight(d)'
             /\ \A n \in Nat : Afforded(n, d) => Afforded(n, d)'
  <2>1. InSight(d) => InSight(d)'
    BY <1>2, <1>4, ValueType, Positive DEF InSight
  <2>2. \A n \in Nat : Afforded(n, d) => Afforded(n, d)'
    BY <1>2, <1>3, <1>5 DEF Afforded
  <2> QED
    BY <2>1, <2>2
<1>7. mtimecmp \in Contents /\ reg["isr"] \in Contents
  BY DEF TypeOK, Contexts
<1>8. Loading => Loading'
  <2> SUFFICES ASSUME Loading PROVE Loading'
    OBVIOUS
  <2>1. Covered(sys_tick, mtime, Carries)'
    BY <1>1, <1>2, <1>3, <1>4, <1>5 DEF Loading
  <2>2. "lo" \notin todo["isr"] => LowRead'
    <3> SUFFICES ASSUME LowRead PROVE LowRead'
      BY <1>1 DEF Loading
    <3>1. PICK k \in 0 .. Carries : /\ k * WORD + reg["isr"].lo <= mtime
                                   /\ Covered(sys_tick, k * WORD + reg["isr"].lo, k)
      BY DEF LowRead
    <3>2. k \in 0 .. carries
      BY <1>4
    <3>3. k * WORD + reg["isr"].lo \in Nat
      BY <1>7, <3>2, ValueType, Positive
    <3>4. k * WORD + reg["isr"].lo <= later
      BY <1>4, <3>1, <3>3
    <3> QED
      BY <1>1, <1>2, <1>3, <3>1, <3>2, <3>4 DEF LowRead
  <2>3. "hi" \notin todo["isr"] => HighRead'
    <3> SUFFICES ASSUME HighRead PROVE HighRead'
      BY <1>1 DEF Loading
    <3>1. reg["isr"].hi \in Nat /\ reg["isr"].hi * WORD \in Nat
      BY <1>7, ValueType
    <3>2. Covered(sys_tick, later, reg["isr"].hi)
      BY <1>4, <3>1, CoveredGrows DEF HighRead
    <3>3. reg["isr"].hi * WORD <= later
      BY <1>4, <3>1 DEF HighRead
    <3> QED
      BY <1>1, <1>2, <3>2, <3>3 DEF HighRead
  <2> QED
    BY <1>1, <2>1, <2>2, <2>3 DEF Loading
<1>9. Storing => Storing'
  <2> SUFFICES ASSUME Storing PROVE Storing'
    OBVIOUS
  <2>1. Covered(sys_tick, mtime, Carries)'
    BY <1>1, <1>2, <1>3, <1>4, <1>5 DEF Storing
  <2>2. InSight(reg["isr"])' /\ Afforded(sys_tick + 1, reg["isr"])'
    BY <1>1, <1>4, <1>6, <1>7 DEF Storing, InSight, Afforded
  <2> QED
    BY <1>1, <2>1, <2>2 DEF Storing
<1>10. InSight(mtimecmp) /\ Afforded(sys_tick, mtimecmp)
         => InSight(mtimecmp)' /\ Afforded(sys_tick, mtimecmp)'
  BY <1>1, <1>4, <1>6, <1>7 DEF InSight, Afforded
<1> QED
  BY <1>1, <1>8, <1>9, <1>10 DEF Steady

LEMMA ClockKeeps ==
    ASSUME IInv, TypeOK', clock
    PROVE  IInv'
<1>1. UNCHANGED <<sys_tick, stage>> /\ mtime' = mtime + 1
  BY DEF clock
<1>2. TicksInTime'
  <2>1. PICK later : later = mtime'
    OBVIOUS
  <2>2. later \in Nat /\ mtime \in Nat /\ mtime <= later /\ sys_tick \in Nat
    BY <1>1, <2>1 DEF IInv, TypeOK
  <2>3. mtime \div WORD <= later \div WORD
    BY <2>2, CarriesGrow
  <2>4. Carries' = later \div WORD /\ later \div WORD \in Nat
    BY <2>1, <2>2, Positive, Division DEF Carries
  <2>5. PICK k, l : k = Carries + 1 /\ l = later \div WORD + 1
    OBVIOUS
  <2>6. k \in Nat /\ l \in Nat /\ k <= l
    BY <2>3, <2>4, <2>5, CarriesType DEF IInv, Carries
  <2>7. Covered(sys_tick, mtime, k)
    BY <2>5, TicksCovered DEF IInv
  <2>8. Covered(sys_tick, later, l)
    BY <2>2, <2>6, <2>7, CoveredGrows
  <2> QED
    BY <1>1, <2>1, <2>4, <2>5, <2>8 DEF TicksInTime, Covered
<1>3. Booting' = Booting
  BY <1>1 DEF Booting
<1> QED
  BY <1>2, <1>3, ClockInBoot, ClockSteady DEF IInv

---------------------------------------------------------------------------------
(* The interrupt comes. *)
LEMMA TrapInBoot ==
    ASSUME TypeOK, Booting, Boot, trap_handler
    PROVE  Boot'
<1>1. /\ stage["isr"] = "done" /\ todo["isr"] = {}
      /\ stage' = [stage EXCEPT !["isr"] = "load"] /\ todo' = [todo EXCEPT !["isr"] = Halves]
      /\ lag' = 0 /\ UNCHANGED <<mtime, mtimecmp, sys_tick, reg>>
  BY DEF trap_handler, TypeOK, Contexts
<1>2. sys_tick = 0
  <2>1. SUFFICES ASSUME sys_tick > 0 PROVE FALSE
    BY DEF TypeOK
  <2>2. DeadlineHalf("lo", mtimecmp["lo"]) /\ DeadlineHalf("hi", mtimecmp["hi"])
    BY <2>1 DEF Boot, InCompare, Written, Halves
  <2>3. mtimecmp.hi = 0 /\ TICK_INTERVAL <= mtimecmp.lo
    BY <2>2 DEF DeadlineHalf
  <2>4. Value(mtimecmp) = mtimecmp.lo
    BY <2>3, Positive DEF Value, TypeOK, Contents
  <2>5. mtime < TICK_INTERVAL
    BY BootBounded DEF Boot
  <2> QED
    BY <2>3, <2>4, <2>5, Positive DEF trap_handler, InterruptPending, TypeOK, Contents
<1>3. BootIsShort'
  <2>1. PICK rem \in Nat : rem = Remaining("main") + InterruptRemaining
    BY RemainingType
  <2>2. Remaining("main")' = Remaining("main")
    BY <1>1 DEF Remaining, TypeOK, Contexts
  <2>3. Remaining("isr")' = 4
    BY <1>1 DEF Remaining, Count, Halves, TypeOK, Contexts
  <2>4. InterruptRemaining' = 4 /\ InterruptRemaining = 5
    BY <1>1, <1>2, <2>3 DEF InterruptRemaining, TypeOK, Contexts
  <2>5. (Remaining("main") + InterruptRemaining)' = rem - 1
    BY <2>1, <2>2, <2>4, RemainingType
  <2> QED
    BY <1>1, <2>1, <2>5, AccessShortens DEF Boot
<1>4. InCompare' /\ Once'
  <2>1. \A half \in Halves : Written(half)' => Written(half)
    BY <1>1 DEF Written, TypeOK, Contexts
  <2> QED
    BY <1>1, <1>2, <2>1 DEF Boot, InCompare, DeadlineHalf, Once
<1>5. InRegister("main")'
  BY <1>1 DEF Boot, InRegister, DeadlineHalf, ReadHalf, TypeOK, Contexts
<1>6. InRegister("isr")'
  BY <1>1 DEF InRegister, TypeOK, Contexts
<1> QED
  BY <1>3, <1>4, <1>5, <1>6 DEF Boot, Contexts

(* A deadline that has come pays for the tick it brings. *)
LEMMA TrapSteady ==
    ASSUME TypeOK, Steady, trap_handler
    PROVE  Steady'
<1>1. /\ stage["isr"] = "done" /\ stage'["isr"] = "load" /\ todo'["isr"] = Halves
      /\ UNCHANGED <<mtime, mtimecmp, sys_tick, reg>>
      /\ Value(mtimecmp) <= mtime
  BY ValueType DEF trap_handler, InterruptPending, TypeOK, Contexts
<1>2. Covered(sys_tick, mtime, Carries)
  <2>1. CASE Covered(sys_tick, Value(mtimecmp), mtimecmp.hi)
    <3>1. mtimecmp \in Contents
      BY DEF TypeOK
    <3>2. mtimecmp.hi * WORD <= mtime
      BY <1>1, <3>1, ValueType, CarriesType DEF Value
    <3>3. mtimecmp.hi <= Carries
      BY <3>1, <3>2, ValueType, CarriesType, DivAbove, Positive DEF Carries
    <3> QED
      BY <1>1, <2>1, <3>1, <3>3, ValueType, CarriesType, CoveredGrows
  <2> QED
    BY <1>1, <2>1 DEF Steady, Afforded
<1>3. Covered(sys_tick, mtime, Carries)'
  BY <1>1, <1>2 DEF Covered, Carries
<1>4. "lo" \in todo'["isr"] /\ "hi" \in todo'["isr"]
  BY <1>1 DEF Halves
<1>5. Loading'
  BY <1>3, <1>4 DEF Loading
<1> QED
  BY <1>1, <1>5 DEF Steady

LEMMA TrapKeeps ==
    ASSUME IInv, trap_handler
    PROVE  TicksInTime' /\ IF Booting' THEN Boot' ELSE Steady'
<1>1. TicksInTime'
  BY DEF IInv, TicksInTime, trap_handler
<1>2. Booting' = Booting
  BY DEF trap_handler, Booting, IInv, TypeOK, Contexts
<1> QED
  BY <1>1, <1>2, TrapInBoot, TrapSteady DEF IInv

---------------------------------------------------------------------------------
(* MTIME is read. *)

(* The other half, and what is left to access. *)
LEMMA OneOfTwo ==
    ASSUME NEW set \in SUBSET Halves, NEW half \in set
    PROVE  \/ set = {half} /\ Count(set) = 1
           \/ set = Halves /\ Count(set) = 2 /\ Count(set \ {half}) = 1
<1>1. set = {half} \/ set = Halves
  BY DEF Halves
<1>2. Count({half}) = 1 /\ Count(Halves) = 2 /\ Count(Halves \ {half}) = 1
  BY DEF Halves, Count
<1> QED
  BY <1>1, <1>2

(* Either access, of either context, is one less to make. *)
LEMMA AccessCounts ==
    ASSUME TypeOK, Booting, Boot, NEW c \in Contexts, NEW half \in Halves,
           load(c, half) \/ store(c, half)
    PROVE  BootIsShort'
<1>1. todo[c] \in SUBSET Halves /\ half \in todo[c] /\ stage[c] # "done"
  BY DEF load, store, TypeOK
<1>2. Remaining(c)' = Remaining(c) - 1 /\ Remaining(c) \in 1 .. 4
  <2>1. CASE load(c, half) /\ todo[c] = {half}
    <3>1. stage'[c] = "store" /\ todo'[c] = Halves /\ stage[c] = "load"
      BY <2>1 DEF load, TypeOK
    <3>2. Count(Halves) = 2 /\ Count({half}) = 1
      BY DEF Count, Halves
    <3> QED
      BY <2>1, <3>1, <3>2 DEF Remaining
  <2>2. CASE load(c, half) /\ todo[c] # {half}
    <3>1. stage'[c] = "load" /\ todo'[c] = todo[c] \ {half} /\ stage[c] = "load"
      BY <2>2 DEF load, TypeOK
    <3> QED
      BY <1>1, <2>2, <3>1, OneOfTwo DEF Remaining
  <2>3. CASE store(c, half)
    <3>1. stage[c] = "store" /\ stage'[c] \in {"store", "done"} /\ todo'[c] = todo[c] \ {half}
      BY <2>3 DEF store, TypeOK
    <3>2. Count({half} \ {half}) = 0
      BY DEF Count
    <3>3. Count(todo'[c]) = Count(todo[c]) - 1 /\ Count(todo[c]) \in 1 .. 2
      <4>1. PICK set \in SUBSET Halves : set = todo[c] /\ half \in set
        BY <1>1
      <4>2. \/ set = {half} /\ Count(set) = 1
            \/ set = Halves /\ Count(set) = 2 /\ Count(set \ {half}) = 1
        BY <4>1, OneOfTwo
      <4>3. todo'[c] = set \ {half}
        BY <3>1, <4>1
      <4>4. Count(set \ {half}) = Count(set) - 1 /\ Count(set) \in 1 .. 2
        BY <3>2, <4>2
      <4> QED
        BY <4>1, <4>3, <4>4
    <3> QED
      BY <3>1, <3>3 DEF Remaining
  <2> QED
    BY <2>1, <2>2, <2>3
<1>3. mtime' = mtime /\ lag' = 0
  BY DEF load, store
<1>4. PICK rem \in Nat : rem = Remaining("main") + InterruptRemaining
  BY RemainingType
<1>5. CASE c = "main"
  <2>1. InterruptRemaining' = InterruptRemaining
    BY <1>5 DEF load, store, InterruptRemaining, Remaining, TypeOK, Contexts
  <2>2. (Remaining("main") + InterruptRemaining)' = rem - 1
    BY <1>2, <1>4, <1>5, <2>1, RemainingType
  <2> QED
    BY <1>3, <1>4, <2>2, AccessShortens DEF Boot
<1>6. CASE c = "isr"
  <2>1. Remaining("main")' = Remaining("main")
    BY <1>6 DEF load, store, Remaining, TypeOK, Contexts
  <2>2. sys_tick = 0
    BY <1>1, <1>6 DEF Boot, Once
  <2>3. InterruptRemaining = Remaining("isr")
    BY <1>1, <1>6, <2>2 DEF InterruptRemaining
  <2>4. InterruptRemaining' = Remaining("isr")'
    <3>1. CASE stage'["isr"] # "done"
      <4>1. sys_tick' = 0
        BY <1>6, <2>2, <3>1 DEF load, store, TypeOK, Contexts
      <4> QED
        BY <3>1, <4>1 DEF InterruptRemaining
    <3>2. CASE stage'["isr"] = "done"
      <4>1. store("isr", half) /\ todo["isr"] = {half}
        BY <1>1, <1>6, <3>2 DEF load, store, TypeOK, Contexts
      <4>2. sys_tick' = 1 /\ todo'["isr"] = {}
        BY <2>2, <4>1 DEF store, TypeOK, Contexts
      <4>3. Remaining("isr")' = 0
        BY <3>2, <4>2 DEF Remaining, Count
      <4> QED
        BY <4>2, <4>3 DEF InterruptRemaining
    <3> QED
      BY <3>1, <3>2
  <2>5. (Remaining("main") + InterruptRemaining)' = rem - 1
    BY <1>2, <1>4, <1>6, <2>1, <2>3, <2>4, RemainingType
  <2> QED
    BY <1>3, <1>4, <2>5, AccessShortens DEF Boot
<1> QED
  BY <1>5, <1>6 DEF Contexts

LEMMA LoadInBoot ==
    ASSUME TypeOK, Booting, Boot, NEW c \in Contexts, NEW half \in Halves, load(c, half)
    PROVE  Boot'
<1>1. mtime \in Nat /\ mtime + TICK_INTERVAL < WORD
  BY BootBounded DEF Boot, TypeOK
<1>2. UNCHANGED <<mtime, mtimecmp, sys_tick>> /\ stage[c] = "load" /\ half \in todo[c]
  BY DEF load
<1>3. PICK e : e = Double(mtime)
  OBVIOUS
<1>4. e \in Contents /\ e.lo = mtime /\ e.hi = 0
  <2>1. mtime < WORD
    BY <1>1, Positive
  <2> QED
    BY <1>1, <1>3, <2>1, Halved, NoCarry
<1>5. PICK read : read = [reg[c] EXCEPT ![half] = e[half]]
  OBVIOUS
<1>6. /\ read \in Contents
      /\ read.lo = IF half = "lo" THEN mtime ELSE reg[c].lo
      /\ read.hi = IF half = "hi" THEN 0 ELSE reg[c].hi
  <2>1. PICK old \in Contents : old = reg[c]
    BY DEF TypeOK
  <2>2. read = [old EXCEPT ![half] = e[half]]
    BY <1>5, <2>1
  <2>3. /\ read \in Contents
        /\ read.lo = IF half = "lo" THEN e.lo ELSE old.lo
        /\ read.hi = IF half = "hi" THEN e.hi ELSE old.hi
    BY <1>4, <2>1, <2>2 DEF Contents, Halves
  <2> QED
    BY <1>4, <2>1, <2>3
<1>7. \A h \in Halves : h \notin todo[c] \ {half} => ReadHalf(h, read[h])
  <2>1. \A h \in Halves \ todo[c] : ReadHalf(h, reg[c][h])
    BY <1>2 DEF Boot, InRegister
  <2> QED
    BY <1>1, <1>6, <2>1 DEF ReadHalf, Halves
<1>8. CASE todo[c] = {half}
  <2>1. /\ reg' = [reg EXCEPT ![c] = NextDeadline(read)]
        /\ stage' = [stage EXCEPT ![c] = "store"]
        /\ todo' = [todo EXCEPT ![c] = Halves]
    BY <1>3, <1>5, <1>8 DEF load, Loaded
  <2>2. read.hi = 0 /\ read.lo <= mtime /\ read.lo \in Nat
    BY <1>6, <1>7, <1>8, ValueType DEF ReadHalf, Halves
  <2>3. PICK n : n = read.lo + TICK_INTERVAL
    OBVIOUS
  <2>4. n \in Nat /\ n < WORD /\ Value(read) + TICK_INTERVAL = n
    BY <1>1, <2>2, <2>3, Positive DEF Value
  <2>5. NextDeadline(read).lo = n /\ NextDeadline(read).hi = 0
    BY <2>4, Halved, NoCarry DEF NextDeadline
  <2>6. \A h \in Halves : DeadlineHalf(h, NextDeadline(read)[h])
    BY <1>1, <2>2, <2>3, <2>5, Positive DEF DeadlineHalf, Halves
  <2>7. InRegister(c)'
    BY <1>2, <2>1, <2>6 DEF InRegister, DeadlineHalf, TypeOK
  <2>8. \A d \in Contexts \ {c} : InRegister(d)'
    BY <1>2, <2>1 DEF Boot, InRegister, DeadlineHalf, ReadHalf, TypeOK
  <2>9. \A h \in Halves : Written(h)' => Written(h)
    BY <1>2, <2>1 DEF Written, TypeOK, Contexts
  <2>10. InCompare'
    BY <1>2, <2>9 DEF Boot, InCompare, DeadlineHalf
  <2>11. Once'
    BY <1>2, <2>1 DEF Boot, Once, TypeOK, Contexts
  <2> QED
    BY <2>7, <2>8, <2>10, <2>11, AccessCounts DEF Boot
<1>9. CASE todo[c] # {half}
  <2>1. /\ reg' = [reg EXCEPT ![c] = read]
        /\ todo' = [todo EXCEPT ![c] = @ \ {half}]
        /\ stage' = stage
    BY <1>3, <1>5, <1>9 DEF load, Loaded
  <2>2. InRegister(c)'
    BY <1>2, <1>7, <2>1 DEF InRegister, ReadHalf, TypeOK
  <2>3. \A d \in Contexts \ {c} : InRegister(d)'
    BY <1>2, <2>1 DEF Boot, InRegister, DeadlineHalf, ReadHalf, TypeOK
  <2>4. \A h \in Halves : Written(h)' => Written(h)
    BY <1>2, <2>1 DEF Written, TypeOK, Contexts
  <2>5. InCompare'
    BY <1>2, <2>4 DEF Boot, InCompare, DeadlineHalf
  <2>6. Once'
    BY <1>2, <2>1 DEF Boot, Once
  <2> QED
    BY <2>2, <2>3, <2>5, <2>6, AccessCounts DEF Boot
<1> QED
  BY <1>8, <1>9

(* With main done, it is timer_isr that reads.  The low half first: what is    *)
(* put together is no earlier than the time it was read at.  The high half     *)
(* first: either nothing has carried since, or a carry pays for the tick.      *)
LEMMA ReadingSteady ==
    ASSUME TypeOK, Loading, NEW half \in Halves, todo["isr"] = {half},
           NEW read \in Contents,
           read = [reg["isr"] EXCEPT ![half] = Double(mtime)[half]]
    PROVE  /\ Value(read) <= mtime + IF mtime < WORD THEN 0 ELSE WORD
           /\ \/ Covered(sys_tick, Value(read), read.hi)
              \/ Covered(sys_tick + 1, mtime, Carries)
<1>1. PICK e : e = Double(mtime)
  OBVIOUS
<1>2. /\ e \in Contents /\ e.lo = mtime % WORD /\ e.hi = Carries
      /\ Carries * WORD + e.lo = mtime /\ Carries * WORD \in Nat /\ Carries \in Nat
      /\ mtime \in Nat /\ sys_tick \in Nat
  <2>1. mtime \in Nat /\ sys_tick \in Nat /\ Carries \in Nat
    BY CarriesType
  <2>2. e \in Contents /\ e.lo = mtime % WORD /\ e.hi = Carries
    BY <1>1, <2>1, Halved DEF Carries
  <2>3. Carries * WORD + e.lo = mtime
    BY <2>1, <2>2, Positive, Division DEF Carries
  <2>4. Carries * WORD \in Nat
    BY <2>1, Positive
  <2> QED
    BY <2>1, <2>2, <2>3, <2>4
<1>3. reg["isr"] \in Contents
  BY DEF TypeOK, Contexts
<1>4. /\ read.lo = IF half = "lo" THEN e.lo ELSE reg["isr"].lo
      /\ read.hi = IF half = "hi" THEN e.hi ELSE reg["isr"].hi
  <2>1. PICK old \in Contents : old = reg["isr"]
    BY <1>3
  <2>2. read = [old EXCEPT ![half] = e[half]]
    BY <1>1, <2>1
  <2>3. /\ read.lo = IF half = "lo" THEN e.lo ELSE old.lo
        /\ read.hi = IF half = "hi" THEN e.hi ELSE old.hi
    BY <1>2, <2>1, <2>2 DEF Contents, Halves
  <2> QED
    BY <2>1, <2>3
<1>5. CASE half = "hi"
  <2>1. PICK k \in 0 .. Carries : /\ k * WORD + reg["isr"].lo <= mtime
                                 /\ Covered(sys_tick, k * WORD + reg["isr"].lo, k)
    BY <1>5 DEF Loading, LowRead, Halves
  <2>2. read.hi = Carries /\ Value(read) = Carries * WORD + reg["isr"].lo
    BY <1>2, <1>4, <1>5 DEF Value
  <2>3. k * WORD <= Carries * WORD /\ k * WORD \in Nat
    BY <1>2, Positive, TimesMonotonic
  <2>4. PICK t : t = k * WORD + reg["isr"].lo
    OBVIOUS
  <2>5. t \in Nat /\ t <= Value(read) /\ Value(read) \in Nat
    BY <1>2, <1>3, <2>2, <2>3, <2>4, ValueType
  <2>6. Covered(sys_tick, Value(read), Carries)
    BY <1>2, <2>1, <2>4, <2>5, CoveredGrows
  <2>7. Value(read) <= mtime + IF mtime < WORD THEN 0 ELSE WORD
    <3>1. CASE mtime < WORD
      <4>1. Carries = 0
        BY <1>2, <3>1, NoCarry DEF Carries
      <4>2. k = 0
        BY <4>1
      <4> QED
        BY <1>2, <2>1, <2>2, <3>1, <4>1, <4>2
    <3>2. CASE ~(mtime < WORD)
      BY <1>2, <1>3, <2>2, <3>2, ValueType, Positive
    <3> QED
      BY <3>1, <3>2
  <2> QED
    BY <2>2, <2>6, <2>7
<1>6. CASE half = "lo"
  <2>1. HighRead
    BY <1>6 DEF Loading, Halves
  <2>2. PICK h : h = reg["isr"].hi
    OBVIOUS
  <2>3. h \in Nat /\ h * WORD \in Nat /\ h * WORD <= mtime /\ h <= Carries
    <3>1. h \in Nat /\ h * WORD \in Nat /\ h * WORD <= mtime
      BY <1>3, <2>1, <2>2, ValueType DEF HighRead
    <3> QED
      BY <1>2, <3>1, Positive, DivAbove DEF Carries
  <2>4. read.hi = h /\ Value(read) = h * WORD + e.lo
    BY <1>4, <1>6, <2>2 DEF Value
  <2>5. Covered(sys_tick, mtime, h)
    BY <2>1, <2>2 DEF HighRead
  <2>6. CASE h = Carries
    BY <1>2, <2>4, <2>5, <2>6, Positive
  <2>7. CASE h < Carries
    <3>1. Covered(sys_tick + 1, mtime, h + 1)
      BY <1>2, <2>3, <2>5, AnotherTick
    <3>2. Covered(sys_tick + 1, mtime, Carries)
      BY <1>2, <2>3, <2>7, <3>1, CoveredGrows
    <3>3. h * WORD <= Carries * WORD
      BY <1>2, <2>3, Positive, TimesMonotonic
    <3>4. Value(read) <= mtime
      BY <1>2, <2>3, <2>4, <3>3, ValueType
    <3> QED
      BY <1>2, <3>2, <3>4, Positive, ValueType
  <2> QED
    BY <1>2, <2>3, <2>6, <2>7
<1> QED
  BY <1>5, <1>6 DEF Halves

LEMMA LoadSteady ==
    ASSUME TypeOK, ~Booting, Steady, NEW c \in Contexts, NEW half \in Halves, load(c, half)
    PROVE  Steady'
<1>1. /\ c = "isr" /\ stage["isr"] = "load" /\ half \in todo["isr"]
      /\ UNCHANGED <<mtime, mtimecmp, sys_tick>>
  BY DEF load, Running, Booting, Contexts
<1>2. Loading
  BY <1>1 DEF Steady
<1>3. PICK e : e = Double(mtime)
  OBVIOUS
<1>4. e \in Contents /\ e.lo = mtime % WORD /\ e.hi = Carries
  BY <1>3, CarriesType, Halved DEF Carries
<1>5. PICK old \in Contents : old = reg["isr"]
  BY DEF TypeOK, Contexts
<1>6. PICK read : read = [old EXCEPT ![half] = e[half]]
  OBVIOUS
<1>7. /\ read \in Contents
      /\ read.lo = IF half = "lo" THEN e.lo ELSE old.lo
      /\ read.hi = IF half = "hi" THEN e.hi ELSE old.hi
  BY <1>4, <1>6, HalfType
<1>8. CASE todo["isr"] = {half}
  <2>1. /\ reg' = [reg EXCEPT !["isr"] = NextDeadline(read)]
        /\ stage' = [stage EXCEPT !["isr"] = "store"]
        /\ todo' = [todo EXCEPT !["isr"] = Halves]
    BY <1>1, <1>3, <1>5, <1>6, <1>8 DEF load, Loaded
  <2>2. /\ Value(read) <= mtime + IF mtime < WORD THEN 0 ELSE WORD
        /\ \/ Covered(sys_tick, Value(read), read.hi)
           \/ Covered(sys_tick + 1, mtime, Carries)
    <3>1. read = [reg["isr"] EXCEPT ![half] = Double(mtime)[half]]
      BY <1>3, <1>5, <1>6
    <3> QED
      BY <1>2, <1>7, <1>8, <3>1, ReadingSteady
  <2>3. PICK d : d = NextDeadline(read)
    OBVIOUS
  <2>4. d \in Contents /\ Value(d) = Value(read) + TICK_INTERVAL /\ read.hi <= d.hi
    BY <1>7, <2>3, DeadlineType
  <2>5. InSight(d)
    BY <2>2, <2>4, <1>7, ValueType, CarriesType, Positive DEF InSight
  <2>6. Afforded(sys_tick + 1, d)
    <3>1. CASE Covered(sys_tick, Value(read), read.hi)
      <4>1. PICK v \in Nat : v = Value(read)
        BY <1>7, ValueType
      <4>2. sys_tick + 1 \in Nat /\ v + TICK_INTERVAL \in Nat /\ read.hi \in Nat /\ d.hi \in Nat
        BY <1>7, <2>4, <4>1, ValueType, CarriesType, Positive
      <4>3. Covered(sys_tick + 1, v + TICK_INTERVAL, read.hi)
        BY <3>1, <4>1, <4>2, CarriesType, AnotherTick
      <4>4. Covered(sys_tick + 1, v + TICK_INTERVAL, d.hi)
        BY <2>4, <4>2, <4>3, CoveredGrows
      <4> QED
        BY <2>4, <4>1, <4>4 DEF Afforded
    <3>2. CASE Covered(sys_tick + 1, mtime, Carries)
      BY <3>2 DEF Afforded
    <3> QED
      BY <2>2, <3>1, <3>2
  <2>7. stage'["isr"] = "store" /\ reg'["isr"] = d /\ todo'["isr"] = Halves
    BY <2>1, <2>3 DEF TypeOK, Contexts
  <2>8. Covered(sys_tick, mtime, Carries)'
    BY <1>1, <1>2 DEF Loading, Covered, Carries
  <2>9. InSight(reg["isr"])' /\ Afforded(sys_tick + 1, reg["isr"])'
    BY <1>1, <2>5, <2>6, <2>7 DEF InSight, Afforded, Covered, Carries
  <2>10. Storing'
    BY <2>7, <2>8, <2>9 DEF Storing
  <2> QED
    BY <2>7, <2>10 DEF Steady
<1>9. CASE todo["isr"] # {half}
  <2>1. /\ reg' = [reg EXCEPT !["isr"] = read]
        /\ todo' = [todo EXCEPT !["isr"] = @ \ {half}]
        /\ stage' = stage
    BY <1>1, <1>3, <1>5, <1>6, <1>9 DEF load, Loaded
  <2>2. reg'["isr"] = read /\ todo'["isr"] = todo["isr"] \ {half} /\ stage'["isr"] = "load"
    BY <1>1, <2>1 DEF TypeOK, Contexts
  <2>3. todo["isr"] = Halves
    <3>1. PICK set \in SUBSET Halves : set = todo["isr"] /\ half \in set
      BY <1>1 DEF TypeOK, Contexts
    <3> QED
      BY <1>9, <3>1, OneOfTwo
  <2>4. Covered(sys_tick, mtime, Carries)
    BY <1>2 DEF Loading
  <2>5. Covered(sys_tick, mtime, Carries)'
    BY <1>1, <2>4 DEF Covered, Carries
  <2>6. Carries * WORD + (mtime % WORD) = mtime /\ Carries * WORD \in Nat /\ Carries \in Nat
        /\ mtime \in Nat /\ mtime % WORD \in Nat
    <3>1. Carries * WORD + (mtime % WORD) = mtime /\ mtime % WORD \in Nat
      <4>1. mtime = (mtime \div WORD) * WORD + (mtime % WORD) /\ mtime % WORD \in 0 .. WORD - 1
        BY CarriesType, Positive, Division
      <4> QED
        BY <4>1 DEF Carries
    <3> QED
      BY <3>1, CarriesType, Positive
  <2>7. CASE half = "lo"
    <3>1. read.lo = mtime % WORD
      BY <1>4, <1>7, <2>7
    <3>2. Carries * WORD + read.lo = mtime
      BY <2>6, <3>1
    <3>3. Carries \in 0 .. Carries /\ Carries * WORD + read.lo <= mtime
          /\ Covered(sys_tick, Carries * WORD + read.lo, Carries)
      BY <2>4, <2>6, <3>2
    <3>4. Carries' = Carries
      BY <1>1 DEF Carries
    <3>5. LowRead'
      BY <1>1, <2>2, <3>3, <3>4 DEF LowRead, Covered
    <3>6. "hi" \in todo'["isr"]
      BY <2>2, <2>3, <2>7 DEF Halves
    <3> QED
      BY <2>2, <2>5, <3>5, <3>6 DEF Steady, Loading
  <2>8. CASE half = "hi"
    <3>1. read.hi = Carries
      BY <1>4, <1>7, <2>8
    <3>2. Carries * WORD <= mtime
      BY <2>6
    <3>3. HighRead'
      BY <1>1, <2>2, <2>4, <3>1, <3>2 DEF HighRead, Covered
    <3>4. "lo" \in todo'["isr"]
      BY <2>2, <2>3, <2>8 DEF Halves
    <3> QED
      BY <2>2, <2>5, <3>3, <3>4 DEF Steady, Loading
  <2> QED
    BY <2>7, <2>8 DEF Halves
<1> QED
  BY <1>8, <1>9

LEMMA LoadKeeps ==
    ASSUME IInv, NEW c \in Contexts, NEW half \in Halves, load(c, half)
    PROVE  TicksInTime' /\ IF Booting' THEN Boot' ELSE Steady'
<1>1. TicksInTime'
  BY DEF IInv, TicksInTime, load
<1>2. Booting' = Booting
  BY DEF load, Booting, IInv, TypeOK, Contexts
<1> QED
  BY <1>1, <1>2, LoadInBoot, LoadSteady DEF IInv

---------------------------------------------------------------------------------
(* MTIMECMP is written. *)

(* What is written, and that a context is done with the second half. *)
LEMMA StoreWrites ==
    ASSUME TypeOK, NEW c \in Contexts, NEW half \in Halves, store(c, half)
    PROVE  /\ stage[c] = "store" /\ half \in todo[c]
           /\ mtimecmp' = [mtimecmp EXCEPT ![half] = reg[c][half]]
           /\ mtimecmp'[half] = reg[c][half]
           /\ \A h \in Halves \ {half} : mtimecmp'[h] = mtimecmp[h]
           /\ todo' = [todo EXCEPT ![c] = todo[c] \ {half}]
           /\ UNCHANGED <<mtime, reg>>
           /\ IF todo[c] = {half}
              THEN /\ stage' = [stage EXCEPT ![c] = "done"]
                   /\ sys_tick' = IF c = "isr" THEN sys_tick + 1 ELSE sys_tick
              ELSE UNCHANGED <<stage, sys_tick>>
<1>1. mtimecmp' = [mtimecmp EXCEPT ![half] = reg[c][half]] /\ UNCHANGED <<mtime, reg>>
  BY DEF store
<1>2. mtimecmp'[half] = reg[c][half] /\ \A h \in Halves \ {half} : mtimecmp'[h] = mtimecmp[h]
  BY <1>1 DEF TypeOK, Contents, Halves
<1> QED
  BY <1>1, <1>2 DEF store

LEMMA StoreInBoot ==
    ASSUME TypeOK, TypeOK', Booting, Boot, Booting',
           NEW c \in Contexts, NEW half \in Halves, store(c, half)
    PROVE  Boot'
<1>1. DeadlineHalf(half, mtimecmp[half])'
  <2>1. DeadlineHalf(half, reg[c][half])
    BY StoreWrites DEF Boot, InRegister
  <2> QED
    BY <2>1, StoreWrites DEF DeadlineHalf
<1>2. ASSUME NEW h \in Halves, Written(h)', h # half
      PROVE  Written(h)
  <2>1. CASE c = "main"
    <3>1. sys_tick' = sys_tick /\ stage'["isr"] = stage["isr"] /\ todo'["isr"] = todo["isr"]
      BY <2>1, StoreWrites DEF TypeOK, Contexts
    <3>2. stage["main"] = "store" /\ todo'["main"] = todo["main"] \ {half}
      BY <2>1, StoreWrites DEF TypeOK, Contexts
    <3> QED
      BY <1>2, <3>1, <3>2 DEF Written
  <2>2. CASE c = "isr"
    <3>1. stage'["main"] = stage["main"] /\ todo'["main"] = todo["main"]
      BY <2>2, StoreWrites DEF TypeOK, Contexts
    <3>2. stage["isr"] = "store" /\ todo'["isr"] = todo["isr"] \ {half}
      BY <2>2, StoreWrites DEF TypeOK, Contexts
    <3>3. sys_tick' > 0 => sys_tick > 0 \/ todo["isr"] = {half}
      BY <2>2, StoreWrites
    <3> QED
      BY <1>2, <3>1, <3>2, <3>3 DEF Written
  <2> QED
    BY <2>1, <2>2 DEF Contexts
<1>3. InCompare'
  <2> SUFFICES ASSUME NEW h \in Halves, Written(h)'
               PROVE  DeadlineHalf(h, mtimecmp[h])'
    BY DEF InCompare
  <2>1. CASE h = half
    BY <1>1, <2>1
  <2>2. CASE h # half
    <3>1. DeadlineHalf(h, mtimecmp[h])
      BY <1>2, <2>2 DEF Boot, InCompare
    <3> QED
      BY <2>2, <3>1, StoreWrites DEF DeadlineHalf
  <2> QED
    BY <2>1, <2>2
<1>4. ASSUME NEW d \in Contexts
      PROVE  InRegister(d)'
  <2>1. CASE d = c
    <3>1. reg' = reg /\ mtime' = mtime /\ stage[c] = "store" /\ stage'[c] \in {"store", "done"}
      BY StoreWrites DEF TypeOK
    <3> QED
      BY <2>1, <3>1 DEF Boot, InRegister, DeadlineHalf
  <2>2. CASE d # c
    <3>1. /\ reg' = reg /\ mtime' = mtime
          /\ stage'[d] = stage[d] /\ todo'[d] = todo[d]
      BY <2>2, StoreWrites DEF TypeOK
    <3> QED
      BY <3>1 DEF Boot, InRegister, DeadlineHalf, ReadHalf
  <2> QED
    BY <2>1, <2>2
<1>5. Once'
  <2>1. CASE c = "main"
    BY <2>1, StoreWrites DEF Boot, Once, TypeOK, Contexts
  <2>2. CASE c = "isr"
    <3>1. sys_tick = 0
      BY <2>2, StoreWrites DEF Boot, Once
    <3> QED
      BY <2>2, <3>1, StoreWrites DEF Once, TypeOK, Contexts
  <2> QED
    BY <2>1, <2>2 DEF Contexts
<1> QED
  BY <1>3, <1>4, <1>5, AccessCounts DEF Boot

(* Whichever half main and timer_isr wrote last, the first deadline is worth  *)
(* the tick that may have come before it.                                     *)
LEMMA MainDone ==
    ASSUME TypeOK, TypeOK', Booting, Boot, ~Booting',
           NEW c \in Contexts, NEW half \in Halves, store(c, half)
    PROVE  Steady'
<1>1. c = "main" /\ todo["main"] = {half}
  BY StoreWrites DEF Booting, TypeOK, Contexts
<1>2. stage["isr"] = "done" /\ stage'["isr"] = "done" /\ sys_tick' = sys_tick /\ mtime' = mtime
  BY <1>1, StoreWrites DEF store, Running, TypeOK, Contexts
<1>3. ASSUME NEW h \in Halves
      PROVE  DeadlineHalf(h, mtimecmp'[h])
  <2>1. CASE h = half
    BY <2>1, <1>1, StoreWrites DEF Boot, InRegister
  <2>2. CASE h # half
    <3>1. stage["main"] = "store" /\ h \notin todo["main"]
      BY <1>1, <2>2, StoreWrites
    <3>2. DeadlineHalf(h, mtimecmp[h])
      BY <3>1 DEF Boot, InCompare, Written
    <3> QED
      BY <2>2, <3>2, StoreWrites
  <2> QED
    BY <2>1, <2>2
<1>4. PICK d \in Contents : d = mtimecmp'
  BY DEF TypeOK
<1>5. d.hi = 0 /\ TICK_INTERVAL <= d.lo /\ d.lo <= mtime + TICK_INTERVAL /\ Value(d) = d.lo
  <2>1. DeadlineHalf("hi", d["hi"]) /\ DeadlineHalf("lo", d["lo"])
    BY <1>3, <1>4 DEF Halves
  <2>2. d.hi = 0 /\ TICK_INTERVAL <= d.lo /\ d.lo <= mtime + TICK_INTERVAL
    BY <2>1 DEF DeadlineHalf
  <2>3. 0 * WORD = 0 /\ d.lo \in Nat
    BY Positive, ValueType
  <2> QED
    BY <2>2, <2>3 DEF Value
<1>6. InSight(d)
  <2>1. d.lo \in Nat
    BY ValueType
  <2> QED
    BY <1>5, <2>1, CarriesType, Positive DEF InSight
<1>7. Afforded(sys_tick, d)
  <2>1. sys_tick \in {0, 1}
    BY DEF Boot, Once
  <2>2. Covered(sys_tick, d.lo, 0)
    BY <1>5, <2>1, FirstTick, ValueType
  <2> QED
    BY <1>5, <2>2 DEF Afforded
<1>8. InSight(mtimecmp)' /\ Afforded(sys_tick, mtimecmp)'
  BY <1>2, <1>4, <1>6, <1>7 DEF InSight, Afforded, Covered, Carries
<1> QED
  BY <1>2, <1>8 DEF Steady

LEMMA StoreSteady ==
    ASSUME TypeOK, TypeOK', ~Booting, Steady, NEW c \in Contexts, NEW half \in Halves,
           store(c, half)
    PROVE  Steady'
<1>1. c = "isr" /\ stage["isr"] = "store"
  BY DEF store, Running, Booting, Contexts
<1>2. Storing /\ UNCHANGED <<mtime, reg>>
  BY <1>1, StoreWrites DEF Steady
<1>3. \A h \in Halves : h \notin todo["isr"] \ {half} => mtimecmp'[h] = reg["isr"][h]
  BY <1>1, <1>2, StoreWrites DEF Storing
<1>4. CASE todo["isr"] = {half}
  <2>1. stage'["isr"] = "done" /\ sys_tick' = sys_tick + 1
    BY <1>1, <1>4, StoreWrites DEF TypeOK, Contexts
  <2>2. mtimecmp' = reg["isr"]
    <3>1. mtimecmp'.lo = reg["isr"].lo /\ mtimecmp'.hi = reg["isr"].hi
      BY <1>3, <1>4 DEF Halves
    <3>2. mtimecmp' \in Contents /\ reg["isr"] \in Contents
      BY DEF TypeOK, Contexts
    <3> QED
      BY <3>1, <3>2 DEF Contents
  <2>3. InSight(mtimecmp)' /\ Afforded(sys_tick, mtimecmp)'
    BY <1>2, <2>1, <2>2 DEF Storing, InSight, Afforded, Covered, Carries
  <2> QED
    BY <2>1, <2>3 DEF Steady
<1>5. CASE todo["isr"] # {half}
  <2>1. stage'["isr"] = "store" /\ sys_tick' = sys_tick /\ todo'["isr"] = todo["isr"] \ {half}
    BY <1>1, <1>5, StoreWrites DEF TypeOK, Contexts
  <2>2. /\ Covered(sys_tick, mtime, Carries)'
        /\ InSight(reg["isr"])' /\ Afforded(sys_tick + 1, reg["isr"])'
    BY <1>2, <2>1 DEF Storing, InSight, Afforded, Covered, Carries
  <2>3. Storing'
    BY <1>2, <1>3, <2>1, <2>2 DEF Storing
  <2> QED
    BY <2>1, <2>3 DEF Steady
<1> QED
  BY <1>4, <1>5

LEMMA StoreKeeps ==
    ASSUME IInv, TypeOK', NEW c \in Contexts, NEW half \in Halves, store(c, half)
    PROVE  TicksInTime' /\ IF Booting' THEN Boot' ELSE Steady'
<1>1. TypeOK /\ TicksInTime /\ mtime' = mtime
  BY StoreWrites DEF IInv
<1>2. TicksInTime'
  <2>1. CASE sys_tick' = sys_tick
    BY <1>1, <2>1 DEF TicksInTime
  <2>2. CASE sys_tick' # sys_tick
    <3>1. c = "isr" /\ stage["isr"] = "store" /\ sys_tick' = sys_tick + 1
      BY <1>1, <2>2, StoreWrites
    <3>2. Covered(sys_tick + 1, mtime, Carries + 1)
      <4>1. CASE Booting
        <5>1. sys_tick = 0 /\ sys_tick + 1 \in {0, 1}
          BY <3>1, <4>1 DEF IInv, Boot, Once
        <5> QED
          BY <1>1, <5>1, FirstTick, CarriesType
      <4>2. CASE ~Booting
        <5>1. Covered(sys_tick, mtime, Carries)
          BY <3>1, <4>2 DEF IInv, Steady, Storing
        <5> QED
          BY <1>1, <5>1, AnotherTick, CarriesType
      <4> QED
        BY <4>1, <4>2
    <3> QED
      BY <1>1, <3>1, <3>2 DEF TicksInTime, Covered, Carries
  <2> QED
    BY <2>1, <2>2
<1>3. Booting' => Booting
  BY <1>1, StoreWrites DEF Booting, TypeOK, Contexts
<1> QED
  BY <1>1, <1>2, <1>3, StoreInBoot, MainDone, StoreSteady DEF IInv

---------------------------------------------------------------------------------
LEMMA TimerInit == Init => IInv
<1> SUFFICES ASSUME Init PROVE IInv
  OBVIOUS
<1>1. TypeOK
  BY InitTyped
<1>2. /\ mtime = 0 /\ sys_tick = 0 /\ lag = 0 /\ Booting
      /\ stage["main"] = "load" /\ stage["isr"] = "done" /\ todo["main"] = Halves /\ todo["isr"] = {}
  BY DEF Init, Booting
<1>3. TicksInTime
  BY <1>1, <1>2, FirstTick, TicksCovered, CarriesType
<1>4. BootIsShort
  <2>1. Remaining("main") = 4 /\ InterruptRemaining = 5
    BY <1>2 DEF Remaining, InterruptRemaining, Count, Halves
  <2>2. MaxLag * 9 = 9 * MaxLag
    BY Positive
  <2> QED
    BY <1>2, <2>1, <2>2, Positive DEF BootIsShort
<1>5. InCompare /\ Once
  BY <1>2 DEF InCompare, Written, Once
<1>6. \A c \in Contexts : InRegister(c)
  BY <1>2 DEF InRegister, Contexts
<1> QED
  BY <1>1, <1>2, <1>3, <1>4, <1>5, <1>6 DEF IInv, Boot

LEMMA TimerStep == IInv /\ [Next]_vars => IInv'
<1> SUFFICES ASSUME IInv, [Next]_vars PROVE IInv'
  OBVIOUS
<1>1. TypeOK /\ TypeOK'
  BY StepTyped DEF IInv
<1>2. CASE clock
  BY <1>1, <1>2, ClockKeeps
<1>3. CASE trap_handler
  BY <1>1, <1>3, TrapKeeps DEF IInv
<1>4. ASSUME NEW c \in Contexts, NEW half \in Halves, load(c, half) \/ store(c, half)
      PROVE  IInv'
  BY <1>1, <1>4, LoadKeeps, StoreKeeps DEF IInv
<1>5. CASE UNCHANGED vars
  BY <1>5
     DEF vars, IInv, TypeOK, TicksInTime, Booting, Boot, BootIsShort, Remaining,
         InterruptRemaining, Once, InCompare, Written, DeadlineHalf, ReadHalf, InRegister,
         Steady, Loading, LowRead, HighRead, Storing, InSight, Afforded, Covered, Carries
<1> QED
  BY <1>2, <1>3, <1>4, <1>5 DEF Next

(* Boot takes less than a tick, and afterwards every tick is paid for by an   *)
(* interval or a carry (timer_isr and main's first deadline, main.c).         *)
THEOREM TimerInvariant == Spec => []IInv
BY TimerInit, TimerStep, PTL DEF Spec

(* The next tick is an interval away at most, until MTIME carries, and at     *)
(* most one round of its low half more after that.                            *)
THEOREM TickInSight == Spec => []NextTickInSight
<1>1. IInv => NextTickInSight
  BY DEF IInv, Booting, Steady, InSight, NextTickInSight, Armed
<1> QED
  BY <1>1, TimerInvariant, PTL

(* Ticks are never ahead of the time by more than one for every carry of      *)
(* MTIME and one at boot.                                                     *)
THEOREM TicksKeepTime == Spec => []TicksInTime
<1>1. IInv => TicksInTime
  BY DEF IInv
<1> QED
  BY <1>1, TimerInvariant, PTL
=================================================================================

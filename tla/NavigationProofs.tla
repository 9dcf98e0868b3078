---------------------------- MODULE NavigationProofs ----------------------------
(***************************************************************************)
(* Proofs about Navigation for any limits that meet its assumptions, any   *)
(* extent of the coordinates, and any outcome of a product that overflows. *)
(*                                                                         *)
(* An overflowing step * adlat exceeds INT32_MAX, so what is left of it,   *)
(* divided by total, is no larger than step (ShareBound).  Each part of a  *)
(* step is then at most 2 * position_step and at least MIN_STEP, and       *)
(* survives being scaled down (ScaledRemains).                             *)
(***************************************************************************)
EXTENDS Navigation, TLAPS

(* Arithmetic. *)
LEMMA Distribute ==
    ASSUME NEW a \in Int, NEW b \in Int, NEW c \in Int
    PROVE  (a + b) * c = a * c + b * c
OBVIOUS

LEMMA TimesMonotonic ==
    ASSUME NEW a \in Nat, NEW b \in Nat, NEW c \in Nat, a <= b
    PROVE  a * c <= b * c
<1>1. PICK d \in Nat : b = a + d
  <2>1. b - a \in Nat /\ b = a + (b - a)
    OBVIOUS
  <2> QED
    BY <2>1
<1>2. b * c = a * c + d * c /\ d * c \in Nat /\ a * c \in Nat
  BY <1>1
<1> QED
  BY <1>2

(* Division by a positive number, by its bounds. *)
LEMMA DivIsNat ==
    ASSUME NEW n \in Nat, NEW c \in Nat \ {0}
    PROVE  n \div c \in Nat
OBVIOUS

LEMMA DivDefinition ==
    ASSUME NEW n \in Nat, NEW c \in Nat \ {0}
    PROVE  (n \div c) * c <= n /\ n < (n \div c) * c + c
OBVIOUS

LEMMA DivBelow ==
    ASSUME NEW n \in Nat, NEW c \in Nat \ {0}, NEW high \in Nat, n <= high * c
    PROVE  n \div c <= high
<1>1. SUFFICES ASSUME high + 1 <= n \div c PROVE FALSE
  BY DivIsNat
<1>2. (high + 1) * c <= (n \div c) * c
  BY <1>1, DivIsNat, TimesMonotonic
<1>3. (high + 1) * c = high * c + c /\ high * c \in Nat
  OBVIOUS
<1>4. (n \div c) * c \in Nat
  BY DivIsNat
<1> QED
  BY <1>2, <1>3, <1>4, DivDefinition

LEMMA DivAbove ==
    ASSUME NEW n \in Nat, NEW c \in Nat \ {0}, NEW low \in Nat, low * c <= n
    PROVE  low <= n \div c
<1>1. SUFFICES ASSUME n \div c + 1 <= low PROVE FALSE
  BY DivIsNat
<1>2. (n \div c + 1) * c <= low * c
  BY <1>1, DivIsNat, TimesMonotonic
<1>3. (n \div c + 1) * c = (n \div c) * c + c /\ (n \div c) * c \in Nat
  BY DivIsNat
<1>4. low * c \in Nat
  OBVIOUS
<1> QED
  BY <1>2, <1>3, <1>4, DivDefinition

---------------------------------------------------------------------------------
(* Steps *)

LEMMA ComputedType ==
    ASSUME NEW n \in Nat, NEW p \in Computed(n)
    PROVE  p \in Int /\ (p = n \/ (n > INT32_MAX /\ -INT32_MAX - 1 <= p /\ p <= INT32_MAX))
BY SpanAssumption DEF Computed, Int32

LEMMA QuotientType ==
    ASSUME NEW a \in Int, NEW b \in Nat \ {0}
    PROVE  Quotient(a, b) \in Int
<1>1. CASE a >= 0
  BY <1>1, DivIsNat DEF Quotient
<1>2. CASE a < 0
  <2>1. -a \in Nat
    BY <1>2
  <2>2. (-a) \div b \in Nat
    BY <2>1, DivIsNat
  <2> QED
    BY <1>2, <2>2 DEF Quotient
<1> QED
  BY <1>1, <1>2

(* A step is within its limits, whatever the product was. *)
LEMMA StepBounds ==
    ASSUME NEW d \in Nat, NEW max_step \in Nat \ {0}, NEW step \in Steps(d, max_step)
    PROVE  step \in 1 .. max_step /\ (MIN_STEP <= max_step => MIN_STEP <= step)
<1>1. PICK product \in Computed(d * 3) :
         step = Least(Raised(Quotient(product, 10), MIN_STEP), max_step)
  BY DEF Steps
<1>2. d * 3 \in Nat
  OBVIOUS
<1>3. product \in Int
  BY <1>1, <1>2, ComputedType
<1>4. Quotient(product, 10) \in Int
  BY <1>3, QuotientType
<1> HIDE <1>3
<1> QED
  BY <1>1, <1>4, StepAssumption DEF Least, Raised

(* The part of a step that falls to the latitude is no more than the step. *)
LEMMA ShareBound ==
    ASSUME NEW step \in Nat, NEW adlat \in Nat, NEW total \in Nat \ {0}, adlat <= total,
           NEW share \in Shares(adlat, total, step)
    PROVE  share \in Int /\ -step <= share /\ share <= step
<1>1. PICK product \in Computed(step * adlat) : share = Quotient(product, total)
  BY DEF Shares
<1>2. step * adlat \in Nat /\ step * total \in Nat
  OBVIOUS
<1>3. step * adlat <= step * total
  <2>1. adlat * step <= total * step
    BY TimesMonotonic
  <2>2. adlat * step = step * adlat /\ total * step = step * total
    OBVIOUS
  <2> QED
    BY <2>1, <2>2
<1>4. product \in Int /\ -(step * total) <= product /\ product <= step * total
  <2>1. product \in Int /\ (product = step * adlat \/
            (step * adlat > INT32_MAX /\ -INT32_MAX - 1 <= product /\ product <= INT32_MAX))
    BY <1>1, <1>2, ComputedType
  <2>2. INT32_MAX \in Nat
    BY SpanAssumption
  <2> QED
    BY <1>2, <1>3, <2>1, <2>2
<1>5. CASE product >= 0
  <2>1. product \in Nat /\ share = product \div total
    BY <1>1, <1>4, <1>5 DEF Quotient
  <2> QED
    BY <1>4, <2>1, DivBelow, DivIsNat
<1>6. CASE product < 0
  <2>1. -product \in Nat /\ share = -((-product) \div total)
    BY <1>1, <1>4, <1>6 DEF Quotient
  <2>2. -product <= step * total
    BY <1>2, <1>4
  <2>3. (-product) \div total <= step /\ (-product) \div total \in Nat
    BY <2>1, <2>2, DivBelow, DivIsNat
  <2> QED
    BY <2>1, <2>3
<1> QED
  BY <1>4, <1>5, <1>6

LEMMA StepSizes ==
    /\ MIN_STEP \in Nat \ {0} /\ position_step \in Nat \ {0}
    /\ MIN_STEP * position_step \in Nat
    /\ MIN_STEP * position_step >= 2 * MIN_STEP
    /\ MIN_STEP * position_step >= MIN_STEP + 2 * position_step
<1>1. MIN_STEP \in Nat \ {0} /\ position_step \in Nat
      /\ MIN_STEP * position_step >= MIN_STEP + 2 * position_step
  BY StepAssumption
<1>2. MIN_STEP * 0 = 0 /\ MIN_STEP * 1 = MIN_STEP
  BY <1>1
<1>3. position_step # 0 /\ position_step # 1
  BY <1>1, <1>2
<1>4. 2 * MIN_STEP <= position_step * MIN_STEP
  BY <1>1, <1>3, TimesMonotonic
<1>5. position_step * MIN_STEP = MIN_STEP * position_step /\ MIN_STEP * position_step \in Nat
  BY <1>1
<1> QED
  BY <1>1, <1>3, <1>4, <1>5

(* Two parts of a step stay together within position_step. *)
LEMMA ScaledTogether ==
    ASSUME NEW a \in Nat, NEW b \in Nat
    PROVE  /\ Scaled(a, b) \in Nat /\ Scaled(b, a) \in Nat
           /\ Scaled(a, b) + Scaled(b, a) <= position_step
<1>0. position_step \in Nat
  BY StepSizes
<1>1. CASE a + b <= position_step
  BY <1>0, <1>1 DEF Scaled
<1>2. CASE a + b > position_step
  <2> DEFINE t == a + b
             p == (a * position_step) \div t
             q == (b * position_step) \div t
  <2>1. t \in Nat \ {0} /\ a * position_step \in Nat /\ b * position_step \in Nat
    BY <1>0, <1>2
  <2>2. Scaled(a, b) = p /\ Scaled(b, a) = q
    <3>1. b + a = a + b
      OBVIOUS
    <3> QED
      BY <1>0, <1>2, <2>1, <3>1 DEF Scaled, Quotient
  <2>3. p \in Nat /\ q \in Nat
    BY <2>1, DivIsNat
  <2>4. p * t <= a * position_step /\ q * t <= b * position_step
    BY <2>1, DivDefinition
  <2>5. a * position_step + b * position_step = t * position_step
    BY <1>0, Distribute
  <2> HIDE DEF t, p, q
  <2>6. (p + q) * t = p * t + q * t
    BY <2>1, <2>3, Distribute
  <2>7. p * t \in Nat /\ q * t \in Nat
    BY <2>1, <2>3
  <2>8. (p + q) * t <= t * position_step
    BY <2>1, <2>4, <2>5, <2>6, <2>7
  <2>9. p + q <= position_step
    <3> SUFFICES ASSUME position_step + 1 <= p + q PROVE FALSE
      BY <1>0, <2>3
    <3>1. (position_step + 1) * t <= (p + q) * t
      <4>1. p + q \in Nat /\ position_step + 1 \in Nat
        BY <1>0, <2>3
      <4> QED
        BY <2>1, <4>1, TimesMonotonic
    <3>2. (position_step + 1) * t = position_step * t + t
      BY <1>0, <2>1, Distribute
    <3>3. position_step * t = t * position_step /\ t * position_step \in Nat
      BY <1>0, <2>1
    <3>4. (p + q) * t \in Nat
      BY <2>6, <2>7
    <3> QED
      BY <2>1, <2>8, <3>1, <3>2, <3>3, <3>4
  <2> QED
    BY <2>2, <2>3, <2>9
<1> QED
  BY <1>0, <1>1, <1>2

(* A part of MIN_STEP or more does not vanish when it is scaled down. *)
LEMMA ScaledRemains ==
    ASSUME NEW a \in Nat, NEW b \in Nat, MIN_STEP <= a,
           b <= 2 * position_step \/ b <= MIN_STEP
    PROVE  1 <= Scaled(a, b)
<1>0. position_step \in Nat \ {0} /\ MIN_STEP \in Nat \ {0}
  BY StepSizes
<1>1. CASE a + b <= position_step
  BY <1>0, <1>1 DEF Scaled
<1>2. CASE a + b > position_step
  <2>1. a + b \in Nat \ {0} /\ a * position_step \in Nat
    BY <1>0, <1>2
  <2>2. a + b <= a * position_step
    <3>1. MIN_STEP * (position_step - 1) <= a * (position_step - 1)
      <4>1. position_step - 1 \in Nat
        BY <1>0
      <4> QED
        BY <1>0, <4>1, TimesMonotonic
    <3>2. /\ MIN_STEP * (position_step - 1) = MIN_STEP * position_step - MIN_STEP
          /\ a * (position_step - 1) = a * position_step - a
      BY <1>0
    <3>3. b <= MIN_STEP * position_step - MIN_STEP
      BY <1>0, StepSizes
    <3>4. MIN_STEP * position_step \in Nat
      BY StepSizes
    <3> QED
      BY <1>0, <2>1, <3>1, <3>2, <3>3, <3>4
  <2>3. Scaled(a, b) = (a * position_step) \div (a + b)
    BY <1>0, <1>2, <2>1 DEF Scaled, Quotient
  <2>4. 1 * (a + b) <= a * position_step
    BY <2>1, <2>2
  <2> QED
    BY <2>1, <2>3, <2>4, DivAbove
<1> QED
  BY <1>0, <1>1, <1>2

(* However step * adlat comes out, move_toward_2d moves every axis that is   *)
(* not at its target, none past it, and no more than position_step together. *)
LEMMA SplitBounds ==
    ASSUME NEW adlat \in Nat, NEW adlon \in Nat, adlat + adlon > 0,
           NEW step \in Steps(adlat + adlon, position_step),
           NEW lat_step \in Shares(adlat, adlat + adlon, step),
           NEW split, split = Split(adlat, adlon, step, lat_step)
    PROVE  /\ split.lat \in 0 .. adlat /\ split.lon \in 0 .. adlon
           /\ adlat > 0 => split.lat >= 1
           /\ adlon > 0 => split.lon >= 1
           /\ split.lat + split.lon <= position_step
<1> DEFINE a == OnAxis(lat_step, adlat)
           b == OnAxis(step - lat_step, adlon)
<1>1. position_step \in Nat \ {0} /\ MIN_STEP \in Nat \ {0}
  BY StepSizes
<1>2. step \in Nat /\ step <= position_step
  <2>1. adlat + adlon \in Nat
    OBVIOUS
  <2> QED
    BY <1>1, <2>1, StepBounds
<1>3. lat_step \in Int /\ -step <= lat_step /\ lat_step <= step
  <2>1. adlat + adlon \in Nat \ {0} /\ adlat <= adlat + adlon
    OBVIOUS
  <2> QED
    BY <1>2, <2>1, ShareBound
<1>4. adlat = 0 => lat_step = 0
  <2> SUFFICES ASSUME adlat = 0 PROVE lat_step = 0
    OBVIOUS
  <2>1. PICK product \in Computed(step * adlat) : lat_step = Quotient(product, adlat + adlon)
    BY DEF Shares
  <2>2. step * adlat = 0 /\ 0 <= INT32_MAX
    BY <1>2, SpanAssumption
  <2>3. product = 0
    BY <2>1, <2>2 DEF Computed
  <2>4. 0 * (adlat + adlon) = 0 /\ adlat + adlon \in Nat \ {0}
    OBVIOUS
  <2>5. 0 \div (adlat + adlon) <= 0 /\ 0 \div (adlat + adlon) \in Nat
    BY <2>4, DivBelow, DivIsNat
  <2> QED
    BY <2>1, <2>3, <2>5 DEF Quotient
<1>5. a \in Nat /\ (adlat > 0 => MIN_STEP <= a) /\ (a <= 2 * position_step \/ a <= MIN_STEP)
  BY <1>1, <1>2, <1>3, <1>4 DEF OnAxis, Raised
<1>6. b \in Nat /\ (adlon > 0 => MIN_STEP <= b) /\ (b <= 2 * position_step \/ b <= MIN_STEP)
  BY <1>1, <1>2, <1>3 DEF OnAxis, Raised
<1>7. split.lat = Within(Scaled(a, b), adlat) /\ split.lon = Within(Scaled(b, a), adlon)
  BY DEF Split
<1> HIDE DEF a, b
<1>8. /\ Scaled(a, b) \in Nat /\ Scaled(b, a) \in Nat
      /\ Scaled(a, b) + Scaled(b, a) <= position_step
  BY <1>5, <1>6, ScaledTogether
<1>9. adlat > 0 => 1 <= Scaled(a, b)
  BY <1>5, <1>6, ScaledRemains
<1>10. adlon > 0 => 1 <= Scaled(b, a)
  BY <1>5, <1>6, ScaledRemains
<1> QED
  BY <1>1, <1>7, <1>8, <1>9, <1>10 DEF Within

---------------------------------------------------------------------------------
(* An update *)

LEMMA ThresholdType == TypeOK => wp_threshold_from_radius \in Nat
<1> SUFFICES ASSUME TypeOK PROVE wp_threshold_from_radius \in Nat
  OBVIOUS
<1>1. Limited(wp_radius_m) \in Nat
  BY RadiusAssumption DEF TypeOK, Limited, Least, Raised
<1>2. PER_METRE \in Nat
  BY RadiusAssumption
<1> QED
  BY <1>1, <1>2 DEF wp_threshold_from_radius

LEMMA Coordinates ==
    ASSUME TypeOK
    PROVE  /\ current_lat \in Nat /\ current_lon \in Nat /\ current_alt_mm \in Nat
           /\ target.lat \in Nat /\ target.lon \in Nat /\ target.alt \in Nat
BY SpanAssumption DEF TypeOK, Places, Lats, Lons, Alts

(* Shifting by no more than the distance left brings a coordinate nearer. *)
LEMMA ShiftedNearer ==
    ASSUME NEW from \in Nat, NEW to \in Nat, NEW step \in 0 .. abs_i32(to - from),
           abs_i32(to - from) > 0 => step >= 1
    PROVE  /\ Nearer(from, Shifted(from, to, step), to)
           /\ Shifted(from, to, step) \in Int
           /\ abs_i32(Shifted(from, to, step) - from) = step
BY DEF abs_i32, Shifted, Nearer

LEMMA GroundNearer ==
    ASSUME TypeOK, MoveToward2d(wp_threshold_from_radius)
    PROVE  /\ current_lat' \in Int /\ current_lon' \in Int
           /\ Nearer(current_lat, current_lat', target.lat)
           /\ Nearer(current_lon, current_lon', target.lon)
           /\ \/ abs_i32(current_lat' - current_lat) + abs_i32(current_lon' - current_lon)
                    <= position_step
              \/ /\ abs_i32(current_lat' - current_lat) <= wp_threshold_from_radius
                 /\ abs_i32(current_lon' - current_lon) <= wp_threshold_from_radius
<1> DEFINE adlat == abs_i32(target.lat - current_lat)
           adlon == abs_i32(target.lon - current_lon)
           threshold == wp_threshold_from_radius
<1>1. /\ current_lat \in Nat /\ current_lon \in Nat
      /\ target.lat \in Nat /\ target.lon \in Nat /\ threshold \in Nat
  BY Coordinates, ThresholdType
<1>2. adlat \in Nat /\ adlon \in Nat
  BY <1>1 DEF abs_i32
<1>3. CASE adlat <= threshold /\ adlon <= threshold
  <2>1. current_lat' = target.lat /\ current_lon' = target.lon
    BY <1>3 DEF MoveToward2d
  <2>2. Nearer(current_lat, target.lat, target.lat) /\ Nearer(current_lon, target.lon, target.lon)
    BY <1>1 DEF Nearer
  <2> QED
    BY <1>1, <1>3, <2>1, <2>2
<1>4. CASE ~(adlat <= threshold /\ adlon <= threshold)
  <2>1. PICK step \in Steps(adlat + adlon, position_step) :
        \E lat_step \in Shares(adlat, adlat + adlon, step) :
          LET split == Split(adlat, adlon, step, lat_step) IN
          /\ current_lat' = Shifted(current_lat, target.lat, split.lat)
          /\ current_lon' = Shifted(current_lon, target.lon, split.lon)
    BY <1>4 DEF MoveToward2d
  <2>2. PICK lat_step \in Shares(adlat, adlat + adlon, step) :
          LET split == Split(adlat, adlon, step, lat_step) IN
          /\ current_lat' = Shifted(current_lat, target.lat, split.lat)
          /\ current_lon' = Shifted(current_lon, target.lon, split.lon)
    BY <2>1
  <2> DEFINE split == Split(adlat, adlon, step, lat_step)
  <2>3. current_lat' = Shifted(current_lat, target.lat, split.lat)
        /\ current_lon' = Shifted(current_lon, target.lon, split.lon)
    BY <2>2
  <2>4. adlat + adlon > 0
    BY <1>1, <1>2, <1>4
  <2>5. /\ split.lat \in 0 .. adlat /\ split.lon \in 0 .. adlon
        /\ adlat > 0 => split.lat >= 1
        /\ adlon > 0 => split.lon >= 1
        /\ split.lat + split.lon <= position_step
    <3> HIDE DEF adlat, adlon, split
    <3> QED
      BY <1>2, <2>4, SplitBounds DEF split
  <2> HIDE DEF split
  <2>6. /\ Nearer(current_lat, current_lat', target.lat) /\ current_lat' \in Int
        /\ abs_i32(current_lat' - current_lat) = split.lat
    BY <1>1, <2>3, <2>5, ShiftedNearer
  <2>7. /\ Nearer(current_lon, current_lon', target.lon) /\ current_lon' \in Int
        /\ abs_i32(current_lon' - current_lon) = split.lon
    BY <1>1, <2>3, <2>5, ShiftedNearer
  <2> QED
    BY <2>5, <2>6, <2>7
<1> QED
  BY <1>3, <1>4

LEMMA AltitudeNearer ==
    ASSUME TypeOK, current_alt_mm' \in MoveToward(current_alt_mm, target.alt,
                                                  altitude_step, altitude_threshold)
    PROVE  Nearer(current_alt_mm, current_alt_mm', target.alt) /\ current_alt_mm' \in Int
<1> DEFINE adiff == abs_i32(target.alt - current_alt_mm)
<1>1. current_alt_mm \in Nat /\ target.alt \in Nat
  BY Coordinates
<1>2. adiff \in Nat
  BY <1>1 DEF abs_i32
<1>3. CASE adiff <= altitude_threshold
  <2>1. current_alt_mm' = target.alt
    BY <1>3 DEF MoveToward
  <2> QED
    BY <1>1, <2>1 DEF Nearer
<1>4. CASE ~(adiff <= altitude_threshold)
  <2>1. PICK step \in Steps(adiff, altitude_step) :
          current_alt_mm' = Shifted(current_alt_mm, target.alt, step)
    BY <1>4 DEF MoveToward
  <2>2. altitude_step \in Nat \ {0} /\ altitude_threshold \in Nat
        /\ altitude_step <= altitude_threshold
    BY StepAssumption
  <2>3. step \in 1 .. altitude_step
    <3> HIDE DEF adiff
    <3> QED
      BY <1>2, <2>2, StepBounds
  <2>4. step \in 0 .. adiff /\ step >= 1
    BY <1>2, <1>4, <2>2, <2>3
  <2> QED
    BY <1>1, <2>1, <2>4, ShiftedNearer
<1> QED
  BY <1>3, <1>4

(* Every update brings each coordinate nearer to the target. *)
LEMMA UpdateNearer ==
    ASSUME TypeOK, mission_update
    PROVE  /\ Nearer(current_lat, current_lat', target.lat)
           /\ Nearer(current_lon, current_lon', target.lon)
           /\ Nearer(current_alt_mm, current_alt_mm', target.alt)
<1>1. CASE Arrives
  BY <1>1, Coordinates DEF Arrives, Nearer
<1>2. CASE Flies
  BY <1>2, GroundNearer, AltitudeNearer DEF Flies
<1> QED
  BY <1>1, <1>2 DEF mission_update

---------------------------------------------------------------------------------
(* The heading *)

LEMMA AngleType ==
    ASSUME NEW smaller \in Nat, NEW larger \in Nat \ {0}, NEW angle \in Angles(smaller, larger)
    PROVE  angle \in 0 .. OCTANT * CENTI
<1>1. RATIO \in Nat \ {0} /\ OCTANT \in Nat /\ CENTI \in Nat /\ OCTANT * CENTI \in Nat
  BY HeadingAssumption
<1>2. \A n \in Nat : Clamped(n) \in 0 .. OCTANT * CENTI
  BY <1>1 DEF Clamped, Least
<1>3. CASE smaller * RATIO <= INT32_MAX
  <2> DEFINE ratio == (smaller * RATIO) \div larger
             degrees == (OCTANT * ratio) \div RATIO
  <2>1. smaller * RATIO \in Nat
    BY <1>1
  <2>2. ratio \in Nat
    BY <2>1, DivIsNat
  <2>3. OCTANT * ratio \in Nat
    <3> HIDE DEF ratio
    <3> QED
      BY <1>1, <2>2
  <2>4. degrees \in Nat
    BY <1>1, <2>3, DivIsNat
  <2>5. degrees * CENTI \in Nat
    <3> HIDE DEF degrees
    <3> QED
      BY <1>1, <2>4
  <2>6. angle = Clamped(degrees * CENTI)
    BY <1>3 DEF Angles
  <2> QED
    BY <1>2, <2>5, <2>6
<1>4. CASE ~(smaller * RATIO <= INT32_MAX)
  BY <1>2, <1>4, HeadingAssumption DEF Angles
<1> QED
  BY <1>3, <1>4

LEMMA TurnInQuadrant ==
    ASSUME TypeOK, Turn
    PROVE  LET dlat == target.lat - current_lat
               dlon == target.lon - current_lon
           IN  IF dlat # 0 \/ dlon # 0
               THEN current_heading' \in Quadrant(dlat, dlon)
               ELSE current_heading' = current_heading
<1> DEFINE dlat == target.lat - current_lat
           dlon == target.lon - current_lon
           larger == IF abs_i32(dlat) >= abs_i32(dlon) THEN abs_i32(dlat) ELSE abs_i32(dlon)
<1>1. dlat \in Int /\ dlon \in Int
  BY Coordinates
<1>2. larger \in Nat /\ (larger = 0 <=> dlat = 0 /\ dlon = 0)
      /\ Least(abs_i32(dlat), abs_i32(dlon)) \in Nat
  BY <1>1 DEF abs_i32, Least
<1>3. CASE larger = 0
  BY <1>2, <1>3 DEF Turn
<1>4. CASE larger > 0
  <2>1. PICK angle \in Angles(Least(abs_i32(dlat), abs_i32(dlon)), larger) :
          current_heading' = InQuadrant(dlat, dlon, angle) \div CENTI
    BY <1>4 DEF Turn
  <2> HIDE DEF dlat, dlon, larger
  <2>2. angle \in 0 .. OCTANT * CENTI
    BY <1>2, <1>4, AngleType
  <2>3. OCTANT \in Nat /\ CENTI \in Nat \ {0} /\ OCTANT * CENTI \in Nat
    BY HeadingAssumption
  <2>4. /\ 4 * OCTANT * CENTI = 4 * (OCTANT * CENTI) /\ 8 * OCTANT * CENTI = 8 * (OCTANT * CENTI)
        /\ 2 * OCTANT * CENTI = 2 * (OCTANT * CENTI) /\ 6 * OCTANT * CENTI = 6 * (OCTANT * CENTI)
    BY <2>3
  <2>5. \A n, low, high \in Nat : low * CENTI <= n /\ n <= high * CENTI
           => n \div CENTI \in low .. high
    BY <2>3, DivAbove, DivBelow, DivIsNat
  <2>6. InQuadrant(dlat, dlon, angle) \div CENTI \in Quadrant(dlat, dlon)
    <3>1. CASE dlon >= 0 /\ dlat >= 0
      <4>1. 0 * CENTI <= angle /\ angle <= 2 * OCTANT * CENTI /\ angle \in Nat
            /\ 2 * OCTANT \in Nat
        BY <2>2, <2>3, <2>4
      <4>2. angle \div CENTI \in 0 .. 2 * OCTANT
        BY <2>5, <4>1
      <4>3. InQuadrant(dlat, dlon, angle) = angle
        BY <1>1, <3>1 DEF InQuadrant
      <4>4. Quadrant(dlat, dlon) = 0 .. 2 * OCTANT
        BY <1>1, <3>1 DEF Quadrant
      <4> QED
        BY <4>2, <4>3, <4>4
    <3>2. CASE dlon >= 0 /\ dlat < 0
      <4> DEFINE n == 4 * OCTANT * CENTI - angle
      <4>1. 2 * OCTANT * CENTI <= n /\ n <= 4 * OCTANT * CENTI /\ n \in Nat
            /\ 2 * OCTANT \in Nat /\ 4 * OCTANT \in Nat
        BY <2>2, <2>3, <2>4
      <4> HIDE DEF n
      <4>2. n \div CENTI \in 2 * OCTANT .. 4 * OCTANT
        BY <2>5, <4>1
      <4>3. InQuadrant(dlat, dlon, angle) = n
        BY <1>1, <3>2 DEF InQuadrant, n
      <4>4. Quadrant(dlat, dlon) = 2 * OCTANT .. 4 * OCTANT
        BY <1>1, <3>2 DEF Quadrant
      <4> QED
        BY <4>2, <4>3, <4>4
    <3>3. CASE dlon < 0 /\ dlat < 0
      <4> DEFINE n == 4 * OCTANT * CENTI + angle
      <4>1. 4 * OCTANT * CENTI <= n /\ n <= 6 * OCTANT * CENTI /\ n \in Nat
            /\ 4 * OCTANT \in Nat /\ 6 * OCTANT \in Nat
        BY <2>2, <2>3, <2>4
      <4> HIDE DEF n
      <4>2. n \div CENTI \in 4 * OCTANT .. 6 * OCTANT
        BY <2>5, <4>1
      <4>3. InQuadrant(dlat, dlon, angle) = n
        BY <1>1, <3>3 DEF InQuadrant, n
      <4>4. Quadrant(dlat, dlon) = 4 * OCTANT .. 6 * OCTANT
        BY <1>1, <3>3 DEF Quadrant
      <4> QED
        BY <4>2, <4>3, <4>4
    <3>4. CASE dlon < 0 /\ dlat >= 0
      <4> DEFINE n == 8 * OCTANT * CENTI - angle
      <4>1. 6 * OCTANT * CENTI <= n /\ n <= 8 * OCTANT * CENTI /\ n \in Nat
            /\ 6 * OCTANT \in Nat /\ 8 * OCTANT \in Nat
        BY <2>2, <2>3, <2>4
      <4> HIDE DEF n
      <4>2. n \div CENTI \in 6 * OCTANT .. 8 * OCTANT
        BY <2>5, <4>1
      <4>3. InQuadrant(dlat, dlon, angle) = n
        BY <1>1, <3>4 DEF InQuadrant, n
      <4>4. Quadrant(dlat, dlon) = 6 * OCTANT .. 8 * OCTANT
        BY <1>1, <3>4 DEF Quadrant
      <4> QED
        BY <4>2, <4>3, <4>4
    <3> QED
      BY <1>1, <3>1, <3>2, <3>3, <3>4
  <2> QED
    BY <1>2, <1>4, <2>1, <2>6 DEF dlat, dlon
<1> QED
  BY <1>2, <1>3, <1>4

---------------------------------------------------------------------------------
LEMMA NavigationInit == Init => TypeOK
<1> SUFFICES ASSUME Init PROVE TypeOK
  OBVIOUS
<1>1. PICK p \in Targets :
        current_lat = p.lat /\ current_lon = p.lon /\ current_alt_mm = p.alt
  BY DEF Init
<1>2. p \in Places /\ target \in Places
  BY SpanAssumption DEF Init
<1>3. current_lat \in Lats /\ current_lon \in Lons /\ current_alt_mm \in Alts
  BY <1>1, <1>2 DEF Places
<1>4. current_heading \in 0 .. 8 * OCTANT /\ wp_radius_m \in MIN_RADIUS .. MAX_RADIUS
  BY HeadingAssumption, RadiusAssumption DEF Init
<1> QED
  BY <1>2, <1>3, <1>4 DEF TypeOK

LEMMA NavigationStep == TypeOK /\ [Next]_vars => TypeOK'
<1> SUFFICES ASSUME TypeOK, [Next]_vars PROVE TypeOK'
  OBVIOUS
<1>1. CASE mission_update
  <2>0. target' = target /\ wp_radius_m' = wp_radius_m /\ Turn
    BY <1>1 DEF mission_update, Arrives, Flies
  <2>1. /\ Nearer(current_lat, current_lat', target.lat)
        /\ Nearer(current_lon, current_lon', target.lon)
        /\ Nearer(current_alt_mm, current_alt_mm', target.alt)
    BY <1>1, UpdateNearer
  <2>2. current_lat' \in Int /\ current_lon' \in Int /\ current_alt_mm' \in Int
    <3>1. CASE Arrives
      BY <3>1, Coordinates DEF Arrives
    <3>2. CASE Flies
      <4>1. MoveToward2d(wp_threshold_from_radius)
            /\ current_alt_mm' \in MoveToward(current_alt_mm, target.alt,
                                              altitude_step, altitude_threshold)
        BY <3>2 DEF Flies
      <4> QED
        BY <4>1, GroundNearer, AltitudeNearer
    <3> QED
      BY <1>1, <3>1, <3>2 DEF mission_update
  <2>3. current_lat' \in Lats /\ current_lon' \in Lons /\ current_alt_mm' \in Alts
    <3>1. /\ current_lat \in Lats /\ current_lon \in Lons /\ current_alt_mm \in Alts
          /\ target.lat \in Lats /\ target.lon \in Lons /\ target.alt \in Alts
      BY DEF TypeOK, Places
    <3> QED
      BY <2>1, <2>2, <3>1, SpanAssumption DEF Nearer, Lats, Lons, Alts
  <2>4. current_heading' \in 0 .. 8 * OCTANT
    <3>1. OCTANT \in Nat
      BY HeadingAssumption
    <3>2. current_heading' = current_heading
          \/ current_heading' \in Quadrant(target.lat - current_lat, target.lon - current_lon)
      BY <2>0, TurnInQuadrant
    <3>3. Quadrant(target.lat - current_lat, target.lon - current_lon) \subseteq 0 .. 8 * OCTANT
      BY <3>1 DEF Quadrant
    <3> QED
      BY <3>2, <3>3 DEF TypeOK
  <2> QED
    BY <2>0, <2>3, <2>4 DEF TypeOK
<1>2. CASE \E p \in Targets : retarget(p)
  BY <1>2, SpanAssumption DEF retarget, position, TypeOK
<1>3. CASE \E radius \in Radii : set_wp_radius(radius)
  <2>1. PICK radius \in Radii : set_wp_radius(radius)
    BY <1>3
  <2>2. Limited(radius) \in MIN_RADIUS .. MAX_RADIUS
    BY RadiusAssumption DEF Limited, Least, Raised
  <2> QED
    BY <2>1, <2>2 DEF set_wp_radius, position, TypeOK
<1>4. CASE mission_reset
  BY <1>4, HeadingAssumption DEF mission_reset, position, TypeOK
<1>5. CASE UNCHANGED vars
  BY <1>5 DEF vars, position, TypeOK
<1> QED
  BY <1>1, <1>2, <1>3, <1>4, <1>5 DEF Next

(* Coordinates stay in the extent in use, the heading in a circle and the   *)
(* radius within its limits.                                                *)
THEOREM NavigationTypeCorrect == Spec => []TypeOK
BY NavigationInit, NavigationStep, PTL DEF Spec

(* However products overflow, every update brings the vehicle nearer to its *)
(* target in every coordinate, and past it in none.                         *)
THEOREM LegClosesIn == Spec => ClosesIn
<1>1. TypeOK => [mission_update =>
                   /\ Nearer(current_lat, current_lat', target.lat)
                   /\ Nearer(current_lon, current_lon', target.lon)
                   /\ Nearer(current_alt_mm, current_alt_mm', target.alt)]_vars
  BY UpdateNearer
<1> QED
  BY <1>1, NavigationTypeCorrect, PTL DEF Spec, ClosesIn

(* An update covers no more ground than position_step, but to snap. *)
THEOREM LegKeepsSpeedLimit == Spec => SpeedLimit
<1>1. TypeOK /\ [Next]_vars =>
        [LET dlat == abs_i32(current_lat' - current_lat)
             dlon == abs_i32(current_lon' - current_lon)
         IN  \/ dlat + dlon <= position_step
             \/ dlat <= wp_threshold_from_radius /\ dlon <= wp_threshold_from_radius]_vars
  <2> SUFFICES ASSUME TypeOK, Next
               PROVE  LET dlat == abs_i32(current_lat' - current_lat)
                          dlon == abs_i32(current_lon' - current_lon)
                      IN  \/ dlat + dlon <= position_step
                          \/ /\ dlat <= wp_threshold_from_radius
                             /\ dlon <= wp_threshold_from_radius
    OBVIOUS
  <2>1. CASE Flies
    BY <2>1, GroundNearer DEF Flies
  <2>2. CASE Arrives
    BY <2>2 DEF Arrives, Arrived
  <2>3. CASE UNCHANGED position
    <3>1. current_lat' - current_lat = 0 /\ current_lon' - current_lon = 0
      BY <2>3, Coordinates DEF position
    <3>2. abs_i32(0) = 0 /\ position_step \in Nat
      BY StepAssumption DEF abs_i32
    <3> QED
      BY <3>1, <3>2
  <2> QED
    BY <2>1, <2>2, <2>3 DEF Next, mission_update, mission_reset, retarget, set_wp_radius
<1> QED
  BY <1>1, NavigationTypeCorrect, PTL DEF Spec, SpeedLimit

(* The heading of every update lies in the quadrant of the target. *)
THEOREM HeadingKeepsQuadrant == Spec => HeadingInQuadrant
<1>1. TypeOK /\ [Next]_vars =>
        [mission_update =>
           LET dlat == target.lat - current_lat
               dlon == target.lon - current_lon
           IN  dlat # 0 \/ dlon # 0 => current_heading' \in Quadrant(dlat, dlon)]_vars
  <2>1. mission_update => Turn
    BY DEF mission_update, Arrives, Flies
  <2> QED
    BY <2>1, TurnInQuadrant
<1> QED
  BY <1>1, NavigationTypeCorrect, PTL DEF Spec, HeadingInQuadrant
---------------------------------------------------------------------------------
(* The distance that is left to fly. *)
Left ==
    abs_i32(target.lat - current_lat) + abs_i32(target.lon - current_lon)
        + abs_i32(target.alt - current_alt_mm)

(* A coordinate that comes nearer leaves less to go, unless it was there.   *)
LEMMA NearerLeavesLess ==
    ASSUME NEW from \in Int, NEW at \in Int, NEW to \in Int, Nearer(from, at, to)
    PROVE  /\ abs_i32(to - at) \in Nat /\ abs_i32(to - from) \in Nat
           /\ abs_i32(to - at) <= abs_i32(to - from)
           /\ abs_i32(to - from) # 0 => abs_i32(to - at) < abs_i32(to - from)
BY DEF Nearer, abs_i32

(* The variant behind LegEnds: every update leaves less of the way to fly,  *)
(* until there is none left, and then the vehicle stays.  MoveToward of      *)
(* Flight and Returns of Vehicle take this for granted.                      *)
THEOREM LegShortens ==
    Spec => [][mission_update => Left' \in IF Left = 0 THEN {0} ELSE 0 .. Left - 1]_vars
<1>1. TypeOK /\ TypeOK' =>
        [mission_update => Left' \in IF Left = 0 THEN {0} ELSE 0 .. Left - 1]_vars
  <2> SUFFICES ASSUME TypeOK, TypeOK', mission_update
               PROVE  Left' \in IF Left = 0 THEN {0} ELSE 0 .. Left - 1
    OBVIOUS
  <2>1. target' = target
    BY DEF mission_update, Arrives, Flies
  <2>2. /\ Nearer(current_lat, current_lat', target.lat)
        /\ Nearer(current_lon, current_lon', target.lon)
        /\ Nearer(current_alt_mm, current_alt_mm', target.alt)
    BY UpdateNearer
  <2>3. /\ current_lat \in Int /\ current_lat' \in Int /\ target.lat \in Int
        /\ current_lon \in Int /\ current_lon' \in Int /\ target.lon \in Int
        /\ current_alt_mm \in Int /\ current_alt_mm' \in Int /\ target.alt \in Int
    BY SpanAssumption DEF TypeOK, Places, Lats, Lons, Alts
  <2> DEFINE lat == abs_i32(target.lat - current_lat)
             lon == abs_i32(target.lon - current_lon)
             alt == abs_i32(target.alt - current_alt_mm)
             latAfter == abs_i32(target.lat - current_lat')
             lonAfter == abs_i32(target.lon - current_lon')
             altAfter == abs_i32(target.alt - current_alt_mm')
  <2>4. Left = lat + lon + alt /\ Left' = latAfter + lonAfter + altAfter
    BY <2>1 DEF Left
  <2>5. lat \in Nat /\ latAfter \in Nat /\ latAfter <= lat /\ (lat # 0 => latAfter < lat)
    BY <2>2, <2>3, NearerLeavesLess
  <2>6. lon \in Nat /\ lonAfter \in Nat /\ lonAfter <= lon /\ (lon # 0 => lonAfter < lon)
    BY <2>2, <2>3, NearerLeavesLess
  <2>7. alt \in Nat /\ altAfter \in Nat /\ altAfter <= alt /\ (alt # 0 => altAfter < alt)
    BY <2>2, <2>3, NearerLeavesLess
  <2> HIDE DEF lat, lon, alt, latAfter, lonAfter, altAfter
  <2> QED
    BY <2>4, <2>5, <2>6, <2>7
<1> QED
  BY <1>1, NavigationTypeCorrect, PTL DEF Spec
=================================================================================

------------------------------- MODULE Navigation -------------------------------
(***************************************************************************)
(* The arithmetic of a leg: how mission_update (mission.c) steps toward a  *)
(* home, a GUIDED target or a waypoint, on int32_t coordinates, and the    *)
(* heading it reports.  The three modes fly a leg with the same calls; the *)
(* modes themselves are Flight's.                                          *)
(*                                                                         *)
(* The code multiplies differences of coordinates.  A product that leaves  *)
(* int32_t is undefined, and is taken here to be any int32_t.              *)
(*                                                                         *)
(* Only differences of coordinates matter, so each axis starts at 0.       *)
(***************************************************************************)
EXTENDS Integers

CONSTANTS
    LatSpan, LonSpan, AltSpan,  \* extent of the coordinates in use
    Targets,                    \* places legs lead to
    INT32_MAX,
    MIN_STEP,                   \* 20, the least a step is raised to
    position_step,              \* 1000, the most lat and lon move in an update
    altitude_step, altitude_threshold,      \* 200 and 500
    MIN_RADIUS, MAX_RADIUS,     \* 3 and 500, limits of WP_RADIUS in metres
    START_RADIUS,               \* 33
    PER_METRE,                  \* 9 degE7
    Radii,                      \* values WP_RADIUS is set to
    RATIO, OCTANT, CENTI,       \* 1000, 45 degrees and 100 centidegrees
    UINT16_MAX

Lats == 0 .. LatSpan
Lons == 0 .. LonSpan
Alts == 0 .. AltSpan
Places == [lat : Lats, lon : Lons, alt : Alts]

ASSUME SpanAssumption ==
    /\ LatSpan \in Nat /\ LonSpan \in Nat /\ AltSpan \in Nat /\ INT32_MAX \in Nat
    /\ LatSpan + LonSpan <= INT32_MAX /\ AltSpan <= INT32_MAX
    /\ Targets \subseteq Places /\ Targets # {}
ASSUME StepAssumption ==
    /\ MIN_STEP \in Nat \ {0} /\ position_step \in Nat /\ altitude_step \in Nat
    /\ altitude_threshold \in Nat
    /\ MIN_STEP * position_step >= MIN_STEP + 2 * position_step
    /\ 2 * position_step * position_step <= INT32_MAX
    /\ MIN_STEP <= altitude_step /\ altitude_step <= altitude_threshold
ASSUME RadiusAssumption ==
    /\ MIN_RADIUS \in Nat /\ MAX_RADIUS \in Nat /\ PER_METRE \in Nat
    /\ START_RADIUS \in MIN_RADIUS .. MAX_RADIUS /\ Radii \subseteq Nat /\ MAX_RADIUS * PER_METRE <= INT32_MAX
ASSUME HeadingAssumption ==
    /\ RATIO \in Nat \ {0} /\ OCTANT \in Nat \ {0} /\ CENTI \in Nat \ {0}
    /\ UINT16_MAX \in Nat

VARIABLES current_lat, current_lon, current_alt_mm,
          target,           \* where the leg leads
          current_heading,  \* in degrees
          wp_radius_m

position == <<current_lat, current_lon, current_alt_mm>>
vars == <<position, target, current_heading, wp_radius_m>>

TypeOK ==
    /\ current_lat \in Lats /\ current_lon \in Lons /\ current_alt_mm \in Alts
    /\ target \in Places
    /\ current_heading \in 0 .. 8 * OCTANT
    /\ wp_radius_m \in MIN_RADIUS .. MAX_RADIUS

Init ==
    /\ \E p \in Targets :
          current_lat = p.lat /\ current_lon = p.lon /\ current_alt_mm = p.alt
    /\ target \in Targets
    /\ current_heading = 0
    /\ wp_radius_m = START_RADIUS

---------------------------------------------------------------------------------
(* int32_t arithmetic *)

Int32 == -INT32_MAX - 1 .. INT32_MAX
abs_i32(n) == IF n < 0 THEN -n ELSE n

(* What the code may find a product of natural numbers to be. *)
Computed(n) == IF n <= INT32_MAX THEN {n} ELSE Int32

(* Division truncates toward zero. *)
Quotient(a, b) == IF a >= 0 THEN a \div b ELSE -((-a) \div b)

Least(a, b) == IF a <= b THEN a ELSE b
Raised(n, low) == IF n < low THEN low ELSE n

---------------------------------------------------------------------------------
(* Steps *)

(* 30 % of the distance left, within limits. *)
Steps(distance, max_step) ==
    {Least(Raised(Quotient(product, 10), MIN_STEP), max_step) :
        product \in Computed(distance * 3)}

Shifted(from, to, step) == IF to > from THEN from + step ELSE from - step

(* move_toward: the values *current may have afterwards. *)
MoveToward(current, to, max_step, threshold) ==
    LET adiff == abs_i32(to - current) IN
    IF adiff <= threshold
    THEN {to}
    ELSE {Shifted(current, to, step) : step \in Steps(adiff, max_step)}

(* Mutants: the step is not scaled down; the quotient is taken first. *)
Scaled_Not(a, b) == a
Scaled_DividedFirst(a, b) ==
    IF a + b > position_step THEN Quotient(a, a + b) * position_step ELSE a

(* One part of a step whose other part is b, scaled so that both together  *)
(* are no more than position_step.                                         *)
Scaled(a, b) ==
    IF a + b > position_step THEN Quotient(a * position_step, a + b) ELSE a

(* Mutant: the minimum is forgotten. *)
OnAxis_Unraised(part, left) == part

(* An axis that is not at its target moves by MIN_STEP at least. *)
OnAxis(part, left) == IF left > 0 THEN Raised(part, MIN_STEP) ELSE part

Within(step, left) == IF step > left THEN left ELSE step

(* The part of a step that falls to the latitude. *)
Shares(adlat, total, step) == {Quotient(product, total) : product \in Computed(step * adlat)}

(* What move_toward_2d makes of it: the distances covered on each axis. *)
Split(adlat, adlon, step, lat_step) ==
    LET a == OnAxis(lat_step, adlat)
        b == OnAxis(step - lat_step, adlon)
    IN  [lat |-> Within(Scaled(a, b), adlat), lon |-> Within(Scaled(b, a), adlon)]

(* move_toward_2d *)
MoveToward2d(threshold) ==
    LET adlat == abs_i32(target.lat - current_lat)
        adlon == abs_i32(target.lon - current_lon)
        total == adlat + adlon
    IN  \/ /\ adlat <= threshold /\ adlon <= threshold
           /\ current_lat' = target.lat /\ current_lon' = target.lon
        \/ /\ ~(adlat <= threshold /\ adlon <= threshold)
           /\ \E step \in Steps(total, position_step) :
              \E lat_step \in Shares(adlat, total, step) :
                LET split == Split(adlat, adlon, step, lat_step) IN
                /\ current_lat' = Shifted(current_lat, target.lat, split.lat)
                /\ current_lon' = Shifted(current_lon, target.lon, split.lon)

---------------------------------------------------------------------------------
(* approx_heading_centideg *)

(* Mutant: the angle is not clamped. *)
Clamped_Not(angle) == angle

Clamped(angle) == Least(angle, OCTANT * CENTI)

(* The angle off the meridian, from the smaller and the larger of the      *)
(* differences; where the product overflows, what is left of it in 16 bits.*)
Angles(smaller, larger) ==
    IF smaller * RATIO <= INT32_MAX
    THEN {Clamped(((OCTANT * ((smaller * RATIO) \div larger)) \div RATIO) * CENTI)}
    ELSE {Clamped(angle) : angle \in 0 .. UINT16_MAX}

InQuadrant(dlat, dlon, angle) ==
    CASE dlon >= 0 /\ dlat >= 0 -> angle
      [] dlon >= 0 /\ dlat < 0  -> 4 * OCTANT * CENTI - angle
      [] dlon < 0 /\ dlat < 0   -> 4 * OCTANT * CENTI + angle
      [] OTHER                  -> 8 * OCTANT * CENTI - angle

Turn ==
    LET dlat == target.lat - current_lat
        dlon == target.lon - current_lon
        adlat == abs_i32(dlat)
        adlon == abs_i32(dlon)
        larger == IF adlat >= adlon THEN adlat ELSE adlon
    IN  \/ larger = 0 /\ UNCHANGED current_heading
        \/ /\ larger > 0
           /\ \E angle \in Angles(Least(adlat, adlon), larger) :
                current_heading' = InQuadrant(dlat, dlon, angle) \div CENTI

---------------------------------------------------------------------------------
(* The radius is limited where it is set, and again where it is used. *)
Limited(radius) == Least(Raised(radius, MIN_RADIUS), MAX_RADIUS)
wp_threshold_from_radius == Limited(wp_radius_m) * PER_METRE

Arrived ==
    /\ abs_i32(target.lat - current_lat) <= wp_threshold_from_radius
    /\ abs_i32(target.lon - current_lon) <= wp_threshold_from_radius
    /\ abs_i32(target.alt - current_alt_mm) <= altitude_threshold

Arrives ==
    /\ Arrived
    /\ Turn
    /\ current_lat' = target.lat /\ current_lon' = target.lon
    /\ current_alt_mm' = target.alt
    /\ UNCHANGED <<target, wp_radius_m>>

Flies ==
    /\ ~Arrived
    /\ Turn
    /\ MoveToward2d(wp_threshold_from_radius)
    /\ current_alt_mm' \in MoveToward(current_alt_mm, target.alt,
                                      altitude_step, altitude_threshold)
    /\ UNCHANGED <<target, wp_radius_m>>

(* A leg of mission_update, in any of the modes that fly one. *)
mission_update == Arrives \/ Flies

(* Home is moved, a GUIDED target set, or the next waypoint taken. *)
retarget(p) ==
    /\ target' = p
    /\ UNCHANGED <<position, current_heading, wp_radius_m>>

(* set_param_value(PARAM_WP_RADIUS, radius), at any time. *)
set_wp_radius(radius) ==
    /\ wp_radius_m' = Limited(radius)
    /\ UNCHANGED <<position, target, current_heading>>

(* mission_reset, called when a mission is uploaded or cleared. *)
mission_reset ==
    /\ current_heading' = 0
    /\ UNCHANGED <<position, target, wp_radius_m>>

Next ==
    \/ mission_update
    \/ mission_reset
    \/ \E p \in Targets : retarget(p)
    \/ \E radius \in Radii : set_wp_radius(radius)

Spec == Init /\ [][Next]_vars

(* The scheduler runs mission_update again and again. *)
FairSpec == Spec /\ WF_vars(mission_update)

---------------------------------------------------------------------------------
(* Properties *)

(* From one place to another on the way to a third, not past it. *)
Nearer(from, at, to) ==
    IF from <= to THEN from <= at /\ at <= to /\ (from < to => from < at)
                  ELSE at < from /\ to <= at

(* However the products come out, and whatever the radius, an update brings  *)
(* each coordinate nearer to the target and none past it (move_toward_2d     *)
(* relies on the limits it applies to each part of a step, not on the        *)
(* product they are computed from).                                          *)
ClosesIn ==
    [][mission_update =>
         /\ Nearer(current_lat, current_lat', target.lat)
         /\ Nearer(current_lon, current_lon', target.lon)
         /\ Nearer(current_alt_mm, current_alt_mm', target.alt)]_vars

(* An update moves no further over ground than position_step, but for the    *)
(* last bit inside the acceptance radius.                                    *)
SpeedLimit ==
    [][LET dlat == abs_i32(current_lat' - current_lat)
           dlon == abs_i32(current_lon' - current_lon)
       IN  \/ dlat + dlon <= position_step
           \/ dlat <= wp_threshold_from_radius /\ dlon <= wp_threshold_from_radius]_vars

(* Degrees clockwise from north. *)
Quadrant(dlat, dlon) ==
    CASE dlon >= 0 /\ dlat >= 0 -> 0 .. 2 * OCTANT
      [] dlon >= 0 /\ dlat < 0  -> 2 * OCTANT .. 4 * OCTANT
      [] dlon < 0 /\ dlat < 0   -> 4 * OCTANT .. 6 * OCTANT
      [] OTHER                  -> 6 * OCTANT .. 8 * OCTANT

(* The heading lies in the quadrant of the target, as README.md:457 has it,  *)
(* however far away that is.                                                 *)
HeadingInQuadrant ==
    [][mission_update =>
         LET dlat == target.lat - current_lat
             dlon == target.lon - current_lon
         IN  dlat # 0 \/ dlon # 0 =>
               current_heading' \in Quadrant(dlat, dlon)]_vars

(* A leg that is left alone ends at its target, also if the radius changes   *)
(* on the way.                                                               *)
LegEnds ==
    \A p \in Targets :
        <>[](target = p) =>
            <>[](current_lat = p.lat /\ current_lon = p.lon /\ current_alt_mm = p.alt)
=================================================================================

# Vega-FC v2: TLA+ models, model checking and proofs

This directory holds a formal model of the Vega-FC v2 flight-controller firmware
(`../src`): what each part does, the properties that make it correct, TLC runs that
check them on small instances, and TLAPS proofs that hold for every instance. All
line numbers refer to the source in `../src`.

## 1. The system

The firmware is one bare-metal program on a RISC-V core. `main` restores the mission
from NVM and then loops: wait for an interrupt, `scheduler_run`, `mavlink_rx_poll`
(main.c:104-108). The timer interrupt only increments `sys_tick`. So tasks and message
handlers never interleave with one another: each runs to completion, and the only
things that happen in the middle of one are a tick and a loss of power. What makes the
program hard is the order in which whole handlers and tasks run, over an unreliable
link, with state spread over a dozen flags that many handlers reset in different
combinations.

### Components

| Part | Source | State it keeps | Operations |
|---|---|---|---|
| Machine timer | `main.c`, `start.s` | `MTIME`, `MTIMECMP`, `sys_tick` | `trap_handler`, `timer_isr`, the first deadline in `main` |
| Main loop | `main.c` | none | wait, `scheduler_run`, `mavlink_rx_poll` |
| Scheduler | `scheduler.c` | `last_run` of eleven tasks | `scheduler_run` |
| Timing metrics | `scheduler_metrics.c` | samples, intervals, jitter, misses of the monitored tasks | `init`, `record`, `report` |
| Mission store | `mission.c`, handlers in `mavlink_rx.c` | `mission[]`, `mission_count`, loaded/valid flags, stored digest, current and pending id and version, NVM image | `mission_begin_upload`, items, `mission_reset`, save, load, clear |
| Upload protocol | `mavlink_rx.c`, `mission.c` | `mission_rx_idx`, upload flags | MISSION_COUNT, challenge response, ITEM(_INT), REQUEST_INT, ACK |
| Flight control | `mission.c`, `mavlink_tx.c`, `mavlink_rx.c` | `custom_mode`, position, home, `rtl_active`, GUIDED target, `mission_active`, waypoint index | `mission_update`, `set_flight_mode`, set home, position target |
| Navigation arithmetic | `mission.c`, `mavlink_tx.c` | position, heading, `wp_radius_m` | `move_toward`, `move_toward_2d`, `approx_heading_centideg`, `set_param_value` |
| Battery, GPS, failsafe | `mission.c` | battery %, satellites, `failsafe_battery`, `failsafe_gps`, counters | `sim_battery_update`, `failsafe_check`, arm, disarm |
| Parameters | `mavlink_tx.c` | eleven floats | `set_param_value`, `find_param_index` |
| Mission download | `mavlink_rx.c` | none | REQUEST_LIST, REQUEST(_INT) |
| Telemetry | `mavlink_tx.c` | simulated attitude | periodic `send_*` |
| UART, start-up, MAVLink, SHA-256 | `uart.c`, `start.s`, `link.ld`, `c_library_v2` | byte registers, parser | external to the models |

### How they interact

* `scheduler_run` calls `mission_update`, `sim_battery_update` and `failsafe_check` in
  this order, in the same pass (one period, one reading of `sys_tick`).
* `mavlink_rx_poll` runs the handlers between passes. They share every variable with
  the tasks: a handler can reset the mission in mid-flight, move home during an RTL or
  change the mode between two updates.
* `custom_mode` has four kinds of writers: commands, the battery failsafe (RTL), the
  GPS failsafe (LOITER) and the digest check (AUTO to STABILIZE).
* The mission is written to NVM at the end of an upload and again when the last
  waypoint is reached, and read back only at boot.

### What is hard, and what makes it correct

| Part | Hard behaviour | Correct means |
|---|---|---|
| Scheduler | ticks during a pass or poll, wrap of `sys_tick` | on time, in step, never starved |
| Metrics | sums kept separately, end between passes | counts agree with one another, report comes once |
| Mission store | power lost inside a save, worn NVM, resets in the middle of anything | what can be flown was saved in full and is verified before it starts |
| Upload | loss, retry, duplicate items, power failure after the acknowledgement | no mix of plans; an acknowledgement is true; uploads get through |
| Flight | modes changed between updates, home moved, uploads and clears in flight | RTL ends the mission and comes home; missions progress |
| Timer | 64-bit registers in halves, carry or interrupt in between | the next tick is in sight, ticks keep to the time |
| Download | lost messages, mission replaced in between | what is read back is what was uploaded |
| Navigation | products leave `int32_t`, rounding, radius changed on the way | nearer at every update, never past, no faster than allowed, leg ends |
| Failsafe | two failsafes in one check, latches across arming | battery outranks GPS, nothing is taken back in flight, the vehicle comes home |

`PROJECT.json` lists every hazard at its line, with the properties that cover it.

## 2. The modules

```
DurableMission            what the vehicle promises about its mission (abstract)
   ^ implemented by
MissionStore              array, upload flags, digest, NVM, progress of the mission
   ^ extended by                     ^ extended and implemented by
UploadLink                        Flight
   ground station and link,          where the vehicle is, RTL, GUIDED, home
   upload and read-back                 (steps: Navigation, the int32_t arithmetic)

Timer                     where ticks come from: MTIME and MTIMECMP by halves

Scheduler                 main loop, tick, pass over the tasks
   ^ extended and implemented by
SchedulerMetrics          the timing experiment inside scheduler_run

Failsafe                  battery, GPS, failsafe; one pass as three turns
   ^ extended and implemented by
Vehicle                   the way home of a vehicle that is out of contact
```

`*Proofs` modules hold the proofs, `MC_*` modules the instances for TLC, and
`MissionClaims` the statements of the documents that the code does not bear out.
Every definition that models code is listed in `PROJECT.json` with its lines.
Definitions introduced by a comment "Mutant" are variants with a plausible bug; no
specification uses them. They record, for each property, a bug it detects.

### DurableMission

The promise, in terms of the mission kept and the mission ready to fly: what a finished
save does (`Commit`), what anything else does while the power is on (`Keep`), and what a
power cycle leaves: everything (`Reboot`), the old or the new mission or none if it cut a
save short (`Interrupted`), the old one or none if the store wore out (`Worn`).
`MissionStore!DurableStep` says which of the store's events is which. A boot that erased
the NVM, a clear that touched it or a save that kept another mission than the one flown
would be steps the promise has no name for.

### MissionStore

One action per handler or branch of `mission_update`, named after it. Variables have
the names of the C variables. What is abstracted:

* A waypoint is a value of `Waypoints`; `Blank` is the content of a fresh slot.
* SHA-256 has no collisions: the digest of a mission is the mission itself, and
  `NoDigest` is a digest of nothing.
* The parameters MISSION_ID and MISSION_VER, the authorization of commands and whether
  a challenge response is right are inputs of the handlers. A handler whose
  authorization fails only replies.
* STABILIZE stands for every mode that does nothing with the mission.
* `save_mission_to_nvm` builds an image whose unused slots are whatever was on the
  stack (`junk`). `PowerLossWhileSaving` leaves any prefix of the fields, with the
  field being written possibly half written. The order is that of `nvm_mission_t`;
  a half-written signature does not match, a half-written digest matches nothing.
* `NvmWorn` changes one field while the vehicle is off; the checks in
  `load_mission_from_nvm` exist for this. `WornFields` says which fields may, and
  `CutsSaves` whether the power may fail inside a save.
* A waypoint is reached at any time. `Flight` replaces this by flying there.

### UploadLink

The handlers are MissionStore's actions, each with the replies it sends, in order.
The ground station and the link are external: FIFO queues, `MaxLosses` messages lost,
`MaxRetries` repetitions of MISSION_COUNT. The station is patient: it times out only
when the link is quiet (`Quiet`), that is, its timeout is longer than a round trip.
`SwitchedOffInSave` is the power failure between the acknowledgement
(mavlink_rx.c:346) and the end of the save on the next line. The challenge is published
twice for every MISSION_COUNT, by `mission_reset` (mission.c:382) and by
`mission_begin_upload` (mission.c:282); a station that answers it may answer either,
both or none.

After an accepted upload the station may read the mission back: a count
(`ListRequested`, mavlink_rx.c:455), then item after item (`ItemRequested`,
mavlink_rx.c:472). The vehicle keeps no state about a download and answers from the
array. The station ignores an item it did not ask for, and repeats what is
`Outstanding`.

### Flight

`mission_update` in full, over a line of places as large as the acceptance radius. A
step brings the vehicle to any nearer place. The store's actions are used as they are,
each conjoined with what it does to the flight variables; `mission_reset`, for example,
also resets `rtl_active`. The vehicle does not start at home: `home_alt` is 100 m
(mavlink_tx.c:10) and it is 10 m high (mission.c:15), so `FirstHome` is another place than
`Base`. `guided_target` is `None` while `guided_target_set` is clear. A waypoint index past the array reads any
place. The failsafe appears as the mode changing at any time. That an update comes
nearer to its target, which `MoveToward` takes for granted, is `Navigation!ClosesIn`,
proved there.

### Navigation

One leg, as all three modes fly it: the heading, the arrival test, `move_toward_2d` and
`move_toward`, with the acceptance radius changed by `PARAM_SET` at any moment and the
target replaced at any moment. The coordinates are integers and the C constants are
CONSTANTS. A product that leaves `int32_t` is undefined in C: `Computed` lets it come
out as any `int32_t`. The angle of the heading is what is left in its `uint16_t`.
`SpanAssumption` says that the differences of latitude and longitude together fit in
`int32_t`, which holds as long as they add up to less than 214 degrees.

### Timer

Every access of a half of MTIME and MTIMECMP is an action (`load`, `store`), for both
places that set the deadline; C leaves the order of the halves to the compiler, so both
orders are allowed. `start.s` enables interrupts before it calls `main`, so
`trap_handler` may come between any two accesses of `main`. `clock` lets at most `MaxLag`
pass between two accesses. TimerAssumption says that the nine accesses of `main` and of an
interrupt in the middle of it take less than a tick, 10000 units in the firmware, and that
a half holds a tick more than that. What the timer
shows is what `Scheduler!timer_isr` leaves open: when a tick comes.

### Scheduler and SchedulerMetrics

`pc` says where the main loop is; a tick may come anywhere. `MaxBusy` bounds the ticks
between a wake-up and the next `wfi`: tasks busy-wait on the UART and the poll runs as
long as bytes arrive, so this bound is a property of the installation, not of the code.
Every result about lateness is relative to it. The code keeps all arithmetic unsigned,
which `Minus` and `Increment` do modulo `UINT32`. SchedulerMetrics adds the
`ENABLE_SCHEDULER_TIMING_TEST` parts of `scheduler_run`, and stops at `Horizon`, before
the counters wrap; that is why its run does not check deadlock.

### Failsafe

A pass is three turns, `mission_update`, `sim_battery_update`, `failsafe_check`, in the
order of the table; that they are always run together is `Scheduler!InStep`, which is
proved. (`Vehicle` is the same pass with the distance from home.) With `AnyReceiver` the number of satellites is arbitrary, because the simulated
receiver never loses its fix (see section 6); without it the simulation is followed.

### Vehicle

Failsafe with two more variables: the distance from home, which each mode changes in
its way, and whether the ground station can be heard. It starts away from home, for the
reason given under Flight. The firmware has no failsafe for a
lost link. `BatteryBringsHome` says what happens instead; it needs the order of the three
tasks, the priority of the battery and the way home together.

## 3. The runs

| Run | Instance | Shows |
|---|---|---|
| `store` | 2 slots, 2 contents, 2 versions, saves cut short, worn waypoints | what is loaded is what NVM holds; nothing flyable during an upload; starts are verified; versions never regress; refinement of DurableMission |
| `upload_link` | 3 plans, 2 losses, 3 retries, 2 outages | no mix of plans, truthful acknowledgement, uploads arrive; what is read back is the plan, and reading back ends |
| `flight` | 3 places, missions of 1 and 2 waypoints | RTL bookkeeping, coming home, going on from waypoint to waypoint |
| `flight_power` | 3 places, 1 waypoint, worn NVM, saves cut short | refinement of MissionStore and of DurableMission in flight; types |
| `navigation` | legs between three corners of 17 x 9 x 7, products above 50 overflow | nearer at every update and never past, speed limit, heading's quadrant, legs end |
| `scheduler` | 4 tasks, 3 periods, wrap at 16 | on time, in step, never overdue, every task runs for ever |
| `timer` | halves of 24 values, a tick every 10, two carries | the next tick is in sight, ticks keep to the time |
| `metrics` | 3 tasks, 20 ticks | the report's numbers agree; it comes in time |
| `failsafe` | six-step battery, any receiver, 3 distances, contact lost at any time | priorities, latches, recharge and drain, the way home |
| `claim_*` | as above | a statement of the documents that the code violates (section 6) |

Type invariants are proved (section 4) and not checked again by every run; `flight_power`
checks one, because a worn NVM may hold any count and `load_mission_from_nvm` has to
clamp it.

### Bounds, and why they are enough

* `MAX_WAYPOINTS` 1 to 3: two slots already distinguish first, middle and last item of
  an upload and a prefix of the array from all of it. Three are used where the order of
  items matters. Nothing in the code depends on 20.
* `UINT16` is at most two above `MAX_WAYPOINTS`, and `UINT32` is 16 in `scheduler`, so
  that counters wrap within the run.
* Ids and versions go up to 1 to 3: enough for an upload that is older, equal and newer.
* `Waypoints` has two or three contents: equal and different are all the code tells apart.
* `MaxLosses` 2, `MaxRetries` 3: the theorem of interest is "one more retry than losses".
* The battery has six steps, with the critical and recovery levels strictly inside
  and a drain of two when moving, so that a level can be jumped over.
* Three places: away from both ends, and a step that can be short or long. The vehicle
  starts at one end (`Base`) and its home is at the other (`FirstHome`) until it is moved
  to the landmark, where GUIDED targets are put as well; waypoints lie at both ends. The
  proofs have no such bound.
* `flight` has two slots, so that a mission goes on from one waypoint to the next, and
  neither wear nor saves cut short; `flight_power` has those and one slot. Liveness does
  not depend on them: after either, the vehicle is where a reboot puts it, with one of the
  missions a reboot may find. The proofs cover all
  of it together. `store` lets only the waypoints wear: one slot of two that no longer fits
  the digest. The other fields wear in `flight_power`.
* `navigation` scales the C constants down so that a leg takes several updates, steps
  are raised, scaled and cut, and `step * adlat` and `adlon * 1000` overflow on most of
  the way. The proofs cover the constants of the firmware.
* `timer`: a half is two ticks and a bit long, `Horizon` covers two carries, and `MaxLag` 1 lets
  a carry fall between any two accesses. The run does not check deadlock because time
  ends at `Horizon`.
* `Periods` keeps the ratios of the task table (equal, double, not a multiple).

### Fairness

* The main loop goes on (`WF` of `main_loop`, `vehicle`, `scheduler_run`,
  `mission_update_task`, and Navigation's `mission_update`):
  the processor runs, and `EveryTaskRuns` shows that every task is run again and again.
* The timer goes on ticking (`WF` of `timer_isr`); `NextTickInSight` is why.
* The ground station hears what arrives and times out. It need not start an upload or
  read one back.
* No fairness on commands, losses of messages or contact, power failures or satellites.

## 4. What is proved

For all values of the constants that satisfy the named assumptions:

* **MissionStore** (`MissionStoreProofs`): type correctness, `LoadedIsStored`,
  `UploadGrounded`, `ActiveIsLoaded`, `StartsVerified`, `VersionNeverRegresses`, and
  the implementation of `DurableMission`, event by event. The inductive invariant is the conjunction of
  the state invariants and `PendingIsNewer`: the version is compared when the upload
  begins and adopted when it ends, so the comparison has to be carried across everything
  that happens in between. The refinement rests on these lemmas: a save that finishes
  commits (`FinishedSaveCommits`: what it writes is readable and is the mission in the
  array); a torn image that is readable carries the digest of the old or of the new mission
  (`PowerLossImage`); booting flies exactly what the image gives back (`BootLeaves`); and
  every other handler and branch of `mission_update` leaves the NVM alone and keeps, drops
  or recovers the mission in memory (`OthersKeep`).
* **Flight** (`FlightProofs`): every step of `FlightNext` is a step of MissionStore or
  leaves it alone, so `FlightSpec => StoreSpec`, and with it every theorem about the
  store holds of the vehicle in flight; `FlownMissionIsDurable` is the one drawn here: only
  the saves at the end of an upload and of a mission change what is kept.
  `RtlEndsMission` and `ReturnIsTimed` are inductive as they stand. Three theorems carry
  what the liveness properties rest on. `ReturnShortens`: in RTL every update comes nearer
  to a home that stays, and nothing handled in between leads away. `WaypointsInTurn`: an
  active mission takes its next waypoint only at the one before it, its way there never
  gets longer, and every update shortens it. `DistanceFollowsMode`: the distance from home
  follows the mode as Vehicle's `Returns`, `FliesElsewhere` and `Holds` say, so what
  Vehicle assumes about flying is proved of Flight (as long as the power stays on, which
  Vehicle takes for granted).
* **UploadLink** (`UploadLinkProofs`): every step of the link is a step of MissionStore or
  leaves it alone, so `LinkSpec => Spec` and the store's theorems hold over the link;
  `LoadedIsAPlan`, `AcknowledgedIsLoaded` and `ReadBackIsPlan` for any plans and any
  number of losses, retries and power failures. That the link keeps to the store needs no
  assumption on when the challenge is answered: `ExchangeOK` says that nothing but
  well-formed messages is ever under way. `LinkKeepsStore` draws the store's statements
  about uploads from it (`LoadedIsStored`, `UploadGrounded`, `VersionNeverRegresses`,
  `DurableSpec`); the two about flying would hold here only for want of flights, and
  are left to Flight. The three properties of plans need more. The handlers
  count items and do not look at their numbers, so everything hangs on which messages can
  be under way. The inductive invariant `LInv` says that it is one at a time, not counting
  the challenge, and that an item under way is the one that is due, behind a prefix of the plan already
  in the array, or comes to a vehicle that refuses it (`UnderWay`); that the NVM holds
  the digest of a plan or none (`StoredIsAPlan`); what an acknowledgement is worth
  (`Acknowledgment`); and that what has been read back is a prefix of the plan
  (`ReadSoFar`). `LInv` needs the response to be given before the upload
  (`~AnswersChallenge`): given when the challenge arrives, two messages are under way
  and the three properties fail (`claim_EachWaypointStored`).
* **Navigation** (`NavigationProofs`): `ClosesIn`, `SpeedLimit`, `HeadingInQuadrant` and
  the types, for all coordinates, targets, radii and step sizes that satisfy the
  assumptions. `ShareBound` shows that the latitude's share is no larger than the
  step even when its product overflows (it overflows only if it should have been larger
  than any `int32_t`), `ScaledTogether` that scaling takes both shares under the limit,
  and `ScaledRemains` that it leaves something of a share that was raised to the
  minimum. An overflow therefore spoils the bearing and nothing else. `LegShortens` adds
  the coordinates up: every update leaves less of the way to fly until there is none.
  That is the variant of `LegEnds`, and what `Flight!MoveToward` and `Vehicle!Returns`
  take for granted of an update.
* **Scheduler** (`SchedulerProofs`): `InStep`, `NoTaskOverdue` and `RunsOnTime` for any
  table and any counter width with room for the longest period and two busy spells
  (`TasksAssumption`). The inductive invariant adds `Ahead` (`sys_tick` is `busy` ticks
  past `now`), `Waiting` (against `now`, a task the pass has left behind has waited less
  than its period, one still to come at most `MaxBusy` longer than that) and `Abreast`
  (a task already handled in this pass is where one of the same period still to come
  will be). The bounds follow because wrapping differences add up while the sum fits.
* **SchedulerMetrics** (`SchedulerMetricsProofs`): `MetricsSpec => Spec`, so the timing
  test does not disturb what it measures; types, `ClocksAgree`, `TotalsAddUp`,
  `MissesAreJitter` and `ReportedInTime`. The inductive invariant `MInv` adds that ticks
  compare as numbers before the horizon (`Straight`), that nothing is recorded before
  the first pass (`NotStarted`), that a finished experiment keeps its report
  (`ReportKept`), and the state of one record against its task (`Records`). It uses
  SchedulerProofs' invariant: an interval is never shorter than the period because no
  task runs early.
* **Failsafe** (`FailsafeProofs`): types, `GpsFlagIsTrue`, `BatteryOutranksGps`,
  `LastsWhileArmed`, `OnlyPilotLeavesRtl`. The inductive invariant adds `Latched` (a
  battery failsafe that holds on a recovered battery exists only between
  `sim_battery_update` and `failsafe_check` of one pass, on a disarmed vehicle) and, for
  the GPS, `LossIsFlagged` and `FlagIsLoss`. `BatteryGoesOneWay` (an armed battery never
  gains, a disarmed one never loses, and every `sim_battery_update` takes it further) and
  `FailsafeForcesRtl` are what `Recharges`, `DrainsToFailsafe` and `BatteryBringsHome` rest
  on beside fairness.
* **Vehicle** (second half of `FailsafeProofs`): `VehicleSpec => Spec` of Failsafe, so its
  properties hold of the moving vehicle, and `NoWayBack`, the safety half of `BatteryBringsHome`.
* **Timer** (`TimerProofs`): `NextTickInSight` and `TicksInTime` for any width of a half,
  length of a tick and time between accesses that satisfy TimerAssumption. The inductive
  invariant has two parts. `Boot` follows the accesses of `main` up to the first deadline,
  together with an interrupt that comes in the middle of them: all of it takes less than a
  tick, so the interrupt comes once at most and nothing carries. `Steady` holds from then
  on: the deadline is within an interval, or within a round of the low half more once
  MTIME has carried, and the ticks are covered (`Covered`) by one for every interval and
  one for every carry. A torn read may promise the next tick early, so what is carried
  along is that it is covered by the time already, or will be at its deadline (`Afforded`).

The assumptions are named and stand in the module that declares the constants; the
firmware's values satisfy them. Each says only that sizes are numbers, that counters are
wide enough for what they count, that model values are distinct and, for Timer, that nine
accesses to a register take less than a tick.

## 5. What is only model-checked, and what is not modelled

Only model-checked: liveness (`EveryTaskRuns`, `Reported`, `UploadArrives`,
`ReadBackArrives`, `ComesHome`, `MissionGoesOn`, `LegEnds`, `Recharges`,
`DrainsToFailsafe`, `BatteryBringsHome`), which the prover does not do. Where a measure
shows why, the measure is proved (section 4); that fairness then leads to the end is left
to TLC. TLAPS could also not establish anything by induction over the data
of a recursive definition; no module here has one.

Not modelled, and why:

* `src/c_library_v2`, the vendored and generated MAVLink library: more than 99 % of the
  lines of the repository. Its functions pack, unpack and check frames; the models take
  a message as received whole or not at all. Of the firmware's own code about half of the
  lines are covered by a definition; the rest is packing and printing.
* The table of parameters. `WP_RADIUS` is in Navigation and the challenge response in
  UploadLink; id, version and command authorization are inputs of the handlers that read
  them, so that every value is covered.
* A second ground station in UploadLink. MissionStore accepts any item at any time, so
  its properties hold with any number of stations; `LoadedIsAPlan` would not.
* Telemetry, UART, linker script, the stack in `start.s` (formatting and byte access
  without state the other parts read), and the ground-side set-up script.
* The RTL measurements that are printed, voltage and current (functions of the state).

## 6. Where code and documents disagree

Each is a run that TLC shows violated.

1. `claim_FliesUploadedWaypoints`: after MISSION COMPLETE the vehicle is still in AUTO,
   and the next update restarts the mission at an index past its last waypoint.
2. `claim_VerifiedOnEveryAutoEntry`: leaving AUTO for a mode other than RTL keeps
   `mission_active`, so AUTO entered again is not behind the digest check.
3. `claim_EachWaypointStored`: the first item is requested at MISSION_COUNT and again
   when the response comes; both answers are counted, and the upload is acknowledged
   without its last waypoint. With the response given beforehand (`upload_link`) this
   does not happen.

Observed while modelling, without a run:

* `save_mission_to_nvm` writes the id and version that were current before the upload
  (mission.c:484), so a restored mission has another identity; the save at MISSION
  COMPLETE sets both to 0 (mission.c:495, there is nothing pending then).
* A GUIDED target that was not reached is taken up again when GUIDED is next chosen
  (mission.c:830), although README.md:633 says "Just switching to GUIDED mode doesn't
  make the drone move".
* The heading is the angle off the meridian as long as the latitude differs more than
  the longitude, and the angle off the parallel otherwise (mission.c:575), so a target
  due East is reported at 0 degrees. `HeadingInQuadrant` is what remains true.
* A carry between the two reads of MTIME puts the next tick off by up to seven minutes,
  or brings one too many (main.c:50); `/* 1ms */` in main.c:15 holds between carries.
* A download during an upload returns the array half filled (mavlink_rx.c:455), and one
  in the middle of which another station uploads, or the power fails, may mix two missions,
  since opaque_id is always 0.
* A mission is acknowledged before it is saved (mavlink_rx.c:346), so a power failure in
  between loses an acknowledged mission.
* `rtl_measurement_active` stays set when an RTL is left early (mission.c:751); an RTL that
  later starts at home then prints the open measurement.
* Clearing a mission leaves it readable in NVM (mavlink_rx.c:445).
* The battery failsafe does not come again until 25 % has been reached (mission.c:440),
  although README.md:553 has no such condition; a pilot who overrules it has no other.
* The simulated receiver goes from 8 satellites to 6 and stays there (mission.c:426), so
  the GPS failsafe needs another receiver.
* README.md:135 counts ten tasks, scheduler.c has eleven; `rtl_active` stays "complete"
  while the vehicle flies to a home that was moved; `mission_update` does not look at
  `armed_state`.

## 7. Plan

Done: MissionStore, DurableMission, UploadLink with read-back, Scheduler,
SchedulerMetrics, Failsafe, Vehicle, Flight, Navigation, Timer, with the proofs of
section 4. What could follow:

1. `Parameters`: the table as a component, with MissionStore's inputs read from it.
2. A second ground station in UploadLink, to state what two stations must not do.
3. `Flight` over the coordinates of `Navigation`, as a refinement of places; `LegShortens`
   is its central step.
4. One composition of Flight and Failsafe; the failsafe is now a mode chosen at any time
   in Flight, and flying is a distance in Vehicle.

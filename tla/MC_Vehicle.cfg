SPECIFICATION FairVehicleSpec
CONSTANTS
    FULL_PCT = 6
    BATTERY_CRITICAL_PCT = 1
    BATTERY_RECOVERY_PCT = 4
    BATTERY_DRAIN_IDLE_PCT = 1
    BATTERY_DRAIN_MOVE_PCT = 2
    BATTERY_DRAIN_INTERVAL_TICKS = 2
    GPS_LOSS_TIMEOUT_TICKS = 2
    UINT16 = 4
    AnyReceiver = TRUE
    Far = 2
INVARIANTS
    GpsFlagIsTrue
PROPERTIES
    BatteryOutranksGps
    LastsWhileArmed
    OnlyPilotLeavesRtl
    Recharges
    DrainsToFailsafe
    BatteryBringsHome

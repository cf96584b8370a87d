SPECIFICATION ScheduleSpec
CONSTANTS
    Managers = {"schtasks", "launchd", "systemd"}
    Times = {t1}
    Verbs = {"apply", "care"}
INVARIANT
    RemovedIsGone
CHECK_DEADLOCK FALSE

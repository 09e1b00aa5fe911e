SPECIFICATION FairSpec
CONSTANTS
    d1 = d1
    Devices <- MCDevices
    Skills <- MCSkills
    Visits <- MCVisits
    Scheduled = {s1}
    Threads = {t1}
    Server = Server
    Cooldown = 2
    Window = 1
    Reconciling = TRUE
    Troubles = {"refused", "send_raises", "summary_raises", "connect_raises", "netbox_fails", "unreadable"}
INVARIANTS
    TypeOK
    NoFailureHidden
    EntriesBounded
PROPERTIES
    AlertsApart
    OperatorInformed
    DriftRecorded

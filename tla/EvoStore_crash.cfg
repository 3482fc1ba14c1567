\* Two processes on one store, with up to two crashes or failed updates.
SPECIFICATION StoreSpec
CONSTANTS
    Proc = {p1, p2}
    Event = {e1, e2, e3}
    MaxLog = 3
    MaxBackups = 1
    MaxFaults = 2
INVARIANTS
    AcknowledgedIsDurable
    ProjectionFollowsSource
PROPERTIES
    DamageStopsWriters
\* The bounds of lines, backups and faults end every run.
CHECK_DEADLOCK FALSE

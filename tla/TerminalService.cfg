SPECIFICATION MCSpec
CONSTANTS
 None = None
 Visible = "v"
 Hidden = "h"
 Tunnel = "t"
 Panes = {"v","h","t"}
 Recorded = "v"
 MaxSlots = 1
 Creates = {1,2,3}
 Kills = {11,12,13,61,62}
 Sweeps = {61,62}
 Placed = {11,12,61,62}
 Clears = {21}
 Hooks = {31}
 Exits = {41,42}
 Restarter = 51
 Issuers = {1,2,3,11,12,13,21,31,41,42,51,61,62}
INVARIANTS TypeOK SlotsAccounted KilledStaysKilled LiveSessionsLive HistorySettles TunnelSettles
CHECK_DEADLOCK FALSE
PROPERTY CallsReturn

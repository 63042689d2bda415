SPECIFICATION FairSpec
CONSTANTS
 Tickets = {t1}
 Specialists = {alice}
 Employee = employee
 Sessions = {c1}
 Requests = {r1, r2}
 Sweepers = {w1}
 None = None
 IdleCutoff = 1
 IdleWarning = 1
 IdleEnd = 2
 ClientReasons = {"user_left"}
 Traffic = {"start","send","release","resolve"}
 StaffStatuses = {"resolved"}
 MaxMessages = 1
 MaxCrashes = 1
PROPERTIES
 AbandonedChatEnds
 RequestsFinish
CHECK_DEADLOCK FALSE

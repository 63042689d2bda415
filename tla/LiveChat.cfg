SPECIFICATION Spec
CONSTANTS
 Tickets = {t1}
 Specialists = {alice, bob}
 Employee = employee
 Sessions = {c1, c2}
 Requests = {r1, r2}
 Sweepers = {w1}
 None = None
 IdleCutoff = 1
 IdleWarning = 1
 IdleEnd = 2
 ClientReasons = {"user_left", "resolved"}
 Traffic = {"start", "send", "end", "poll", "assign",
            "release", "resolve", "status", "patch", "close", "reopen"}
 StaffStatuses = {"in_progress", "resolved"}
 MaxMessages = 1
 MaxCrashes = 0
ACTION_CONSTRAINT StaffBeforeChat
SYMMETRY Symmetry
INVARIANTS
 OneLiveChatPerTicket
 LockedCopyIsCurrent
PROPERTIES
 EndedRewrittenOnlyByStaleReader
 SweeperTimesOutOnlyQuietChats
 TicketChangesHandsOnlyByAssignment
 ResolutionStands
 OpensOnlyEmptySlots
CHECK_DEADLOCK FALSE

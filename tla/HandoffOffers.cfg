SPECIFICATION FairSpec
CONSTANTS
    Tickets = {t1}
    Specialists = {p1, p2}
    Sweepers = {w1, w2}
    None = None
    Requester <- NobodyOfStaff
    PresenceTTL = 1
    OfferTTL = 1
    FallbackAge = 3
    MaxRounds = 2
PROPERTIES ClosedStaysClosed TurnIsWhole OffersTakeTurns OffersEnd

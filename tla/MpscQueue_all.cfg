\* A ring of two slots, three offers of two producers (so that the ring is full
\* and is lapped), one reset between captures and one reading of occupancy().
SPECIFICATION FairSpec
CONSTANTS
    Producers = {p1, p2}
    Capacity = 2
    MaxCount = 15
    MaxOffers = 3
    MaxResets = 1
    MaxObservations = 1
INVARIANTS ExclusiveSlots OfferAccounting
PROPERTIES ImplementsFifo OffersSettle
CHECK_DEADLOCK FALSE

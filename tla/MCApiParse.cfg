CONSTANTS
    Segments <- Texts
    LeadingInt <- Leading
    IntMax = 9
    MaxPath = 4
SPECIFICATION PathSpec
INVARIANTS AcceptsItsRoutes NoRouteHidesAnother
CHECK_DEADLOCK FALSE

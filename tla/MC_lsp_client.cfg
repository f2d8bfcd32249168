SPECIFICATION FairSpec
CONSTANTS
    first = first
    second = second
    one = one
    two = two
    Main = Main
    Nobody = Nobody
    Workers <- MCWorkers
    Registrations <- MCRegistrations
    Attempts = 2
    MaxTraffic = 2
    MaxFaults = 1
CHECK_DEADLOCK FALSE
INVARIANTS RequestsAccounted AnswersMatch NobodyWaitsInVain WorkIsAwaited RegistrationsFollow NoLostNotification
PROPERTIES RequestsSettle StopEnds

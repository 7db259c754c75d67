CONSTANTS
    Codes = 2
    EventMixes <- Mixes
SPECIFICATION FairSpec
INVARIANTS TypeOK RegistrationIsKnown
PROPERTIES RevocationIsFinal RollbackLosesNoTraffic PublishedServes OnboardingEnds
CHECK_DEADLOCK FALSE

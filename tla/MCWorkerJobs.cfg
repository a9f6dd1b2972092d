SPECIFICATION FairSpec
CONSTANTS
    Jobs = {"t1", "t2", "h", "s", "x", "b"}
    Mixes <- MCMixes
    KindOf <- MCKindOf
    AutomationList <- MCAutomationList
    ActionOf <- MCActionOf
    Daily = {"daily"}
    ProviderList <- MCProviderList
    Anomalies = {"cpu"}
    MaxItems = 2
    Attempts = 2
    MaxStalls = 1
    BackfillLimit = 3
INVARIANTS
    RepeatedOnlyByItsOwnFaults
    NotifiedOncePerWindow
PROPERTIES
    AutomationsAreReached
    IllnessIsAnnounced

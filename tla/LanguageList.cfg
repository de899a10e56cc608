SPECIFICATION FairSpec
CONSTANTS
    Threads = {ui}
    Wanted = {"en", "en-IN", "cmn-Hans-HK", "fr"}
    MaxDownloads = 2
INVARIANT
    ListUsable
PROPERTIES
    StoredStays
    StoredInTheEnd

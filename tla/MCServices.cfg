SPECIFICATION Spec
CONSTANTS
    Recorder = {r1, r2}
    Keep = {0, 1}
    MaxRows = 4
    MaxWall = 2
    Slice = 2
    Timeout = 3
    MaxWrites = 2
    Watched = {d1, d2}
    MaxChanges = 3
    MaxRaised = 5
    MaxCrashes = 1
    Tablet = {t1, t2}
    Typing = {k1, k2}
    MaxUses = 2
    MaxGuesses = 2
    MaxCertificates = 4
    MaxEvents = 3
    Job = {j1, j2}
    Page = {p1}
    Click = {c1}
    MaxTokens = 3
    MaxMishaps = 1
    MaxStack = 3
    Policies <- AppPolicies
    Universe <- AppUniverse
    Carries <- AppCarries
    Report <- AppReports
    Plugin = {2, 4}
    OtherApp = {3}
    Atak = 1
    AtlasPlugin = 5
    Launcher = 6
    WebFilter = 7
    OldestLine = 2
    MaxBuilds = 3
    Common = {s1}
    FileDigest = {s1, 1}
    Line = {1, 2}
    Apk <- LibraryApks
    Policy = {q1}
    Nothing = Nothing
    MaxBegun = 4
    Holder = {h1}
    SameName = FALSE
    IssuerLife = 4
    DeviceLife = 4
    Window = 1
    Margin = 1
    MaxIssuers = 2
    MaxTime = 6
    MaxDeaths = 1
    NoFile = NoFile
INVARIANTS
    NothingIsLost
    LostRingCostsASlice
    SentIsTrue
    OncePerSpell
    QrIsNotOverspent
    OldKeysAreOut
    NeverCutOff
    GuessesAreCapped
    BrokenHasACause
    ReadOrderIsIrrelevant
    StackingOnlyTightens
    ConflictsAreTold
    PluginsLoad
    CompanionsFit
    PinsAreStocked
    RowsHaveBlobs
    RotationStrandsNobody
PROPERTIES
    VerdictIsTrue
    RingsAreHeard
    IsTakenUp
    EveryAlertIsSent
    RetiredStaysOut
    PinsKeepTheirLine

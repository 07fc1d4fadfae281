SPECIFICATION Spec
CONSTANTS
    Holder = {h1}
    SameName = TRUE
    IssuerLife = 4
    DeviceLife = 4
    Window = 1
    Margin = 1
    MaxIssuers = 2
    MaxTime = 6
    MaxDeaths = 0
    NoFile = NoFile
INVARIANT RotationStrandsNobody

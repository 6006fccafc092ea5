CONSTANTS
    First = First  Second = Second  Event = Event
    Sprite = Sprite  Palette = Palette  Sheet = Sheet  Table = Table  Chart = Chart
    Old = Old  New = New  Wasm = Wasm
    Order <- MCOrder
    Events = {Event}
    Handles <- MCHandles
    Nobody = Nobody
    MaxDepth = 3
    MaxRegistrations = 3
    Closures <- MCClosures
    Files = {"save"}
    Chunks = {"x"}
    MaxLength = 2
    Owners = {First}
    Sources = {Sprite, Palette}
    Outputs = {Sheet, Table, Chart}
    Converters = {Wasm}
    Matches <- MCMatches
    Contents = {Old, New}
    OutputOf <- MCOutputOf
    MaxVersion = 2
    Nothing = Nothing
    Keeper = First
    InitialAssets <- MCInitialAssets
    MaxRequests = 4
    MaxCrashes = 1
SPECIFICATION Spec
INVARIANTS RuntimeTypeOK ContextNamesRunner UnloadsOwn FilesKept CacheTransparent CopiesWhole
PROPERTY WritesStayHome
CHECK_DEADLOCK FALSE

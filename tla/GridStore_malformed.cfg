CONSTANTS
    GRID_SIZE = 2
    PaletteSize = 16
    Colors <- MCColors
    UpdateXs <- MCUpdateXs
    UpdateYs <- MCUpdateYs
    UpdateColors <- MCUpdateColors
    SnapshotLengths <- MCSnapshotLengths
    MaxDraws = 1
    MaxReconnects = 1
SPECIFICATION SpecWithMalformed
PROPERTY MalformedFrameIgnored
\* The client idles once the bounded draws and reconnects are spent.
CHECK_DEADLOCK FALSE

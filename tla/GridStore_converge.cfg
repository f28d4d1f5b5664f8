CONSTANTS
    GRID_SIZE = 2
    PaletteSize = 16
    Colors <- MCColors
    UpdateXs <- MCUpdateXs
    UpdateYs <- MCUpdateYs
    UpdateColors <- MCUpdateColors
    SnapshotLengths <- MCSnapshotLengths
    MaxDraws = 3
    MaxReconnects = 1
SPECIFICATION Spec
INVARIANT Converged
\* The client idles once the bounded draws and reconnects are spent.
CHECK_DEADLOCK FALSE

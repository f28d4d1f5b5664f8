\* A click after a wheel turn paints another cell than the one drawn under the pointer.
CONSTANTS
    GRID_SIZE = 4
    CanvasSize = 40
    MIN_ZOOM <- MCMinZoom
    MAX_ZOOM <- MCMaxZoom
    INITIAL_ZOOM <- MCInitialZoom
    Pointers <- MCPointers
    Outside = Outside
    NoCell = NoCell
    StrictMode = FALSE
    MaxEvents = 3
    PaletteSize = 2
SPECIFICATION Spec
INVARIANT ClickHitsDrawnCell
CHECK_DEADLOCK FALSE

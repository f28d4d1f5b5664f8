\* Wheel turns and drags keep the drawn window inside the grid, and a wheel turn keeps the point under the pointer fixed.
CONSTANTS
    GRID_SIZE = 4
    CanvasSize = 40
    MIN_ZOOM <- MCMinZoom
    MAX_ZOOM <- MCMaxZoom
    INITIAL_ZOOM <- MCInitialZoom
    Pointers <- MCPointers
    Outside = Outside
    NoCell = NoCell
    StrictMode = FALSE
    MaxEvents = 4
    PaletteSize = 2
SPECIFICATION Spec
INVARIANT ViewInsideGrid CanvasMapsIntoGrid
PROPERTY FocalPointFixed
CHECK_DEADLOCK FALSE

------------------------------ MODULE Viewport ------------------------------
(***************************************************************************)
(* The viewport of the pixel canvas: the zoom and pan state of PixelGrid   *)
(* (src/frontend/src/components/PixelGrid.tsx), its pointer handlers, and  *)
(* the two ways the component relates a screen point to a cell: drawGrid   *)
(* draws cell x at canvas x * scaleFactor under ctx.scale(zoom) and        *)
(* ctx.translate(-offset), while handleClick and the hover mapping compute *)
(* floor(mouse / (scaleFactor * zoom) + offset).                           *)
(*                                                                         *)
(* One axis is modelled: the code treats x and y by the same formulas and  *)
(* independently.  Numbers are exact fractions (module Fractions).  Every  *)
(* event handler is one step, after which React has rendered: the          *)
(* handlers read the committed zoom and offset.                            *)
(*                                                                         *)
(* The pointer is at a position of Pointers over the canvas or Outside.    *)
(* A press on the canvas followed by a release on it makes the browser    *)
(* dispatch click after mouseup.  CSS pointer-events: none keeps every     *)
(* pointer event off the canvas while disabled.                           *)
(*                                                                         *)
(* PixelCanvas (src/frontend/src/components/PixelCanvas.tsx) renders this  *)
(* grid beside a ColorPicker and keeps the selected color; it passes the   *)
(* picker disabled || loading, and the grid disabled and loading apart.    *)
(***************************************************************************)
EXTENDS Integers, Fractions

CONSTANTS
    GRID_SIZE,     \* cells per side (the size prop)
    CanvasSize,    \* canvas.width = canvas.height = rect.width, in pixels
    MIN_ZOOM,      \* fractions
    MAX_ZOOM,
    INITIAL_ZOOM,
    Pointers,      \* pointer x positions over the canvas, in pixels
    Outside,       \* the pointer is off the canvas
    NoCell,        \* hoveredPixel = null; no onPixelClick call
    StrictMode,    \* React.StrictMode around the page (routes.tsx)
    MaxEvents,     \* bound: wheel turns, pointer moves and prop changes
    PaletteSize    \* colors.length

ASSUME Pointers \subseteq 0..(CanvasSize - 1)
ASSUME CanvasSize >= GRID_SIZE

VARIABLES
    zoom,        \* useState zoom
    offset,      \* useState offset (its x)
    isDragging,  \* useState isDragging
    lastMouse,   \* lastMousePosRef.current (its x)
    hovered,     \* useState hoveredPixel (its x) or NoCell
    at,          \* where the pointer is
    pressed,     \* the button went down on the canvas and is still down
    paint,       \* the onPixelClick call of the last step, or NoCell
    status,      \* the disabled and loading props
    events,      \* bounded events so far
    selected,    \* PixelCanvas's useState selectedColor
    panned       \* history: a drag moved the grid since the button went down

vars == <<zoom, offset, isDragging, lastMouse, hovered, at, pressed, paint,
          status, events, selected, panned>>

ScaleFactor == Frac(CanvasSize, GRID_SIZE)

Cells == 0..(GRID_SIZE - 1)

(***************************************************************************)
(* The arithmetic of the component.                                        *)
(***************************************************************************)

\* Mutant: the mapping leaves the zoom out of the cell size.
ScreenToGridNoZoom(p, z, off) == QFloor(QAdd(QDiv(QInt(p), ScaleFactor), off))

\* handleClick and handleMouseMove: the cell under canvas position p.
ScreenToGrid(p, z, off) == QFloor(QAdd(QDiv(QInt(p), QMul(ScaleFactor, z)), off))

\* setHoveredPixel: the cell under p, or null outside the grid.
HoverTarget(p, z, off) ==
    IF ScreenToGrid(p, z, off) \in Cells THEN ScreenToGrid(p, z, off) ELSE NoCell

\* drawGrid: canvas position p shows world point p / zoom + offset, and
\* fillRect puts cell x over world [x * scaleFactor, (x + 1) * scaleFactor).
World(p, z, off) == QAdd(QDiv(QInt(p), z), off)

DrawnCell(p, z, off) == QFloor(QDiv(World(p, z, off), ScaleFactor))

\* The limit both handlers clamp the offset to.
MaxOffset(z) == QSub(QInt(GRID_SIZE), QDiv(QInt(GRID_SIZE), z))

ClampOffset(v, z) == QMax(QInt(0), QMin(v, MaxOffset(z)))

\* deltaY > 0 zooms out by 0.9, otherwise in by 1.1, within the limits.
ZoomFactor(deltaY) == IF deltaY > 0 THEN Frac(9, 10) ELSE Frac(11, 10)

NextZoom(prevZoom, deltaY) ==
    QMax(MIN_ZOOM, QMin(MAX_ZOOM, QMul(prevZoom, ZoomFactor(deltaY))))

\* Mutant: the clamp uses the zoom before the wheel turn.
WheelOffsetStaleClamp(prev, p, prevZoom, newZoom) ==
    ClampOffset(QSub(QAdd(QDiv(QInt(p), prevZoom), prev), QDiv(QInt(p), newZoom)),
                prevZoom)

\* Mutant: the two zoom levels swapped in the focal-point formula.
WheelOffsetSwapped(prev, p, prevZoom, newZoom) ==
    ClampOffset(QSub(QAdd(QDiv(QInt(p), newZoom), prev), QDiv(QInt(p), prevZoom)),
                newZoom)

\* The setOffset updater handleWheel queues: keep the point under the
\* pointer fixed, then clamp with the new zoom.
WheelOffset(prev, p, prevZoom, newZoom) ==
    ClampOffset(QSub(QAdd(QDiv(QInt(p), prevZoom), prev), QDiv(QInt(p), newZoom)),
                newZoom)

\* The setOffset updater of a drag move by dx pixels.
DragOffset(prev, dx, z) == ClampOffset(QSub(prev, QDiv(QInt(dx), z)), z)

\* The updater applied k times in a row.
RECURSIVE Repeat(_, _, _, _, _)
Repeat(k, off, p, prevZoom, newZoom) ==
    IF k = 0 THEN off
    ELSE Repeat(k - 1, WheelOffset(off, p, prevZoom, newZoom), p, prevZoom, newZoom)

\* How often the setZoom updater, and with it the setOffset call inside it,
\* runs: React runs an updater once, or under StrictMode's double
\* invocation twice, depending on whether it is computed eagerly.
Invocations == IF StrictMode THEN {1, 2} ELSE {1}

\* The disabled and loading props of PixelCanvas, which it passes on to
\* PixelGrid; the page may pass either.
Status == [disabled : BOOLEAN, loading : BOOLEAN]

Enabled == ~status.disabled

\* PixelCanvas passes the ColorPicker disabled || loading.
PickerDisabled == status.disabled \/ status.loading

\* PixelCanvas's handlePixelClick: forward the call unless disabled or
\* loading.
HandlePixelClick(call) == IF PickerDisabled THEN NoCell ELSE call

(***************************************************************************)
(* Actions: one per event handler.                                         *)
(***************************************************************************)

Init ==
    /\ zoom = INITIAL_ZOOM
    /\ offset = QInt(0)
    /\ isDragging = FALSE
    /\ lastMouse = 0
    /\ hovered = NoCell
    /\ at = Outside
    /\ pressed = FALSE
    /\ paint = NoCell
    /\ status \in Status
    /\ events = 0
    /\ selected = 0
    /\ panned = FALSE

\* handleWheel at the pointer's position.
Wheel(deltaY) ==
    /\ Enabled
    /\ at \in Pointers
    /\ events < MaxEvents
    /\ LET newZoom == NextZoom(zoom, deltaY)
       IN  /\ zoom' = newZoom
           /\ \E k \in Invocations : offset' = Repeat(k, offset, at, zoom, newZoom)
    /\ paint' = NoCell
    /\ events' = events + 1
    /\ UNCHANGED <<isDragging, lastMouse, hovered, at, pressed, status>>

\* handleMouseMove with the pointer arriving at p: pan while dragging,
\* otherwise track the hovered cell.
MouseMove(p) ==
    /\ Enabled
    /\ events < MaxEvents
    /\ at' = p
    /\ IF isDragging
       THEN /\ offset' = DragOffset(offset, p - lastMouse, zoom)
            /\ lastMouse' = p
            /\ UNCHANGED hovered
       ELSE /\ hovered' = HoverTarget(p, zoom, offset)
            /\ UNCHANGED <<offset, lastMouse>>
    /\ paint' = NoCell
    /\ events' = events + 1
    /\ UNCHANGED <<zoom, isDragging, pressed, status>>

\* handleMouseLeave.
MouseLeave ==
    /\ Enabled
    /\ at \in Pointers
    /\ at' = Outside
    /\ isDragging' = FALSE
    /\ hovered' = NoCell
    /\ paint' = NoCell
    /\ UNCHANGED <<zoom, offset, lastMouse, pressed, status, events>>

\* handleMouseDown: ignored while loading.
MouseDown ==
    /\ Enabled
    /\ at \in Pointers
    /\ ~pressed
    /\ pressed' = TRUE
    /\ IF status.loading
       THEN UNCHANGED <<isDragging, lastMouse>>
       ELSE /\ isDragging' = TRUE
            /\ lastMouse' = at
    /\ paint' = NoCell
    /\ UNCHANGED <<zoom, offset, hovered, at, status, events>>

\* handleMouseUp, then the click the browser dispatches for a press and
\* release on the canvas: handleClick, and PixelCanvas's handlePixelClick
\* with the same guard, call onPixelClick for a cell inside the grid.
MouseUp ==
    /\ Enabled
    /\ at \in Pointers
    /\ isDragging' = FALSE
    /\ pressed' = FALSE
    /\ LET cell == ScreenToGrid(at, zoom, offset)
       IN  paint' = IF pressed /\ ~status.loading /\ cell \in Cells
                    THEN HandlePixelClick([p |-> at, cell |-> cell])
                    ELSE NoCell
    /\ UNCHANGED <<zoom, offset, lastMouse, hovered, at, status, events>>

\* The button is released off the canvas: no canvas handler runs.
ReleaseOutside ==
    /\ at = Outside
    /\ pressed
    /\ pressed' = FALSE
    /\ paint' = NoCell
    /\ UNCHANGED <<zoom, offset, isDragging, lastMouse, hovered, at, status,
                   events>>

\* The parent re-renders PixelGrid with other disabled/loading props.
StatusChange ==
    /\ events < MaxEvents
    /\ status' \in Status \ {status}
    /\ paint' = NoCell
    /\ events' = events + 1
    /\ UNCHANGED <<zoom, offset, isDragging, lastMouse, hovered, at, pressed>>

\* ColorPicker: a color button, clicked or given Enter or Space, selects its
\* color; a disabled button receives neither.
SelectColor(i) ==
    /\ ~PickerDisabled
    /\ i # selected
    /\ selected' = i
    /\ paint' = NoCell
    /\ UNCHANGED <<zoom, offset, isDragging, lastMouse, hovered, at, pressed,
                   status, events>>

\* A pointer event of the grid leaves the selected color alone; a press
\* starts a gesture, and a drag that moves the grid marks it as a pan.
Next ==
    \/ MouseDown /\ panned' = FALSE /\ UNCHANGED selected
    \/ \E p \in Pointers :
          /\ MouseMove(p)
          /\ panned' = (panned \/ (isDragging /\ offset' # offset))
          /\ UNCHANGED selected
    \/ /\ \/ \E d \in {-1, 1} : Wheel(d)
          \/ MouseLeave
          \/ MouseUp
          \/ ReleaseOutside
          \/ StatusChange
       /\ UNCHANGED <<selected, panned>>
    \/ \E i \in 0..(PaletteSize - 1) : SelectColor(i) /\ UNCHANGED panned

Spec == Init /\ [][Next]_vars

(***************************************************************************)
(* Properties.                                                             *)
(***************************************************************************)

\* spec.md section 4.4: the wheel and drag clamps are the load-bearing
\* invariant: the window drawGrid shows, world [offset, offset +
\* canvasSize / zoom), never extends outside the grid at any zoom, after
\* any mix of wheel turns at any pointer position and drags.
ViewInsideGrid ==
    /\ QLe(QInt(0), offset)
    /\ QLe(QAdd(offset, QDiv(QInt(CanvasSize), zoom)), QInt(CanvasSize))

\* spec.md section 4.4 (screenToGrid): read in the units of handleClick
\* and the hover mapping, the same clamps keep every canvas position over
\* a grid cell, so the "outside grid" branch of both handlers never runs.
CanvasMapsIntoGrid == \A p \in Pointers : ScreenToGrid(p, zoom, offset) \in Cells

\* spec.md section 4.4 (zoomAt): a wheel turn keeps the grid point under
\* the pointer fixed on screen, whenever the clamp lets it: if that point
\* can stay put at the new zoom with an offset inside the clamp range,
\* handleWheel's offset updaters put it there.
FocalPointFixed ==
    [][ ( /\ zoom' # zoom
          /\ at \in Pointers
          /\ LET target == QSub(World(at, zoom, offset), QDiv(QInt(at), zoom'))
             IN  QLe(QInt(0), target) /\ QLe(target, MaxOffset(zoom')) )
        => World(at, zoom', offset') = World(at, zoom, offset) ]_vars

\* A click paints the cell drawn under the pointer, and a drag only pans:
\* onPixelClick is called only for a press and release with no drag that
\* moved the grid in between, and with the cell drawGrid shows at the
\* release position.
ClickHitsDrawnCell ==
    paint # NoCell =>
        /\ ~panned
        /\ paint.cell = DrawnCell(paint.p, zoom, offset)

=============================================================================

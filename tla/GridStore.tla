------------------------------ MODULE GridStore ------------------------------
(***************************************************************************)
(* The grid store of the pixel canvas client: the reducer of useGrid       *)
(* (src/frontend/src/hooks/useGrid.ts), fed by one connection's in-order   *)
(* frame stream, and read back by the renderer's indexing (PixelGrid).     *)
(*                                                                         *)
(* The server and its wire encoding (spec.md sections 4.1 and 6) are the   *)
(* environment: the server keeps the authoritative grid, broadcasts every  *)
(* draw as a PIXEL_UPDATE and sends a STATE snapshot on every (re)connect. *)
(* A lost connection drops the frames still in flight.                     *)
(***************************************************************************)
EXTENDS Naturals, Sequences

CONSTANTS
    GRID_SIZE,       \* cells per side (useGrid's constant)
    PaletteSize,     \* colors.length of the configuration
    Colors,          \* color indices the server draws with
    UpdateXs,        \* x values a PIXEL_UPDATE frame may carry
    UpdateYs,        \* y values a PIXEL_UPDATE frame may carry
    UpdateColors,    \* color values a PIXEL_UPDATE frame may carry
    SnapshotLengths, \* payload lengths a STATE frame may have
    MaxDraws,        \* bound: draws the server broadcasts
    MaxReconnects    \* bound: connections lost and re-established

ASSUME Colors \subseteq 0..(PaletteSize - 1)
ASSUME PaletteSize <= 16

VARIABLES
    grid,      \* the reducer's Uint8Array, index y * GRID_SIZE + x
    server,    \* the server's grid, [x, y] -> color
    chan,      \* frames sent on the current connection, not yet handled
    draws,     \* draws so far
    reconnects \* reconnects so far

vars == <<grid, server, chan, draws, reconnects>>

Coords == 0..(GRID_SIZE - 1)
Cells == 0..(GRID_SIZE * GRID_SIZE - 1)
Bytes == 0..255

(***************************************************************************)
(* The server side, from spec.md: row-major cells packed two per byte,     *)
(* first cell in the high nibble, ceil(size^2 / 2) bytes.                  *)
(***************************************************************************)
SnapshotLength == (GRID_SIZE * GRID_SIZE + 1) \div 2

ServerCell(g, i) ==
    IF i < GRID_SIZE * GRID_SIZE THEN g[i % GRID_SIZE, i \div GRID_SIZE] ELSE 0

Pack(g) == [k \in 1..SnapshotLength |->
               16 * ServerCell(g, 2 * (k - 1)) + ServerCell(g, 2 * (k - 1) + 1)]

StateFrame(bytes) == [type |-> "state", bytes |-> bytes]
PixelFrame(x, y, c) == [type |-> "pixel", x |-> x, y |-> y, color |-> c]

(***************************************************************************)
(* The reducer.                                                            *)
(***************************************************************************)

\* Mutant: the row and column swapped in the index.
CellIndexSwapped(x, y) == x * GRID_SIZE + y

\* UPDATE_CELL's index.
CellIndex(x, y) == y * GRID_SIZE + x

\* UPDATE_CELL on a copy: a typed-array store at an index outside the
\* array is ignored, and a stored number is reduced modulo 2^8.
UpdateCell(g, x, y, c) ==
    LET i == CellIndex(x, y)
    IN  IF i \in DOMAIN g THEN [g EXCEPT ![i] = c % 256] ELSE g

\* uint8Array[byteIndex], where a read past the end is undefined and the
\* bitwise operators turn undefined into 0.
ByteAt(bytes, k) == IF k < Len(bytes) THEN bytes[k + 1] ELSE 0

\* Mutant: the nibble is chosen by the parity of the row.
IsUpperNibbleByRow(x, y) == y % 2 = 0

\* isUpperNibble: by the parity of x, not of the cell index.
IsUpperNibble(x, y) == x % 2 = 0

\* SET_GRID: unpack every cell of a fresh array from its nibble.
Unpack(bytes) ==
    [i \in Cells |->
        LET x == i % GRID_SIZE
            y == i \div GRID_SIZE
            b == ByteAt(bytes, (y * GRID_SIZE + x) \div 2)
        IN  IF IsUpperNibble(x, y) THEN b \div 16 ELSE b % 16]

\* gridReducer: dispatch on the action's type.
GridReducer(g, action) ==
    CASE action.type = "UPDATE_CELL" -> UpdateCell(g, action.x, action.y, action.colorIndex)
      [] action.type = "SET_GRID"    -> Unpack(action.grid)
      [] OTHER                       -> g

\* The actions useGrid's updateGrid and setGrid dispatch.
UpdateGridAction(x, y, c) == [type |-> "UPDATE_CELL", x |-> x, y |-> y, colorIndex |-> c]

SetGridAction(bytes) == [type |-> "SET_GRID", grid |-> bytes]

\* The renderer's read of cell (x, y) (PixelGrid's drawGrid).
View(g) == [x \in Coords, y \in Coords |-> g[y * GRID_SIZE + x]]

(***************************************************************************)
(* Actions.                                                                *)
(***************************************************************************)

\* The store starts as new Uint8Array(size * size); the first connection
\* opens with a snapshot of whatever the server holds.
Init ==
    /\ grid = [i \in Cells |-> 0]
    /\ server \in [Coords \X Coords -> Colors]
    /\ chan = <<StateFrame(Pack(server))>>
    /\ draws = 0
    /\ reconnects = 0

\* A viewer draws: the server updates its grid and broadcasts the change.
ServerDraw ==
    /\ draws < MaxDraws
    /\ \E x, y \in Coords, c \in Colors :
          /\ server' = [server EXCEPT ![x, y] = c]
          /\ chan' = Append(chan, PixelFrame(x, y, c))
    /\ draws' = draws + 1
    /\ UNCHANGED <<grid, reconnects>>

\* A frame the server's encoder or the network garbles: a PIXEL_UPDATE
\* with any coordinates and color of the input sets, or a STATE payload
\* of another length, with no change to the server's grid.
MalformedFrame ==
    /\ draws < MaxDraws
    /\ \/ \E x \in UpdateXs, y \in UpdateYs, c \in UpdateColors :
             /\ PixelFrame(x, y, c) \notin {PixelFrame(a, b, d) : a, b \in Coords, d \in Colors}
             /\ chan' = Append(chan, PixelFrame(x, y, c))
       \/ \E n \in SnapshotLengths \ {SnapshotLength} :
             chan' = Append(chan, StateFrame([k \in 1..n |->
                                 IF k <= SnapshotLength THEN Pack(server)[k] ELSE 0]))
    /\ draws' = draws + 1
    /\ UNCHANGED <<grid, server, reconnects>>

\* The connection drops with frames in flight; the hook reconnects and the
\* server opens the new connection with a snapshot.
Reconnect ==
    /\ reconnects < MaxReconnects
    /\ chan' = <<StateFrame(Pack(server))>>
    /\ reconnects' = reconnects + 1
    /\ UNCHANGED <<grid, server, draws>>

\* onmessage hands the next frame to the dispatcher, which calls setGrid
\* for STATE and updateGrid for PIXEL_UPDATE.
Receive ==
    /\ chan # <<>>
    /\ LET f == Head(chan)
       IN  grid' = GridReducer(grid, IF f.type = "state"
                                     THEN SetGridAction(f.bytes)
                                     ELSE UpdateGridAction(f.x, f.y, f.color))
    /\ chan' = Tail(chan)
    /\ UNCHANGED <<server, draws, reconnects>>

Next == ServerDraw \/ Reconnect \/ Receive

\* The event loop hands every frame that arrived to onmessage.
Spec == Init /\ [][Next]_vars /\ WF_vars(Receive)

\* The same with garbled frames on the wire.
NextWithMalformed == Next \/ MalformedFrame

SpecWithMalformed == Init /\ [][NextWithMalformed]_vars /\ WF_vars(Receive)

(***************************************************************************)
(* Properties.                                                             *)
(***************************************************************************)

\* spec.md sections 1 and 5: every viewer converges on the server's grid.
\* Whenever every frame sent has been handled, the cells the renderer
\* reads are the server's cells.
Converged == chan = <<>> => View(grid) = server

\* A frame spec.md calls malformed: a PIXEL_UPDATE outside [0, size) or
\* outside the palette, or a STATE payload whose length disagrees with the
\* grid size.
Malformed(f) ==
    IF f.type = "pixel"
    THEN ~(f.x \in Coords /\ f.y \in Coords /\ f.color < PaletteSize)
    ELSE Len(f.bytes) # SnapshotLength

\* spec.md sections 3, 4.1, 4.3 and 8: handling a malformed frame (in
\* useGrid's UPDATE_CELL or SET_GRID) rejects it and leaves the grid
\* unchanged.
MalformedFrameIgnored ==
    [][ chan # <<>> /\ Malformed(Head(chan)) => grid' = grid ]_vars

=============================================================================

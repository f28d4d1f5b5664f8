---- MODULE MC_Viewport ----
EXTENDS Viewport

\* The shipped limits are 1 and 40; a MAX_ZOOM of 6/5 lets the upper clamp
\* bind after two wheel turns (1.21 > 1.2).
MCMinZoom == QInt(1)
MCMaxZoom == Frac(6, 5)
MCInitialZoom == QInt(1)

\* Pointer positions: the left edge, one pixel in, the middle, the right edge.
MCPointers == {0, 1, 20, 39}
====

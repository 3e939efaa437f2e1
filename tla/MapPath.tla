-------------------------------- MODULE MapPath --------------------------------
(***************************************************************************)
(* A line or ring of an area as the map's image draws it                   *)
(* (app/maps/static-map.ts): its points, one after the other, less those   *)
(* that cannot be seen. A county's coastline is thousands of points, and   *)
(* nearly all of them are off a map that is zoomed in on a site.           *)
(*                                                                         *)
(* A point is a pair of whole pixels, so nothing is lost by rounding it.   *)
(***************************************************************************)
EXTENDS Integers, Sequences, FiniteSets, SequencesExt

CONSTANTS
  Width, Height,  \* the map's
  OffMapMargin,   \* OFF_MAP_MARGIN_PIXELS
  Pixels,         \* where a line's points may be
  MaxPoints,      \* bound: how many a line has
  NoRun

VARIABLES
  filled,  \* the geometry is an area's, and not a line's
  drawn,   \* the line's points so far
  kept,    \* of those, the ones that are drawn
  run      \* the last of them, if they are all beyond one edge: [first, last, length, edges]

pathVars == <<filled, drawn, kept, run>>

edgesBeyond(p) ==
  {e \in {"left", "right", "above", "below"} :
     CASE e = "left" -> p[1] < -OffMapMargin
       [] e = "right" -> p[1] > Width + OffMapMargin
       [] e = "above" -> p[2] < -OffMapMargin
       [] e = "below" -> p[2] > Height + OffMapMargin}

\* One point, if the run is of one.
endRun ==
  IF run = NoRun THEN kept
  ELSE kept \o (IF run.length = 1 THEN <<run.first>> ELSE <<run.first, run.last>>)

PathInit ==
  /\ filled \in BOOLEAN
  /\ drawn = <<>> /\ kept = <<>> /\ run = NoRun

ContinueRunMutant(pixel) ==
  /\ run' = [run EXCEPT !.last = pixel, !.length = @ + 1]
  /\ UNCHANGED kept

\* The run goes on while all its points are beyond one and the same edge.
ContinueRun(pixel) ==
  /\ run' = [run EXCEPT !.last = pixel, !.length = @ + 1, !.edges = @ \cap edgesBeyond(pixel)]
  /\ UNCHANGED kept

NextPixel(pixel) ==
  /\ Len(drawn) < MaxPoints
  /\ drawn' = Append(drawn, pixel)
  /\ IF run # NoRun /\ run.edges \cap edgesBeyond(pixel) # {}
     THEN ContinueRun(pixel)
     ELSE IF edgesBeyond(pixel) = {}
     THEN kept' = Append(endRun, pixel) /\ run' = NoRun
     ELSE kept' = endRun /\ run' = [first |-> pixel, last |-> pixel, length |-> 1, edges |-> edgesBeyond(pixel)]
  /\ UNCHANGED filled

\* The next of the geometry's lines.
NextLine ==
  /\ Len(drawn) = MaxPoints
  /\ filled' \in BOOLEAN
  /\ drawn' = <<>> /\ kept' = <<>> /\ run' = NoRun

PathNext == NextLine \/ \E pixel \in Pixels : NextPixel(pixel)

visiblePathPoints == endRun

\* A point that reads as the one before it is left out.
svgPathCommandsForLine(pixels) ==
  FoldLeft(LAMBDA path, p : IF path # <<>> /\ Last(path) = p THEN path ELSE Append(path, p), <<>>, pixels)

-----------------------------------------------------------------------------
(* Properties *)

\* The straight lines of a path, with the one that closes an area's.
Segments(path) ==
  [i \in 1 .. Len(path) - 1 |-> <<path[i], path[i + 1]>>]
    \o (IF filled /\ path # <<>> THEN <<<<Last(path), Head(path)>>>> ELSE <<>>)

\* Even-odd, so holes count.
insideRing(pixel, ring) ==
  LET x == pixel[1]
      y == pixel[2]
      Crosses(i) ==
        LET a == ring[i]
            b == ring[IF i = 1 THEN Len(ring) ELSE i - 1]
            across == (b[1] - a[1]) * (y - a[2])
            rise == b[2] - a[2]
        IN /\ (a[2] > y) # (b[2] > y)
           /\ IF rise > 0 THEN (x - a[1]) * rise < across ELSE (x - a[1]) * rise > across
  IN Cardinality({i \in DOMAIN ring : Crosses(i)}) % 2 = 1

\* What is left out is not missed: whichever points a line has, every stretch of it
\* that does not lie wholly beyond one edge is drawn as it was, in the same order,
\* and the inside of an area is, on the map, what it was, where a label of it may go.
SeenUnchanged ==
  LET path == svgPathCommandsForLine(visiblePathPoints)
      May(segment) ==
        /\ segment[1] # segment[2]
        /\ edgesBeyond(segment[1]) \cap edgesBeyond(segment[2]) = {}
  IN Len(drawn) >= 2 =>
       /\ SelectSeq(Segments(path), May) = SelectSeq(Segments(drawn), May)
       /\ filled => \A x \in 0 .. Width, y \in 0 .. Height :
                      insideRing(<<x, y>>, visiblePathPoints) = insideRing(<<x, y>>, drawn)
=============================================================================

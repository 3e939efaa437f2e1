------------------------------- MODULE MapLabels -------------------------------
(***************************************************************************)
(* The names and distances on a report's map (app/maps/static-map.ts):     *)
(* each buffer's where its outline crosses the middle of the map, and each *)
(* area's at a spot of its own that is free. They are placed by the paths  *)
(* the map draws, which leave out what is not seen (MapPath).              *)
(*                                                                         *)
(* Places are in parts of a pixel, so many that what the instance divides  *)
(* is whole. How wide a label is depends on its text.                      *)
(***************************************************************************)
EXTENDS MapPath

CONSTANTS
  Parts,        \* of a pixel
  LabelGrid,    \* LABEL_GRID_PIXELS
  LabelEdge,    \* LABEL_EDGE_PIXELS
  LabelHeight,  \* LABEL_HEIGHT, in parts
  LabelWidth,   \* of each text, in parts
  Name,         \* the text of the area whose path is drawn
  OtherAreas,   \* the map's other areas: [text, rings], in the order of the map's features
  Buffers       \* its buffers: [text, lines]

\* A whole number of x, y between.
Clip(n, lowest, highest) == IF n < lowest THEN lowest ELSE IF n > highest THEN highest ELSE n

Points(rings) == UNION {ToSet(rings[i]) : i \in DOMAIN rings}
Least(numbers) == CHOOSE n \in numbers : \A m \in numbers : n <= m
Greatest(numbers) == CHOOSE n \in numbers : \A m \in numbers : n >= m

insideRings(pixel, rings) ==
  Cardinality({i \in DOMAIN rings : insideRing(pixel, rings[i])}) % 2 = 1

\* The box around what an area has on the map.
OnMapBox(rings) ==
  LET xs == {p[1] : p \in Points(rings)}
      ys == {p[2] : p \in Points(rings)}
  IN [left |-> Clip(Least(xs), 0, Width), right |-> Clip(Greatest(xs), 0, Width),
      top |-> Clip(Least(ys), 0, Height), bottom |-> Clip(Greatest(ys), 0, Height)]

\* The grid's spots in it, row by row.
GridSpots(rings) ==
  LET box == OnMapBox(rings)
      Ticks(from, to) == SelectSeq([n \in 1 .. to + 1 |-> n - 1], LAMBDA n : n >= from /\ n % LabelGrid = 0)
      columns == Ticks(box.left, box.right)
      rows == Ticks(box.top, box.bottom)
      Row(y) == [i \in DOMAIN columns |-> <<columns[i], y>>]
  IN SelectSeq(FlattenSeq([i \in DOMAIN rows |-> Row(rows[i])]), LAMBDA spot : insideRings(spot, rings))

\* Sorted by a number of each, those alike in their order.
SortedBy(Key(_), seq) ==
  LET Into(sorted, item) ==
        LET before == SelectSeq(sorted, LAMBDA other : Key(other) <= Key(item))
        IN before \o <<item>> \o SubSeq(sorted, Len(before) + 1, Len(sorted))
  IN FoldLeft(Into, <<>>, seq)

\* Nearest their middle first. Distances are squared, and so many times what they are
\* as there are spots.
BestFirst(spots) ==
  LET n == Len(spots)
      Sum(axis) == FoldLeft(LAMBDA sum, spot : sum + spot[axis], 0, spots)
      x == Sum(1)
      y == Sum(2)
      Distance(spot) == (n * spot[1] - x) * (n * spot[1] - x) + (n * spot[2] - y) * (n * spot[2] - y)
  IN SortedBy(Distance, spots)

InParts(spots) == [i \in DOMAIN spots |-> <<Parts * spots[i][1], Parts * spots[i][2]>>]

\* An area's spots on the grid, or the middle of the box if it has none; a line's points
\* on the map.
labelSpots(rings, areal) ==
  LET box == OnMapBox(rings)
      onTheMap == SelectSeq(FlattenSeq(rings), LAMBDA p : p[1] \in 0 .. Width /\ p[2] \in 0 .. Height)
      grid == GridSpots(rings)
  IN IF ~areal THEN BestFirst(InParts(onTheMap))
     ELSE IF grid # <<>> THEN BestFirst(InParts(grid))
     ELSE <<<<(Parts * (box.left + box.right)) \div 2, (Parts * (box.top + box.bottom)) \div 2>>>>

\* Where lines cross the middle, top to bottom.
verticalCrossings(lines) ==
  LET middle == (Parts * Width) \div 2
      Crossing(a, b) == Parts * a[2] + ((middle - Parts * a[1]) * (b[2] - a[2])) \div (b[1] - a[1])
      Crosses(a, b) == (Parts * a[1] <= middle) # (Parts * b[1] <= middle)
      Of(line) == [i \in 1 .. Len(line) - 1 |->
                     IF ~Crosses(line[i], line[i + 1]) THEN <<>>
                     ELSE IF line[i][1] < line[i + 1][1] THEN <<Crossing(line[i], line[i + 1])>>
                     ELSE <<Crossing(line[i + 1], line[i])>>]
      crossings == FlattenSeq(FlattenSeq([k \in DOMAIN lines |-> Of(lines[k])]))
      Itself(n) == n
  IN SortedBy(Itself, crossings)

labelBox(text, spot) ==
  LET width == LabelWidth[text] \div 2
      height == LabelHeight \div 2
  IN [text |-> text, left |-> spot[1] - width, right |-> spot[1] + width,
      top |-> spot[2] - height, bottom |-> spot[2] + height]

overlaps(a, b) == a.left < b.right /\ b.left < a.right /\ a.top < b.bottom /\ b.top < a.bottom

onMap(box) ==
  /\ box.left >= Parts * LabelEdge /\ box.right <= Parts * (Width - LabelEdge)
  /\ box.top >= Parts * LabelEdge /\ box.bottom <= Parts * (Height - LabelEdge)

\* A label at the first spot where it fits on the map and beside those before it.
place(placed, text, spots) ==
  LET Fits(i) == LET box == labelBox(text, spots[i])
                 IN onMap(box) /\ \A k \in DOMAIN placed : ~overlaps(box, placed[k])
      fitting == {i \in DOMAIN spots : Fits(i)}
  IN IF fitting = {} THEN placed ELSE Append(placed, labelBox(text, spots[Least(fitting)]))

\* A buffer's, above the site or else below it.
BufferLabels ==
  FoldLeft(LAMBDA placed, buffer :
             LET crossings == verticalCrossings(buffer.lines)
                 middle == (Parts * Width) \div 2
             IN IF crossings = <<>> THEN placed
                ELSE place(placed, buffer.text, <<<<middle, Head(crossings)>>, <<middle, Last(crossings)>>>>),
           <<>>, Buffers)

\* An area's name with its spots. The path's area is the map's last.
OtherCandidates ==
  [i \in DOMAIN OtherAreas |-> [text |-> OtherAreas[i].text, spots |-> labelSpots(OtherAreas[i].rings, TRUE)]]
candidates(path) == Append(OtherCandidates, [text |-> Name, spots |-> labelSpots(<<path>>, filled)])

\* Mutant: in the order of the map's features.
FewestSpotsFirstMutant(path) == SelectSeq(candidates(path), LAMBDA c : c.spots # <<>>)

FewestSpotsFirst(path) ==
  LET Spots(c) == Len(c.spots)
  IN SortedBy(Spots, SelectSeq(candidates(path), LAMBDA c : c.spots # <<>>))

\* Each name once, where it can go.
renderLabels(path) ==
  FoldLeft(LAMBDA placed, c :
             IF \E k \in DOMAIN placed : k > Len(BufferLabels) /\ placed[k].text = c.text THEN placed
             ELSE place(placed, c.text, c.spots),
           BufferLabels, FewestSpotsFirst(path))

------------------------------------------------------------------------------
(* Property *)

\* An area with a part of it on the grid, or a line, is labelled as if its path were
\* whole, and so are those beside it.
LabelledAsWhole ==
  visiblePathPoints # drawn /\ (filled => GridSpots(<<drawn>>) # <<>>) =>
    renderLabels(visiblePathPoints) = renderLabels(drawn)

\* "A small parish isn't crowded out by the county around it": where an area's name is
\* not on the map, each spot it could have is taken by a buffer's label or by that of an
\* area with no more spots.
NotCrowdedOut ==
  LET placed == renderLabels(visiblePathPoints)
      areas == candidates(visiblePathPoints)
      Small(k, c) == k <= Len(BufferLabels)
                     \/ \E d \in ToSet(areas) : d.text = placed[k].text /\ Len(d.spots) <= Len(c.spots)
  IN \A c \in ToSet(areas) :
       (\A k \in DOMAIN placed : placed[k].text # c.text) =>
         \A i \in DOMAIN c.spots :
           LET box == labelBox(c.text, c.spots[i])
           IN onMap(box) => \E k \in DOMAIN placed : overlaps(box, placed[k]) /\ Small(k, c)

\* The picture is what it would be with every point: its lines and areas, and the labels.
SeenAsWhole == SeenUnchanged /\ (Len(drawn) >= 2 => LabelledAsWhole /\ NotCrowdedOut)
=============================================================================

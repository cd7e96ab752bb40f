------------------------ MODULE MCClusteringManager ------------------------
(* Instances of ClusteringManager for TLC.                                 *)
EXTENDS ClusteringManager

Pixel(x, y) == [d \in {"x", "y"} |-> IF d = "x" THEN x ELSE y]

Separations(xy, t, m) == [xy_sep |-> xy, t_sep |-> t, max_t_separation |-> m]

\* One pixel: clusters differ in their times only.
MCOne == {Pixel(0, 0)}

\* A pixel with three neighbours that are none of each other.
MCCross == {Pixel(1, 1), Pixel(0, 0), Pixel(2, 0), Pixel(0, 2)}

MCNarrow == Separations(1, 1, 1)
MCWide == Separations(0, 2, 0)
MCTwoSettings == {MCNarrow, MCWide}
MCOneSetting == {MCNarrow}
=============================================================================

--------------------------- MODULE MCLoopBound ---------------------------
(* Small loops in a small machine integer.                                 *)
EXTENDS LoopBound

SmallBounds == -9 .. 24

(* Loops as `range(lo, hi)' makes them, hi below lo included.              *)
NaturalBounds == 0 .. 24

(* Up to two dependencies in a vector loop of up to four blocks.           *)
Dependencies == {d \in [src : 1 .. 4, dst : 1 .. 4, cap : 1 .. 3] : d.src < d.dst}
SmallChains == {{d, e} : d, e \in Dependencies} \cup {{}}

=============================================================================

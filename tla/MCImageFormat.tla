--------------------------- MODULE MCImageFormat ---------------------------
(***************************************************************************)
(* Manifests for TLC: every number of entries, a module that the provider  *)
(* has no number for (3), two orders, two files under one set of numbers,  *)
(* a repeated number, a line that does not parse, none, and too many.      *)
(***************************************************************************)
EXTENDS ImageFormat

Line(i, f) == [id |-> i, file |-> f]

MCManifests ==
    { << >>, <<Line(1, "a")>>, <<Line(1, "a"), Line(2, "b")>>,
      <<Line(2, "b"), Line(1, "a")>>, <<Line(2, "a"), Line(1, "b")>>,
      <<Line(3, "a"), Line(1, "b")>>, <<Line(1, "a"), Line(1, "b")>>,
      <<Line(0, "a"), Line(1, "b")>>,
      <<Line(1, "a"), Line(2, "b"), Line(3, "a")>> }
=============================================================================

------------------------------- MODULE MCPages -------------------------------
EXTENDS PageReading, TLC

CONSTANTS c1, c2

(* Words, lines and paragraphs; separators next to one another, at both    *)
(* ends and in the way of a cut; nothing at all.                           *)
x == "letter"
s == "space"
n == "line"

Shapes ==
  {<<x, x, x, x, x, x, x, x>>, <<x, s, x, x, n, n, x, x, x>>,
   <<x, x, x, n, x, s, x, x, x>>, <<x, s, s, s, s, n, n, s, x>>, <<s, x, x, x, s, s, x, s, x, n>>}
Shells   == {<<>>, <<n, x, s>>, <<x, x, s, x>>}
Rendered == {<<x, s, x, x, n, n, x, x, x>>, <<x, x, x, x, x, x, x, x>>}

SomePages ==
  [http : Shapes, rendered : {<<x, s, x, x>>}]
    \cup [http : Shells, rendered : Rendered]

AllModes == {"off", "fallback", "always"}
=============================================================================

--------------------------- MODULE MCHttpResponse ---------------------------
(* Responses of up to nine units to a buffer of five that may grow to eight;*)
(* of lengths from none to what the width does not hold.                     *)
EXTENDS HttpResponse

Sizes(te, cl, last, bad) ==
  [head : 1..2, ok : {TRUE}, cl : cl, te : {te}, last : last, bad : bad,
   sent : 0..6, closes : BOOLEAN]

(* Every answer that does not have two framings.                            *)
SingleFraming ==
  Sizes("none", {0, 1, 3}, {0}, {0})
    \cup Sizes("chunked", {0}, {0, 1, 3}, {0})
    \cup Sizes("chunked", {0}, {0}, {2})
    \cup [head : {1}, ok : BOOLEAN, cl : {0, 2, 7, 8, 9, 30}, te : {"none", "unsupported"},
          last : {0}, bad : {0}, sent : {0, 1, 3, 7, 8, 9}, closes : BOOLEAN]
    \cup [head : {1}, ok : {TRUE}, cl : {Width, Width + 2, Width + 9}, te : {"none"},
          last : {0}, bad : {0}, sent : {2, 3, 4, Width + 3}, closes : BOOLEAN]
=============================================================================

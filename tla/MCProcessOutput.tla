--------------------------- MODULE MCProcessOutput ---------------------------
(* Two children and pipes of one unit. Of the children that write, the      *)
(* second is on a full pipe while the first is read.                        *)
EXTENDS ProcessOutput

AnyScript ==
  [writes : {0, 2}, closes : BOOLEAN, orphan : {FALSE}, deaf : BOOLEAN,
   end : {"exit", "hang"}]
    \cup [writes : {2}, closes : {FALSE}, orphan : {TRUE}, deaf : {FALSE},
          end : {"exit", "hang"}]
    \cup [writes : {1}, closes : {FALSE}, orphan : {FALSE}, deaf : {FALSE},
          end : {"exit127", "crash"}]

(* Children that do end when they are asked to.                             *)
PoliteScript == {s \in AnyScript : ~s.deaf /\ ~s.orphan}
=============================================================================

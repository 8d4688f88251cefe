----------------------------- MODULE MCSampling -----------------------------
(* Three interfaces, processes or cores, and up to two modules of one type.  *)
EXTENDS Sampling

CONSTANTS a, b, c

ThreeNames == <<a, b, c>>

Lists(options) == UNION {[1..k -> options] : k \in 1..2}

Opts(what, wait) ==
  [what : what, once : BOOLEAN, gated : BOOLEAN, wait : wait]

(* Modules for the same interfaces, and `top` modules for any showTypes.    *)
AlikePrograms ==
  [kind : {"netio"}, modules : Lists(Opts({{a, b, c}}, {1, 2}))]
    \cup [kind : {"top"}, modules : Lists(Opts({{"cpu"}, {"cpu", "disk"}}, {2}))]
    \cup [kind : {"cpuusage"}, modules : Lists({o \in Opts({{"cpu"}}, {1, 2}) : ~o.once})]
=============================================================================

--------------------------- MODULE MCResultCache ----------------------------
(* Four entries: terminal asks for shell (terminalshell_linux.c:499), gtk3  *)
(* asks for the settings query that the GTK versions share (gtk.c:214), and *)
(* the settings ask back, which makes the re-entrant call of FFcache.h.     *)
EXTENDS ResultCache

CONSTANTS terminal, shell, gtk3, settings

MCDeps == [e \in Entries |->
             CASE e = terminal -> {shell}
               [] e = gtk3     -> {settings}
               [] e = settings -> {gtk3, shell}
               [] OTHER        -> {}]
=============================================================================

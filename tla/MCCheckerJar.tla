------------------------------ MODULE MCCheckerJar ------------------------------
(* An instance of CheckerJar: a jar with a shifted and a high byte; a file *)
(* that is short, as long but wrong, longer, or the jar.                   *)
EXTENDS CheckerJar

MCJar == <<10, 200>>
MCBefore == {<<>>, <<10>>, <<10, 201>>, <<10, 200, 0>>, MCJar}
=============================================================================

-------------------------- MODULE MCBackgroundTasks --------------------------
(* Two slots and one latent node.                                          *)
EXTENDS BackgroundTasks

CONSTANTS s1, s2, n1
=============================================================================

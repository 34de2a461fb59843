----------------------------- MODULE MCCacheFill -----------------------------
(* Values of the constants of CacheFill for TLC: a row with an id and a slug. *)
EXTENDS CacheFill, TLC

CONSTANTS c1, c2, r1, id, slug

OneRow == (id :> r1) @@ (slug :> r1)
=============================================================================

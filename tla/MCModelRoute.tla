----------------------------- MODULE MCModelRoute -----------------------------
(* The routes on which ModelRoute is model-checked. *)
EXTENDS ModelRoute

CONSTANTS c1, c2, c3, primary, fallback

PrimaryFirst == {<<primary, fallback>>, <<primary>>}
=============================================================================

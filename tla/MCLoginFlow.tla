----------------------------- MODULE MCLoginFlow -----------------------------
(* A small instance of LoginFlow: one username text carries a blank. *)
EXTENDS LoginFlow

MCTrim(t) == IF t = "ann " THEN "ann" ELSE t
=============================================================================

---------------------------- MODULE MCWhixBackend ----------------------------
(***************************************************************************)
(* Small instances of WhixBackend: who is registered at the start, and how *)
(* trim acts on the texts of the instance.                                 *)
(***************************************************************************)
EXTENDS WhixBackend

\* One text carries a blank, as a client may send it.
MCTrim(t) == IF t = "ann " THEN "ann" ELSE t

AnnAndBob == {[id |-> 1, email |-> "a@x", username |-> "ann"],
              [id |-> 2, email |-> "b@x", username |-> "bob"]}

OnePost == {1}
=============================================================================

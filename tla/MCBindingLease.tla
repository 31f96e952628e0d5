--------------------------- MODULE MCBindingLease ---------------------------
(* The code's constants in proportion, such that every inequality between     *)
(* them that matters holds with nothing to spare, as it does in the code.      *)
(* The Server's absolute limit ends the first lease early, a later one, or      *)
(* none.                                                                     *)
EXTENDS BindingLease
=============================================================================

---------------------------- MODULE MCSupplierDesk ----------------------------
(***************************************************************************)
(* An instance of SupplierDesk for TLC: a single selection and a multiple  *)
(* one that its answer shows, of which the first was answered before.      *)
(***************************************************************************)
EXTENDS SupplierDesk

CONSTANTS controller, dependent

TheQuestions == {controller, dependent}
TheGate == [q \in TheQuestions |-> IF q = dependent THEN controller ELSE Always]
TheEarlierRows ==
    {[q \in TheQuestions |-> IF q = controller THEN "no" ELSE "absent"]}
=============================================================================

---------------------------- MODULE MCEdgeFunctions ----------------------------
(***************************************************************************)
(* EdgeFunctions for TLC: a buyer, a supplier, and requests that fail no   *)
(* check, one of the pipeline, one of every kind of field, two at once, or *)
(* a rule of the database.                                                 *)
(***************************************************************************)
EXTENDS EdgeFunctions

CONSTANTS buyer, supplier

SomeFlaws ==
    {{}, {"rule"}, {"method", "user"}, {"media_type"}, {"size", "json"}, {"json", "assessment_id"},
     {"selection", "bearer"}, {"user"}, {"token_format"}, {"filename", "extension"}}
===============================================================================

------------------------------ MODULE MCRawJson ------------------------------
(* RawJson over every record of three fields of these kinds and sizes.        *)
EXTENDS RawJson

Field == [kind: {"body", "text", "other"}, size: {1, 2, 3, 5, 9, 12}]
AllInputs == [1..3 -> Field]
=============================================================================

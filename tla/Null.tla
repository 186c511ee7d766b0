---------------------------------- MODULE Null ----------------------------------
(* What a column, a field or a variable holds that has no value: NULL, null *)
(* or undefined.                                                           *)
CONSTANT None
=================================================================================

----------------------------- MODULE PythonNone -----------------------------
(* Python's None, in every place the code stores it. *)
CONSTANT None
=============================================================================

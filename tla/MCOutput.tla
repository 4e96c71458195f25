------------------------------- MODULE MCOutput -------------------------------
(***************************************************************************)
(* Output with outputs of one column of one name or another, and of two    *)
(* columns with the same name: their cells share a key.                    *)
(***************************************************************************)
EXTENDS Output

CONSTANTS a, b

Headers == {<<a>>, <<a, a>>, <<b>>}
=============================================================================

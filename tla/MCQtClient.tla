------------------------------ MODULE MCQtClient ------------------------------
(* The plugin registers for one of its five types.                         *)
EXTENDS QtClient, TLC

OneType == <<"display">>
===============================================================================

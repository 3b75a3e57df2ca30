------------------------------- MODULE MCSession -------------------------------
(* Cells in a row, each covered together with its neighbours. *)
EXTENDS Session, TLC

Cells3 == 1 .. 3
Row3 == [id \in Cells3 |-> <<<<1, 2>>, <<1, 2, 3>>, <<2, 3>>>>[id]]

Cells2 == 1 .. 2
Row2 == [id \in Cells2 |-> <<1, 2>>]

Symmetry == Permutations(Conn)
================================================================================

------------------------------ MODULE MCHistory ------------------------------
(* Rows of two positions and their fragments, near each other and apart.     *)
EXTENDS History

Row(leverage, opened, closed, price, qty) ==
  [leverage |-> leverage, entry |-> 10, opened |-> opened, closed |-> closed,
   price |-> price, qty |-> qty]

MCRows ==
  {Row(1, 0, 4, 12, 1), Row(1, 1, 6, 12, 2), Row(1, 2, 8, 13, 1), Row(1, 2, 4, 14, 1),
   Row(1, 3, 6, 13, 1), Row(1, 9, 12, 12, 1), Row(1, 12, 15, 12, 2),
   Row(1, 9, 13, 19, 1), Row(2, 16, 17, 12, 1)}
===============================================================================

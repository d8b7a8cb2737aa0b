---------------------------- MODULE MagicSquare ----------------------------
(***************************************************************************)
(* solve and check of TME2's decoder: the square 4 x 8 / b c d / 2 e 6 is  *)
(* completed from x with the sums of its lines and columns, then its eight *)
(* sums are compared.                                                      *)
(***************************************************************************)
EXTENDS Integers

(* The sums in the order of the array sums: the lines, the columns, the    *)
(* diagonals.                                                              *)
sums(m) == [i \in 0 .. 7 |->
  CASE i \in 0 .. 2 -> m[<<i, 0>>] + m[<<i, 1>>] + m[<<i, 2>>]
    [] i \in 3 .. 5 -> m[<<0, i - 3>>] + m[<<1, i - 3>>] + m[<<2, i - 3>>]
    [] i = 6 -> m[<<0, 0>>] + m[<<1, 1>>] + m[<<2, 2>>]
    [] i = 7 -> m[<<0, 2>>] + m[<<1, 1>>] + m[<<2, 0>>]]

(* Mistake: the diagonals are not compared.                                *)
checkLines(m) == \A i \in 1 .. 5 : sums(m)[i] = sums(m)[0]

check(m) == \A i \in 1 .. 7 : sums(m)[i] = sums(m)[0]

Square(x, b, c, d, e) ==
  [k \in (0 .. 2) \X (0 .. 2) |->
     <<<<4, x, 8>>, <<b, c, d>>, <<2, e, 6>>>>[k[1] + 1][k[2] + 1]]

(* The code that solve returns to main.                                    *)
solve(x) ==
  LET sum == 4 + x + 8
      b == sum - (4 + 2)
      e == sum - (2 + 6)
      d == sum - (8 + 6)
      c == sum - (b + d)
  IN IF check(Square(x, b, c, d, e)) THEN 1 ELSE 0

(* Reference definition: the candidates x that can be completed with       *)
(* digits to a square whose lines, columns and diagonals have one sum.     *)
Solutions ==
  {x \in 0 .. 8 : \E b, c, d, e \in 0 .. 9 :
     LET m == Square(x, b, c, d, e) IN \A i, j \in 0 .. 7 : sums(m)[i] = sums(m)[j]}
=============================================================================

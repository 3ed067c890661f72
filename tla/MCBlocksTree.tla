--------------------------- MODULE MCBlocksTree ---------------------------
(* Model-checking instances of BlocksTree: the contents of the headers.     *)
EXTENDS BlocksTree, TLC

BlockSymmetry == Permutations(Blocks)

(* Primary and secondary slot claims, on which the choice of the best block *)
(* depends; changes of the GrandPa authorities that take effect at once or  *)
(* one block later; blocks that announce no epoch.                          *)
SomeDigests ==
    [primary : BOOLEAN, change : {NoChange}, epoch : {TRUE}]
    \cup [primary : {TRUE}, change : {0, 1}, epoch : {TRUE}]
    \cup [primary : {TRUE}, change : {NoChange, 0}, epoch : {FALSE}]

(* The same, without the claims: changes that take effect one block later.  *)
ChangeDigests == [primary : {TRUE}, change : {NoChange, 0, 1}, epoch : {TRUE}]
=============================================================================

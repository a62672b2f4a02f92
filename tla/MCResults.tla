------------------------------ MODULE MCResults ------------------------------
(* Three packages of the AUR and two of libalpm, ints from -8 to 7. *)
EXTENDS Results

Aur(n, v, p) == [name |-> n, type |-> "R_AUR_PKG", votes |-> v, popularity |-> p, isize |-> 0]
Alpm(n, s)   == [name |-> n, type |-> "R_ALPM_PKG", votes |-> 0, popularity |-> 0, isize |-> s]

\* the most votes that a comparison takes beside those of libalpm
MCPackages == {Aur(1, 0, 2), Aur(2, 6, 0), Aur(3, 3, 1), Alpm(2, 1), Alpm(4, 0)}
MCWords == {"v", "w"}
MCDistance == [v |-> [n \in Names |-> 5 - n], w |-> [n \in Names |-> IF n = 3 THEN 9 ELSE n]]
MCLocalDate == [n \in Names |-> IF n = 2 THEN 3 ELSE 0]
=============================================================================

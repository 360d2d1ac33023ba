-------------------------------- MODULE KList --------------------------------
(***************************************************************************)
(* The doubly linked lists of include/linux/list.h as sequences: the entry *)
(* next to the head first.  list_add_tail is Append.                       *)
(***************************************************************************)
EXTENDS Integers, Sequences

(* Unlink the entry x, which is on the list s.                             *)
list_del(s, x) == LET i == CHOOSE i \in 1..Len(s) : s[i] = x
                  IN  [j \in 1..(Len(s) - 1) |-> IF j < i THEN s[j] ELSE s[j + 1]]

(* x is on the list.                                                       *)
OnList(s, x) == \E i \in 1..Len(s) : s[i] = x

(* No entry is linked twice.                                               *)
Distinct(s) == \A i, j \in 1..Len(s) : s[i] = s[j] => i = j

=============================================================================

------------------------------ MODULE ListData -------------------------------
(***************************************************************************)
(* The growing list of src/rtl433/src/list.c: an array that ends with a    *)
(* NULL, by which its readers know the end. A slot that realloc() added    *)
(* holds Junk until it is written.                                         *)
(***************************************************************************)
EXTENDS Integers

CONSTANTS FirstSize,   \* slots of the first allocation: 8
          NULL, Junk

ASSUME ListAssumption ==
    /\ FirstSize \in Nat /\ FirstSize >= 2
    /\ NULL # Junk

\* elems has the slots 0..size - 1.
EmptyList == [elems |-> [i \in {} |-> NULL], len |-> 0, size |-> 0]

\* list_ensure_size()
EnsureSize(l, n) ==
    IF l.size >= n THEN l
    ELSE [l EXCEPT
            !.elems = [i \in 0..n - 1 |->
                        IF i = l.len THEN NULL
                        ELSE IF i < l.size THEN l.elems[i] ELSE Junk],
            !.size = n]

RoomLate(l) ==  \* mutant
    IF l.len >= l.size
    THEN EnsureSize(l, IF l.size < FirstSize THEN FirstSize
                       ELSE l.size + l.size \div 2)
    ELSE l
\* "account for terminating NULL"
Room(l) ==
    IF l.len + 1 >= l.size
    THEN EnsureSize(l, IF l.size < FirstSize THEN FirstSize
                       ELSE l.size + l.size \div 2)
    ELSE l

\* list_push()
Push(l, x) ==
    LET r == Room(l)
    IN  [r EXCEPT !.elems = [@ EXCEPT ![r.len] = x, ![r.len + 1] = NULL],
                  !.len = r.len + 1]

\* list_remove(): the elements behind, and the NULL, move down.
Remove(l, k) ==
    IF k >= l.len THEN l
    ELSE [l EXCEPT
            !.elems = [i \in DOMAIN l.elems |->
                        IF i >= k /\ i < l.len THEN l.elems[i + 1]
                        ELSE l.elems[i]],
            !.len = @ - 1]

\* The list ends inside its array, and its readers see its elements and stop:
\* none of them is NULL or junk (list_push(), list_remove()).
ListOk(l) ==
    /\ l.size > 0 => l.len < l.size
    /\ l.size > 0 => l.elems[l.len] = NULL
    /\ \A i \in 0..l.len - 1 : l.elems[i] \notin {NULL, Junk}

=============================================================================

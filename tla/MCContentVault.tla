--------------------------- MODULE MCContentVault ---------------------------
(***************************************************************************)
(* A directory d with the files y and z, and beside it one with a file x.  *)
(* x is written and written back, y becomes a program, z appears and is    *)
(* later replaced by a symbolic link.                                      *)
(***************************************************************************)
EXTENDS ContentVault

CONSTANTS root, d, e, x, y, z, capturer, m1, m2

MCPath == {root, d, e, x, y, z}
MCAbove == root :> {root} @@ d :> {root, d} @@ y :> {root, d, y} @@ z :> {root, d, z}
           @@ e :> {root, e} @@ x :> {root, e, x}
MCOrder == <<root, d, y, z, e, x>>
MCLife == root :> <<Dir>> @@ d :> <<Dir>> @@ e :> <<Dir>>
          @@ x :> <<File(1, FALSE), File(2, FALSE), File(1, FALSE)>>
          @@ y :> <<File(1, FALSE), File(1, TRUE)>>
          @@ z :> <<Absent, File(2, FALSE), Link>>
MCRequest == {[roots |-> <<root>>, excluded |-> {}], [roots |-> <<root>>, excluded |-> {e}],
              [roots |-> <<d>>, excluded |-> {}]}

\* Of the receipts, some are materialized: of d with a program, and of the
\* whole tree with e, which has two files, or without it.  A removal that
\* fails beside a rival is not followed further: a process that dies there
\* leaves the same.
Telling ==
    \/ Quiet
    \/ /\ \/ receipt.goal.request.roots = <<d>> /\ age[x] = 1 /\ age[y] = 2 /\ age[z] = 1
          \/ receipt.goal.request.roots = <<root>> /\ age[x] = 1 /\ age[y] = 1 /\ age[z] = 1
       /\ abandoned => ~Excused

MCConsumer == {m1, m2}
Symmetry == Permutations(MCConsumer)
=============================================================================

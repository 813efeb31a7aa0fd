------------------------------ MODULE RowLoop ------------------------------
(***************************************************************************)
(* A trigger fired FOR EACH ROW (external: SQLite runs the loop).          *)
(***************************************************************************)
EXTENDS Naturals

CONSTANT Fire(_, _, _)   \* what the trigger does for a row: context, run so far, row

\* Fires for the rows of a set among 1..n, in order, until one aborts.
ForEachRow(ctx, S, n, start) ==
    LET run[k \in 0..n] ==
            IF k = 0 THEN start
            ELSE IF k \in S /\ run[k - 1].ok THEN Fire(ctx, run[k - 1], k)
            ELSE run[k - 1]
    IN  run[n]
=============================================================================

------------------------------- MODULE Loops --------------------------------
(***************************************************************************)
(* A loop over a list that threads one value through its iterations, as    *)
(* the code's `for x in list` loops over blocks, transactions and results  *)
(* do.  Step is the body of the loop; env is what the body only reads.     *)
(***************************************************************************)
EXTENDS Integers, Sequences

CONSTANT Step(_, _, _)      \* (env, acc, x): one iteration

Run(env, start, q) ==
    LET acc[i \in 0..Len(q)] == IF i = 0 THEN start ELSE Step(env, acc[i - 1], q[i])
    IN  acc[Len(q)]
=============================================================================

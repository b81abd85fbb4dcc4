------------------------------- MODULE MCChain -------------------------------
(***************************************************************************)
(* Chain over a small universe of blocks: a main branch a1-...-a5, a fork  *)
(* b1-...-b4 from genesis, a fork c2-c3-c4 from a1, and one block for      *)
(* each way a block can be wrong.  a2 comes twice, with the same header    *)
(* but other signatures, which the header does not bind.  The store after  *)
(* a block is the sequence of blocks it was computed from, so that no two  *)
(* histories share one.                                                    *)
(***************************************************************************)
EXTENDS Chain, Sequences

Row(hash, parent, height, timestamp, root, structure, results) ==
    [hash |-> hash, parent |-> parent, height |-> height, timestamp |-> timestamp,
     stateRoot |-> root, structure |-> structure, results |-> results]

Good(hash, parent, height, path) == Row(hash, parent, height, height, path, TRUE, "ok")

MCGenesisStore == << >>
MCGenesis == Row("g", "zero", 0, 0, <<"zero">>, FALSE, "ok")

ValidBlocks ==
    { Good("a1", "g", 1, <<"a1">>),
      Good("a2", "a1", 2, <<"a1", "a2">>),
      Row("a2", "a1", 2, 2, <<"a1", "a2">>, TRUE, "resigned"),
      Good("a3", "a2", 3, <<"a1", "a2", "a3">>),
      Good("a4", "a3", 4, <<"a1", "a2", "a3", "a4">>),
      Good("a5", "a4", 5, <<"a1", "a2", "a3", "a4", "a5">>),
      Good("b1", "g", 1, <<"b1">>),
      Good("b2", "b1", 2, <<"b1", "b2">>),
      Good("b3", "b2", 3, <<"b1", "b2", "b3">>),
      Good("b4", "b3", 4, <<"b1", "b2", "b3", "b4">>),
      Good("c2", "a1", 2, <<"a1", "c2">>),
      Good("c3", "c2", 3, <<"a1", "c2", "c3">>),
      Good("c4", "c3", 4, <<"a1", "c2", "c3", "c4">>) }

\* a2 with other results under the same header; a wrong height; a timestamp
\* that does not advance; a timestamp beyond the drift at first; a malformed
\* block; a wrong state root.
InvalidBlocks ==
    { Row("a2", "a1", 2, 2, <<"a1", "a2">>, TRUE, "bad"),
      Row("x3", "a1", 3, 3, <<"a1", "x3">>, TRUE, "ok"),
      Row("y2", "b1", 2, 1, <<"b1", "y2">>, TRUE, "ok"),
      Row("z2", "b1", 2, 4, <<"b1", "z2">>, TRUE, "ok"),
      Row("w1", "g", 1, 1, <<"w1">>, FALSE, "ok"),
      Row("v1", "g", 1, 1, <<"a1">>, TRUE, "ok") }

MCBlock == ValidBlocks \cup InvalidBlocks \cup {MCGenesis}
MCDigest == {b.hash : b \in MCBlock}
MCStore == {<<>>} \cup {b.stateRoot : b \in MCBlock \ {MCGenesis}} \cup {<<"v1">>}

Drift == 3
MCValidStructure(b, t) == b.structure /\ b.timestamp <= t + Drift
MCReplayOk(b, s) == b.results # "bad" /\ Append(s, b.hash) \in MCStore
MCReplayStore(b, s) == Append(s, b.hash)
MCStateRoot(s) == s
=============================================================================

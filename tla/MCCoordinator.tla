--------------------------- MODULE MCCoordinator ---------------------------
(* Coordinator on small instances. *)
EXTENDS Coordinator, TLC

\* Outpoints are told apart by how their owners blind only; requests not at all.
Symmetric ==
    Permutations(Blinding) \cup Permutations(Utxos \ Blinding)
        \cup Permutations(Handlers)

=============================================================================

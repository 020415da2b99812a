------------------------------- MODULE MCFees -------------------------------
(* Fees with five people, and coins on both sides of every threshold. *)
EXTENDS Fees, TLC

\* No definition of Fees tells one participant from another.
PeopleSymmetry == Permutations(People)

\* The value at which registration accepts a coin, where every allowed input
\* weighs 91 vbytes, two people are a quorum and the rate is 2: 100000 + 316.
Least == 100316

\* One below the gate, at it, where change becomes an output, and where change
\* is itself a denomination.
MCValues == {Least - 1, Least, Least + 293, Least + 294, 2 * Least}

=============================================================================

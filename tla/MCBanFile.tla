----------------------------- MODULE MCBanFile -----------------------------
(* BanFile with two coins. *)
EXTENDS BanFile, TLC

\* No definition of BanFile tells one coin from another.
CoinSymmetry == Permutations(Coins)

=============================================================================

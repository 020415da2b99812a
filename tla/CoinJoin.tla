------------------------------ MODULE CoinJoin ------------------------------
(***************************************************************************)
(* What the system promises the owners of coins, with no server in sight.   *)
(* Coins join a round; the round is sealed; every member consents; the      *)
(* transaction of the round may then settle, and it spends all the members' *)
(* coins at once or none.  A round may be abandoned at any time, but one    *)
(* that was handed over may settle even after that.                         *)
(***************************************************************************)
EXTENDS Naturals, FiniteSets

CONSTANTS Coins, Quorum

VARIABLES
    stage,      \* "open", "sealed" or "handed" over to the network
    members,    \* coins of the current round
    consents,   \* members that have signed
    pending,    \* sets of coins whose transaction may still settle
    ledger      \* coin -> "nobody", "owner" or "coinjoin" has spent it

cjVars == <<stage, members, consents, pending, ledger>>

CJInit ==
    /\ stage = "open"
    /\ members = {}
    /\ consents = {}
    /\ pending = {}
    /\ ledger = [c \in Coins |-> "nobody"]

Join(c) ==
    /\ stage = "open"
    /\ c \in Coins \ members
    /\ members' = members \cup {c}
    /\ UNCHANGED <<stage, consents, pending, ledger>>

Seal ==
    /\ stage = "open"
    /\ Cardinality(members) >= Quorum
    /\ stage' = "sealed"
    /\ UNCHANGED <<members, consents, pending, ledger>>

Consent(c) ==
    /\ stage = "sealed"
    /\ c \in members \ consents
    /\ consents' = consents \cup {c}
    /\ UNCHANGED <<members, ledger>>
    /\ \/ UNCHANGED <<stage, pending>>
       \/ /\ consents' = members
          /\ stage' = "handed"
          /\ pending' = pending \cup {members}

\* The round ends; what was handed over may be forgotten, or not.
Abandon ==
    /\ stage' = "open"
    /\ members' = {}
    /\ consents' = {}
    /\ pending' \subseteq pending
    /\ UNCHANGED ledger

Forget ==
    /\ pending' \subseteq pending
    /\ UNCHANGED <<stage, members, consents, ledger>>

\* All or nothing.
Settle(coins) ==
    /\ coins \in pending
    /\ \A c \in coins : ledger[c] = "nobody"
    /\ ledger' = [c \in Coins |-> IF c \in coins THEN "coinjoin" ELSE ledger[c]]
    /\ pending' \subseteq pending
    /\ UNCHANGED <<stage, members, consents>>

SpendElsewhere(c) ==
    /\ ledger[c] = "nobody"
    /\ ledger' = [ledger EXCEPT ![c] = "owner"]
    /\ UNCHANGED <<stage, members, consents, pending>>

CJNext ==
    \/ \E c \in Coins : Join(c) \/ Consent(c) \/ SpendElsewhere(c)
    \/ Seal
    \/ Abandon
    \/ Forget
    \/ \E coins \in pending : Settle(coins)

CJSpec == CJInit /\ [][CJNext]_cjVars

=============================================================================

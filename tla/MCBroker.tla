------------------------------ MODULE MCBroker ------------------------------
(* Broker with small sets of sockets and threads for TLC. *)
EXTENDS Broker, TLC

CONSTANTS a, b, t1, t2

MCSockets == {a, b}
MCThreads == {t1, t2}
Symmetry  == Permutations(MCSockets) \union Permutations(MCThreads)

Superseding == {"supersede"}
Leaving     == {"early_close"}
AllFreedoms == {"early_close", "supersede", "plain_error", "timeout"}
============================================================================

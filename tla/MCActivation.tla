---------------------------- MODULE MCActivation ----------------------------
EXTENDS ActivationCodes, TLC

CONSTANTS u1, u2, c1, c2, c3, b1, b2, r1, r2, a1

AllOps  == {"generate", "delete_code", "chat_delete", "set_state", "delete_user", "restart"}
ChatOps == {"chat_delete"}

FirstDay == [b \in Bills |-> 0]

Symmetry == Permutations(Users) \cup Permutations(Codes) \cup Permutations(Bills)
              \cup Permutations(Requests)
=============================================================================

-------------------------- MODULE MCSessionRegistry --------------------------
(* Instances of SessionRegistry.  Sessions and operators are interchangeable *)
(* where no temporal property is checked.                                    *)
EXTENDS SessionRegistry, TLC

Symmetry == Permutations(Session) \cup Permutations(Admin) \cup Permutations(Login)
=============================================================================

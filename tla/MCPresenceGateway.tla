-------------------------- MODULE MCPresenceGateway --------------------------
(* Small instances of PresenceGateway for TLC.                              *)
EXTENDS PresenceGateway, TLC

GatewaySymmetry == Permutations(User) \cup Permutations(Session)
                     \cup Permutations(Worker) \cup Permutations(Socket)
=============================================================================

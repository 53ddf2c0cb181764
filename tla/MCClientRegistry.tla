--------------------------- MODULE MCClientRegistry ---------------------------
(* Instances of ClientRegistry for TLC.                                     *)
EXTENDS ClientRegistryProperties, TLC

ConnectionSymmetry == Permutations(Clients) \cup Permutations(Users)
===============================================================================

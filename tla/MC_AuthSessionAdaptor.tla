----------------------- MODULE MC_AuthSessionAdaptor -----------------------
(* Two peers, the owner and another; two stored identities that allow   *)
(* different mechanisms, both usable by the owner.                      *)
EXTENDS AuthSessionAdaptor

CONSTANTS owner, other, id1, id2, newId, m1, m2

MCPeers  == {owner, other}
MCIds    == {id1, id2}
MCMechs  == {m1, m2}
MCAcl    == [i \in MCIds |-> IF i = id1 THEN {m1} ELSE {m2}]
MCMayUse == [p \in MCPeers |-> IF p = owner THEN MCIds ELSE {id1}]
=============================================================================

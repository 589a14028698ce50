---------------------------- MODULE MCMeshIdentity ----------------------------
(* A small instance of MeshIdentity: two groups, as many as the list holds, and two networks. *)
EXTENDS MeshIdentity, TLC

CONSTANTS g1, g2

MCGroups == {g1, g2}
\* Groups are only compared.
MCSymmetry == Permutations(MCGroups)
MCKeys == {0, 1}
\* A load reads everything, nothing at all, or all but the key.
MCLosses == {{}, Readable, {"app"}}
MCIdentities == {[addr |-> 5, net |-> 0], [addr |-> 6, net |-> 1]}
=============================================================================

----------------------------- MODULE MCDiscovery -----------------------------
(***************************************************************************)
(* Instances of Discovery: a file_sd source with one file, and Kubernetes  *)
(* sources with the two stores of an endpointslice role and the one of a   *)
(* pod role.                                                               *)
(***************************************************************************)
EXTENDS Discovery

CONSTANTS files, endpointslice, podrole, file, pods, slices, rolePods

MCStores == UNION {IF s = files THEN {file}
                   ELSE IF s = endpointslice THEN {pods, slices}
                   ELSE {rolePods} : s \in Sources}
MCStoresOf ==
  [s \in Sources |-> IF s = files THEN {file}
                     ELSE IF s = endpointslice THEN {pods, slices}
                     ELSE {rolePods}]
MCMaxVersion == [k \in Stores |-> IF k = file THEN 1 ELSE 2]
=============================================================================

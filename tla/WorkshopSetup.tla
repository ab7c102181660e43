--------------------------- MODULE WorkshopSetup ---------------------------
(***************************************************************************)
(* The presenter's machine: the scripts of GatewayRegistry and StudioSetup *)
(* run one at a time, in any order and any number of times, while the      *)
(* gateway goes on by itself.                                              *)
(***************************************************************************)
EXTENDS GatewayRegistry, StudioSetup

vars == <<registryVars, studioVars>>

Init == RegistryInit /\ StudioInit

Next ==
    \/ RegistryNext /\ (at # "none" => script' = "none") /\ UNCHANGED studioVars
    \/ StudioNext /\ script = "none" /\ UNCHANGED registryVars

Spec == Init /\ [][Next]_vars

TypeOK == RegistryTypeOK /\ StudioTypeOK
=============================================================================

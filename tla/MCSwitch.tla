------------------------------ MODULE MCSwitch ------------------------------
(***************************************************************************)
(* A host with two NICs, cabled to a Junos and an EOS switch in either     *)
(* order, or to a switch nobody claims; and cloud02, whose assignments put *)
(* both NICs into one VLAN, or the last one into a public VLAN.            *)
(***************************************************************************)
EXTENDS Switch

MCNics == 1..2
MCLayouts == {<<"juniper", "arista">>, <<"arista", "legacy">>, <<"arista", "typo">>}
MCClouds == 1..2
MCOffers == <<{}, {[qinq |-> 1, vlan |-> 0], [qinq |-> 0, vlan |-> 900]}>>
MCAsked == {<<2, 1111>>}

ASSUME PublicVlansApart == Apart
=============================================================================

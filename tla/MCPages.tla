------------------------------ MODULE MCPages -------------------------------
(***************************************************************************)
(* An instance of Pages for TLC: four keys of either kind, among them keys *)
(* that end in zeros and keys that are prefixes of others.                 *)
(***************************************************************************)
EXTENDS Pages

MCHolderKeys == {<<0, 0>>, <<0, 1>>, <<1, 0>>, <<1, 1>>}
MCAccountKeys == {<<1>>, <<1, 1>>, <<1, 2>>, <<2>>}
MCLimits == {{}, {0}, {1}, {3}}

=============================================================================

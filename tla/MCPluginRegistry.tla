-------------------------- MODULE MCPluginRegistry --------------------------
(***************************************************************************)
(* A small instance of PluginRegistry: a plugin within its grants, the     *)
(* same wanting more than was granted on a granted resource, wanting one   *)
(* outside the vocabulary and with an unfinished manifest, and a plugin    *)
(* that wants nothing.                                                     *)
(***************************************************************************)
EXTENDS PluginRegistry

Wants(resource, actions) == <<[resource |-> resource, actions |-> actions]>>
Manifest(id, permissions) == [id |-> id, complete |-> TRUE, permissions |-> permissions]

MCManifests ==
    {Manifest("a", Wants("storage", {"read", "write"})),
     Manifest("a", Wants("storage", {"read", "execute"})),
     Manifest("a", Wants("filesystem", {"read"})),
     [Manifest("a", <<>>) EXCEPT !.complete = FALSE],
     Manifest("b", <<>>)}

\* One resource granted in two entries.
MCGranted == Wants("storage", {"read"}) \o Wants("storage", {"write"}) \o Wants("llm", {"execute"})
=============================================================================

------------------------- MODULE MCPrefixCachedEngine -------------------------
(* A machine for TLC whose GPU calls sometimes fall back to the CPU; those   *)
(* that always compute on the same device are in MCInference.                *)
EXTENDS PrefixCachedEngine
MCContent == {"a", "b"}
MCKey == [c \in MCContent |-> c]
MCSessionPrompts == {<<"a", "b">>, <<"a", "b", "a">>, <<"b">>}
=============================================================================

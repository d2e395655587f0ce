----------------------------- MODULE MCChatServer -----------------------------
(* Requests of every kind over one replica, in two mixes. *)
EXTENDS ChatServer
CONSTANTS r1, r2, r3
MCClients == {r1, r2, r3}
Mix(a, b, d) == (r1 :> a) @@ (r2 :> b) @@ (r3 :> d)
MCMixes == {Mix("chat", "stream", "completion"), Mix("extended", "stream", "completion")}
MCPlainMix == {Mix("chat", "stream", "completion")}
=============================================================================

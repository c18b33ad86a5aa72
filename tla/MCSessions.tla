----------------------------- MODULE MCSessions -----------------------------
(***************************************************************************)
(* Instances of the session history for TLC.                               *)
(***************************************************************************)
EXTENDS SessionProperties

CONSTANTS c1

\* one hop over one generation, and a policy of another kind that leaves more room
Luna == [kind |-> "luna", modes |-> {"fresh", "reuse"}, gap |-> 1, hops |-> 1]
Sol == [kind |-> "sol", modes |-> {"fresh", "reuse"}, gap |-> 2, hops |-> 2]
AnyPolicy == {Luna, Sol}
=============================================================================

------------------------- MODULE MCExtensionLifecycle --------------------------
(* A small instance of ExtensionLifecycle for TLC. *)
EXTENDS ExtensionLifecycle

\* Ports 1 to 7, and numbers around every limit of 16 values of unsigned long.
MCLines ==
    {[section |-> n] : n \in {"companion", "other"}} \cup
    {[comment |-> ""], [text |-> ""], [unknown |-> ""]} \cup
    {[enabled |-> w] : w \in {"yes", "0", "maybe"}} \cup
    {[port |-> n] : n \in {-16, -15, -9, -8, 0, 7, 8, 15, 16}} \cup
    {[bindAddress |-> a] : a \in {"", "::1"}} \cup
    {[logLevel |-> l] : l \in {"warn", "loud"}}

MCConfigFiles == UNION {[1..n -> MCLines] : n \in 0..4}
=============================================================================

--------------------------- MODULE SecureChannel ---------------------------
(***************************************************************************)
(* What secure messaging promises, host and card together, without the    *)
(* handshake, the MACs and the link.  The card executes the commands of a *)
(* session at strictly increasing counters, so it never executes a        *)
(* command at a counter it has used under that session key.  The host    *)
(* accepts only the answer to a command the card executed, and accepts    *)
(* the answers of a session in counter order.  A command is named by its  *)
(* session key, counter, instruction and the SW2 the card gave it.        *)
(***************************************************************************)
EXTENDS Naturals

CONSTANT Entries   \* [sk, ctr, ins, sw2] records, ctr a natural

VARIABLES executed, accepted

avars == <<executed, accepted>>

\* Every entry of S under e's session key has a counter below e's.
Below(S, e) == \A x \in S : x.sk = e.sk => x.ctr < e.ctr

Init ==
    /\ executed = {}
    /\ accepted = {}

Execute(e) ==
    /\ Below(executed, e)
    /\ executed' = executed \cup {e}
    /\ UNCHANGED accepted

Accept(e) ==
    /\ e \in executed
    /\ Below(accepted, e)
    /\ accepted' = accepted \cup {e}
    /\ UNCHANGED executed

Next == \E e \in Entries : Execute(e) \/ Accept(e)

Spec == Init /\ [][Next]_avars
=============================================================================

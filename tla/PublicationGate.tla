--------------------------- MODULE PublicationGate ---------------------------
(***************************************************************************)
(* What the human gate promises, without any node, driver or checkpoint:   *)
(* one copy at a time is shown, a human may sign what is shown, and only a  *)
(* signed copy is ever sent.  AgentGraph implements it (AgentGraph!Gate).   *)
(***************************************************************************)

VARIABLES
    shown,    \* the copy parked for a human: a set of at most one
    signed,   \* every copy a human approved
    sent      \* every copy that went out

Init == shown = {} /\ signed = {} /\ sent = {}

Show ==
    /\ shown = {}
    /\ \E c \in shown' : shown' = {c}
    /\ UNCHANGED <<signed, sent>>

Sign ==
    /\ \E c \in shown : signed' = signed \union {c}
    /\ UNCHANGED <<shown, sent>>

Withdraw ==
    /\ shown # {}
    /\ shown' = {}
    /\ UNCHANGED <<signed, sent>>

Publish ==
    /\ \E c \in signed : sent' = sent \union {c}
    /\ UNCHANGED <<shown, signed>>

Next == Show \/ Sign \/ Withdraw \/ Publish

Spec == Init /\ [][Next]_<<shown, signed, sent>>
=============================================================================

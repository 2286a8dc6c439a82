-------------------------- MODULE ChallengeResponse --------------------------
(***************************************************************************)
(* What the login handshake promises, without saying how: a client is      *)
(* admitted to the realm list only by answering the last challenge given   *)
(* to it on its present connection, a challenge number is never given      *)
(* twice, and no challenge admits twice.                                   *)
(***************************************************************************)
EXTENDS Naturals

CONSTANT Clients

VARIABLES last,      \* the largest challenge number given so far
          issued,    \* per client: the challenge outstanding or answered, 0 if none
          spent,     \* the challenges that have admitted somebody
          admitted   \* the clients that may ask for the realm list

vars == <<last, issued, spent, admitted>>

Init ==
    /\ last = 0
    /\ issued = [c \in Clients |-> 0]
    /\ spent = {}
    /\ admitted = {}

\* A fresh challenge supersedes whatever the client had, admission included.
Issue(c) ==
    /\ last' = last + 1
    /\ issued' = [issued EXCEPT ![c] = last + 1]
    /\ admitted' = admitted \ {c}
    /\ UNCHANGED spent

\* A fresh challenge is drawn but never reaches the client.
Lose(c) ==
    /\ last' = last + 1
    /\ issued' = [issued EXCEPT ![c] = 0]
    /\ admitted' = admitted \ {c}
    /\ UNCHANGED spent

Admit(c) ==
    /\ issued[c] \notin spent \cup {0}
    /\ spent' = spent \cup {issued[c]}
    /\ admitted' = admitted \cup {c}
    /\ UNCHANGED <<last, issued>>

\* The challenge admits, but the client is gone before it learns of it.
AdmitGone(c) ==
    /\ issued[c] \notin spent \cup {0}
    /\ spent' = spent \cup {issued[c]}
    /\ issued' = [issued EXCEPT ![c] = 0]
    /\ admitted' = admitted \ {c}
    /\ UNCHANGED last

Drop(c) ==
    /\ issued' = [issued EXCEPT ![c] = 0]
    /\ admitted' = admitted \ {c}
    /\ UNCHANGED <<last, spent>>

DropAll ==
    /\ issued' = [c \in Clients |-> 0]
    /\ admitted' = {}
    /\ UNCHANGED <<last, spent>>

Next ==
    \/ \E c \in Clients : Issue(c) \/ Lose(c) \/ Admit(c) \/ AdmitGone(c) \/ Drop(c)
    \/ DropAll

Spec == Init /\ [][Next]_vars
=============================================================================

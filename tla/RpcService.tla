----------------------------- MODULE RpcService -----------------------------
(***************************************************************************)
(* What one RPC connection promises its peer: requests are taken one at a  *)
(* time, and while the connection is open each is answered once, in order, *)
(* with the acknowledgement type of its own type and its own call id.      *)
(* Once closed the connection says nothing more.                           *)
(***************************************************************************)
EXTENDS Naturals, Sequences

CONSTANTS Types,          \* packet types that have an answer
          CallIds,        \* call ids a peer uses
          AnswerType(_)   \* packet type of the answer to a packet type

VARIABLES asked,          \* <<type, call id>> of the packets taken, in order
          answered,       \* <<type, call id>> of the answers given, in order
          open            \* FALSE once the connection has been closed

vars == <<asked, answered, open>>

Init == asked = <<>> /\ answered = <<>> /\ open = TRUE

\* A packet without an answer may be taken too; the connection then closes.
Take ==
  /\ open
  /\ Len(asked) = Len(answered)
  /\ \E t \in Types \cup {"other"}, k \in CallIds :
        asked' = Append(asked, <<t, k>>)
  /\ UNCHANGED <<answered, open>>

Answer ==
  /\ open
  /\ Len(answered) < Len(asked)
  /\ LET q == asked[Len(answered) + 1]
     IN  /\ q[1] \in Types
         /\ answered' = Append(answered, <<AnswerType(q[1]), q[2]>>)
  /\ UNCHANGED <<asked, open>>

Close == open /\ open' = FALSE /\ UNCHANGED <<asked, answered>>

Next == Take \/ Answer \/ Close

Spec == Init /\ [][Next]_vars
=============================================================================

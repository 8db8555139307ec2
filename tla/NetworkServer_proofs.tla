------------------------ MODULE NetworkServer_proofs ------------------------
(***************************************************************************)
(* Proofs about NetworkServer, for any number of clients and any limits:   *)
(* type correctness, one late accept at most, and a backlog that agrees    *)
(* with the state of the connections.                                      *)
(***************************************************************************)
EXTENDS NetworkServer, TLAPS

\* What Append and Tail do, as the provers need it.
LEMMA AppendFacts ==
  ASSUME NEW S, NEW q \in Seq(S), NEW e \in S
  PROVE  /\ Append(q, e) \in Seq(S)
         /\ Len(Append(q, e)) = Len(q) + 1
         /\ Append(q, e)[Len(q) + 1] = e
         /\ \A i \in 1..Len(q) : Append(q, e)[i] = q[i]
  OBVIOUS

LEMMA LenFacts ==
  ASSUME NEW S, NEW q \in Seq(S)
  PROVE  Len(q) \in Nat /\ DOMAIN q = 1..Len(q)
  OBVIOUS

LEMMA TailFacts ==
  ASSUME NEW S, NEW q \in Seq(S), q # <<>>
  PROVE  /\ Head(q) = q[1] /\ q[1] \in S /\ Len(q) >= 1
         /\ Tail(q) \in Seq(S)
         /\ Len(Tail(q)) = Len(q) - 1
         /\ \A i \in 1..(Len(q) - 1) : Tail(q)[i] = q[i + 1]
<1>1. Head(q) = q[1] /\ q[1] \in S /\ Len(q) >= 1
  BY LenFacts
<1>2. Tail(q) \in Seq(S) /\ Len(Tail(q)) = Len(q) - 1
  BY <1>1
<1>3. \A i \in 1..(Len(q) - 1) : Tail(q)[i] = q[i + 1]
  BY <1>1, <1>2
<1> QED
  BY <1>1, <1>2, <1>3

LEMMA EmptyQueue == <<>> \in Seq(Clients)
  OBVIOUS

LEMMA InitType == Init => TypeOK
<1> SUFFICES ASSUME Init PROVE TypeOK
  OBVIOUS
<1>1. backlog \in Seq(Clients)
  BY EmptyQueue DEF Init
<1>2. requests \in [Clients -> 0..MaxRequests]
  BY ServerAssumption DEF Init
<1>3. /\ conn \in [Clients -> ConnStates]
      /\ pending \in [Clients -> BOOLEAN]
      /\ gone \in [Clients -> BOOLEAN]
  BY DEF Init, ConnStates
<1> QED
  BY <1>1, <1>2, <1>3 DEF Init, TypeOK, MainStates

LEMMA NextType == TypeOK /\ [Next]_vars => TypeOK'
<1> SUFFICES ASSUME TypeOK, [Next]_vars PROVE TypeOK'
  OBVIOUS
<1> USE ServerAssumption DEF TypeOK, ConnStates, MainStates, clientVars, stopVars
<1>1. ASSUME NEW c \in Clients, Connect(c) PROVE TypeOK'
  <2>1. Append(backlog, c) \in Seq(Clients)
    BY AppendFacts, LenFacts, TailFacts
  <2> QED
    BY <1>1, <2>1 DEF Connect, Listening
<1>2. ASSUME NEW c \in Clients, Send(c) PROVE TypeOK'
  BY <1>2 DEF Send
<1>3. ASSUME NEW c \in Clients, Leave(c) PROVE TypeOK'
  BY <1>3 DEF Leave
<1>4. ASSUME NEW c \in Clients, Handler(c) PROVE TypeOK'
  BY <1>4 DEF Handler, ReadRequest, Finish, HangUp
<1>5. CASE Kill \/ SigWait
  BY <1>5 DEF Kill, SigWait
<1>6. CASE CheckFlag
  <2>1. Refuse(conn) \in [Clients -> ConnStates]
    BY DEF Refuse
  <2>2. backlog' \in Seq(Clients) /\ conn' \in [Clients -> ConnStates]
    <3>1. backlog' = <<>> \/ backlog' = backlog
      BY <1>6 DEF CheckFlag
    <3>2. conn' = Refuse(conn) \/ conn' = conn
      BY <1>6 DEF CheckFlag
    <3>3. backlog' \in Seq(Clients)
      BY <3>1, EmptyQueue
    <3> QED
      BY <2>1, <3>2, <3>3
  <2>3. mpc = "check" /\ mpc' \in {"returned", "accept"}
    BY <1>6 DEF CheckFlag
  <2> QED
    BY <1>6, <2>2, <2>3 DEF CheckFlag
<1>7. CASE Accept
  <2>1. Tail(backlog) \in Seq(Clients) /\ Head(backlog) \in Clients
    BY <1>7, AppendFacts, LenFacts, TailFacts DEF Accept
  <2> QED
    BY <1>7, <2>1 DEF Accept
<1>8. CASE SpawnPanic
  <2>1. /\ Refuse(conn) \in [Clients -> ConnStates]
        /\ Cut(Refuse(conn)) \in [Clients -> ConnStates]
    BY DEF Refuse, Cut
  <2>2. conn' \in [Clients -> ConnStates]
    BY <1>8, <2>1 DEF SpawnPanic
  <2>3. backlog' \in Seq(Clients)
    BY <1>8, EmptyQueue DEF SpawnPanic
  <2> QED
    BY <1>8, <2>2, <2>3 DEF SpawnPanic
<1>9. CASE AcceptError \/ WouldBlock \/ Wake
  BY <1>9 DEF AcceptError, WouldBlock, Wake
<1>10. CASE ProcessExit
  <2>1. Cut(conn) \in [Clients -> ConnStates]
    BY DEF Cut
  <2> QED
    BY <1>10, <2>1 DEF ProcessExit
<1>11. CASE UNCHANGED vars
  BY <1>11 DEF vars
<1> QED
  BY <1>1, <1>2, <1>3, <1>4, <1>5, <1>6, <1>7, <1>8, <1>9, <1>10, <1>11
  DEF Next, Main, Exited

\* Every variable of the server keeps its type.
THEOREM ServerType == Spec => []TypeOK
  BY InitType, NextType, PTL DEF Spec

-----------------------------------------------------------------------------
(* One late accept. *)

\* Strengthening: the flag is set only where one is passed in, nothing is
\* accepted late before that, and after a late accept the loop stands before
\* the check that ends it.
LateInv ==
  /\ flag => watched
  /\ signal # "none" => watched
  /\ late \in {0, 1}
  /\ late = 1 => flag /\ mpc \in {"check", "returned", "exited"}

LEMMA LateInit == Init => LateInv
  BY DEF Init, LateInv

LEMMA LateNext ==
  ASSUME LateInv, [Next]_vars
  PROVE  LateInv'
<1> USE DEF LateInv, stopVars
<1>1. CASE CheckFlag
  BY <1>1 DEF CheckFlag
<1>2. CASE Accept
  BY <1>2 DEF Accept
<1>3. CASE SpawnPanic \/ AcceptError \/ WouldBlock \/ Wake \/ ProcessExit
  BY <1>3 DEF SpawnPanic, AcceptError, WouldBlock, Wake, ProcessExit
<1>4. CASE Kill \/ SigWait \/ UNCHANGED vars
  BY <1>4 DEF Kill, SigWait, vars
<1>5. ASSUME NEW c \in Clients, Connect(c) \/ Send(c) \/ Leave(c) \/ Handler(c)
      PROVE  LateInv'
  BY <1>5 DEF Connect, Send, Leave, Handler, ReadRequest, Finish, HangUp
<1> QED
  BY <1>1, <1>2, <1>3, <1>4, <1>5 DEF Next, Main, Exited

\* Whenever the flag is set between the check and accept, one more connection
\* may be taken, never two, for any number of clients waiting.
THEOREM AtMostOneLateAccept == Spec => []OneLateAccept
<1>1. LateInv => OneLateAccept
  BY DEF LateInv, OneLateAccept
<1>2. LateInv /\ [Next]_vars => LateInv'
  BY LateNext
<1> QED
  BY <1>1, <1>2, LateInit, PTL DEF Spec

-----------------------------------------------------------------------------
(* The backlog and the connections. *)

LEMMA BacklogInit == Init => BacklogOnce
  BY DEF Init, BacklogOnce

LEMMA BacklogNext ==
  ASSUME TypeOK, BacklogOnce, [Next]_vars
  PROVE  BacklogOnce'
<1>0. /\ backlog \in Seq(Clients)
      /\ conn \in [Clients -> ConnStates]
      /\ Len(backlog) \in Nat /\ DOMAIN backlog = 1..Len(backlog)
  BY AppendFacts, LenFacts, TailFacts DEF TypeOK
<1>1. ASSUME NEW c \in Clients, Connect(c) PROVE BacklogOnce'
  <2>1. /\ backlog' \in Seq(Clients)
        /\ Len(backlog') = Len(backlog) + 1
        /\ backlog'[Len(backlog) + 1] = c
        /\ \A i \in 1..Len(backlog) : backlog'[i] = backlog[i]
    BY <1>0, <1>1, AppendFacts, LenFacts, TailFacts DEF Connect
  <2>2. DOMAIN backlog' = 1..(Len(backlog) + 1)
    BY <2>1, AppendFacts, LenFacts, TailFacts
  <2>3. \A i \in 1..Len(backlog) : backlog[i] # c
    BY <1>0, <1>1 DEF Connect, BacklogOnce
  <2>4. \A i, j \in DOMAIN backlog' : backlog'[i] = backlog'[j] => i = j
    BY <1>0, <2>1, <2>2, <2>3 DEF BacklogOnce
  <2>5. ASSUME NEW d \in Clients
        PROVE  conn'[d] = "queued" <=> \E i \in DOMAIN backlog' : backlog'[i] = d
    <3>1. CASE d = c
      BY <1>0, <1>1, <2>1, <2>2, <3>1 DEF Connect
    <3>2. CASE d # c
      <4>1. conn'[d] = conn[d]
        BY <1>0, <1>1, <3>2 DEF Connect
      <4>2. (\E i \in DOMAIN backlog' : backlog'[i] = d)
              <=> \E i \in DOMAIN backlog : backlog[i] = d
        BY <1>0, <2>1, <2>2, <3>2
      <4> QED
        BY <4>1, <4>2 DEF BacklogOnce
    <3> QED
      BY <3>1, <3>2
  <2> QED
    BY <2>4, <2>5 DEF BacklogOnce
<1>2. CASE Accept
  <2> DEFINE c == Head(backlog)
  <2>1. /\ backlog' \in Seq(Clients)
        /\ Len(backlog') = Len(backlog) - 1 /\ Len(backlog) >= 1
        /\ c = backlog[1] /\ c \in Clients
        /\ \A i \in 1..(Len(backlog) - 1) : backlog'[i] = backlog[i + 1]
    BY <1>0, <1>2, AppendFacts, LenFacts, TailFacts DEF Accept
  <2>2. DOMAIN backlog' = 1..(Len(backlog) - 1)
    BY <2>1, AppendFacts, LenFacts, TailFacts
  <2>3. \A i, j \in DOMAIN backlog' : backlog'[i] = backlog'[j] => i = j
    <3> SUFFICES ASSUME NEW i \in 1..(Len(backlog) - 1),
                        NEW j \in 1..(Len(backlog) - 1),
                        backlog[i + 1] = backlog[j + 1]
                 PROVE  i = j
      BY <2>1, <2>2
    <3>1. i + 1 \in DOMAIN backlog /\ j + 1 \in DOMAIN backlog
      BY <1>0
    <3>2. i + 1 = j + 1
      BY <3>1 DEF BacklogOnce
    <3> QED
      BY <3>2
  <2>4. ASSUME NEW d \in Clients
        PROVE  conn'[d] = "queued" <=> \E i \in DOMAIN backlog' : backlog'[i] = d
    <3>1. CASE d = c
      <4>1. conn'[d] = "reading"
        BY <1>0, <1>2, <3>1 DEF Accept
      <4>2. ASSUME NEW i \in 1..(Len(backlog) - 1) PROVE backlog'[i] # d
        <5>1. i + 1 \in DOMAIN backlog /\ 1 \in DOMAIN backlog /\ i + 1 # 1
          BY <1>0, <2>1
        <5>2. backlog[i + 1] # backlog[1]
          BY <5>1 DEF BacklogOnce
        <5> QED
          BY <2>1, <3>1, <5>2
      <4> QED
        BY <2>2, <4>1, <4>2
    <3>2. CASE d # c
      <4>1. conn'[d] = conn[d]
        BY <1>0, <1>2, <3>2 DEF Accept
      <4>2. ASSUME NEW i \in DOMAIN backlog, backlog[i] = d
            PROVE  \E j \in DOMAIN backlog' : backlog'[j] = d
        <5>1. i # 1 /\ i - 1 \in 1..(Len(backlog) - 1)
          BY <1>0, <2>1, <3>2, <4>2
        <5>2. backlog'[i - 1] = backlog[(i - 1) + 1]
          BY <2>1, <5>1
        <5>3. (i - 1) + 1 = i
          BY <1>0
        <5> QED
          BY <2>2, <4>2, <5>1, <5>2, <5>3
      <4>3. ASSUME NEW i \in DOMAIN backlog', backlog'[i] = d
            PROVE  \E j \in DOMAIN backlog : backlog[j] = d
        BY <1>0, <2>1, <2>2, <4>3
      <4> QED
        BY <4>1, <4>2, <4>3 DEF BacklogOnce
    <3> QED
      BY <3>1, <3>2
  <2> QED
    BY <2>3, <2>4 DEF BacklogOnce
<1>3. ASSUME backlog' = <<>>, \A d \in Clients : conn'[d] # "queued"
      PROVE  BacklogOnce'
  BY <1>3 DEF BacklogOnce
<1>4. ASSUME backlog' = backlog,
             \A d \in Clients : conn'[d] = "queued" <=> conn[d] = "queued"
      PROVE  BacklogOnce'
  BY <1>4 DEF BacklogOnce
<1>5. CASE CheckFlag
  BY <1>0, <1>3, <1>4, <1>5 DEF CheckFlag, Refuse
<1>6. CASE SpawnPanic
  BY <1>0, <1>3, <1>6 DEF SpawnPanic, Refuse, Cut
<1>7. CASE ProcessExit
  BY <1>0, <1>4, <1>7 DEF ProcessExit, Cut
<1>8. CASE Kill \/ SigWait \/ AcceptError \/ WouldBlock \/ Wake \/ UNCHANGED vars
  BY <1>4, <1>8 DEF Kill, SigWait, AcceptError, WouldBlock, Wake, vars, stopVars
<1>9. ASSUME NEW c \in Clients, Send(c) \/ Leave(c) \/ Handler(c)
      PROVE  BacklogOnce'
  BY <1>0, <1>4, <1>9 DEF Send, Leave, Handler, ReadRequest, Finish, HangUp
<1> QED
  BY <1>1, <1>2, <1>5, <1>6, <1>7, <1>8, <1>9 DEF Next, Main, Exited

\* No connection is lost or duplicated on its way from the backlog to its
\* handler, for any number of clients and descriptors.
THEOREM BacklogAgrees == Spec => []BacklogOnce
<1>1. TypeOK /\ BacklogOnce /\ [Next]_vars => BacklogOnce'
  BY BacklogNext
<1> QED
  BY <1>1, BacklogInit, ServerType, PTL DEF Spec
=============================================================================

------------------------- MODULE FfiLibrary_proofs -------------------------
(***************************************************************************)
(* Proofs about FfiLibrary, for any host threads and ports.                *)
(***************************************************************************)
EXTENDS FfiLibrary, TLAPS

\* What the counting needs: the counters are numbers and the handle tells
\* their difference.
CountInv ==
  /\ live \subseteq Threads
  /\ starts \in Nat /\ stops \in Nat
  /\ servers \in Seq([port : Ports, stage : Stages])
  /\ arg \in [Threads -> Ports]
  /\ StartsAndStopsAlternate

LEMMA AppendFacts ==
  ASSUME NEW S, NEW q \in Seq(S), NEW e \in S
  PROVE  Append(q, e) \in Seq(S) /\ Len(q) \in Nat
  OBVIOUS

LEMMA ExceptFacts ==
  ASSUME NEW S, NEW q \in Seq(S), NEW i \in DOMAIN q
  PROVE  /\ q[i] \in S
         /\ \A e \in S : [q EXCEPT ![i] = e] \in Seq(S)
  OBVIOUS

LEMMA CountInit == Init => CountInv
<1>1. <<>> \in Seq([port : Ports, stage : Stages])
  OBVIOUS
<1> SUFFICES ASSUME Init PROVE CountInv
  OBVIOUS
<1>2. servers \in Seq([port : Ports, stage : Stages])
  BY <1>1 DEF Init
<1>3. /\ starts = 0 /\ stops = 0 /\ handle = 0
      /\ arg \in [Threads -> Ports] /\ live \subseteq Threads
  BY DEF Init
<1> QED
  BY <1>2, <1>3 DEF CountInv, StartsAndStopsAlternate

LEMMA CountNext == CountInv /\ [Next]_vars => CountInv'
<1> SUFFICES ASSUME CountInv, [Next]_vars PROVE CountInv'
  OBVIOUS
<1> USE DEF CountInv, StartsAndStopsAlternate, serverVars, callVars, errorVars
<1>1. ASSUME NEW t \in Threads, NEW op, NEW port \in Ports, Call(t, op, port)
      PROVE  CountInv'
  BY <1>1 DEF Call
<1>2. ASSUME NEW t \in Threads, StartServer(t) PROVE CountInv'
  <2>1. arg' = arg /\ live' = live
    BY <1>2 DEF StartServer, Return
  <2>2. CASE UNCHANGED serverVars
    BY <2>1, <2>2
  <2>3. CASE /\ handle = 0
             /\ servers' = Append(servers, [port |-> arg[t], stage |-> "starting"])
             /\ handle' = Len(servers) + 1
             /\ starts' = starts + 1
             /\ stops' = stops
    <3>1. [port |-> arg[t], stage |-> "starting"] \in [port : Ports, stage : Stages]
      BY DEF Stages
    <3>2. servers' \in Seq([port : Ports, stage : Stages]) /\ Len(servers) \in Nat
      BY <2>3, <3>1, AppendFacts
    <3>3. handle' # 0
      BY <2>3, <3>2
    <3> QED
      BY <2>1, <2>3, <3>2, <3>3
  <2> QED
    BY <1>2, <2>2, <2>3 DEF StartServer
<1>3. ASSUME NEW t \in Threads, StopServer(t) PROVE CountInv'
  <2>1. arg' = arg /\ live' = live
    BY <1>3 DEF StopServer, Return
  <2>2. CASE UNCHANGED serverVars
    BY <2>1, <2>2
  <2>3. CASE /\ handle # 0 /\ handle' = 0 /\ stops' = stops + 1
             /\ UNCHANGED <<servers, starts>>
    BY <2>1, <2>3
  <2> QED
    BY <1>3, <2>2, <2>3 DEF StopServer
<1>4. ASSUME NEW t \in Threads, ProcessRequest(t) PROVE CountInv'
  BY <1>4 DEF ProcessRequest, Return
<1>5. ASSUME NEW t \in Threads, GetErrorMessage(t) PROVE CountInv'
  BY <1>5 DEF GetErrorMessage
<1>6. ASSUME NEW i \in DOMAIN servers, BindServer(i) PROVE CountInv'
  <2>1. PICK s \in Stages : servers' = [servers EXCEPT ![i].stage = s]
    BY <1>6 DEF BindServer, Stages
  <2>2. servers[i] \in [port : Ports, stage : Stages]
    BY <1>6, ExceptFacts
  <2>3. [servers[i] EXCEPT !.stage = s] \in [port : Ports, stage : Stages]
    BY <2>1, <2>2
  <2>4. servers' \in Seq([port : Ports, stage : Stages])
    BY <1>6, <2>1, <2>3, ExceptFacts
  <2> QED
    BY <1>6, <2>4 DEF BindServer
<1>7. CASE UNCHANGED vars
  BY <1>7 DEF vars
<1>8. ASSUME NEW t \in Threads, NEW op, Call(t, op, arg[t]) PROVE CountInv'
  <2>1. arg[t] \in Ports
    OBVIOUS
  <2> QED
    BY <1>1, <1>8, <2>1
<1>9. ASSUME NEW t \in Threads, ProductQuery(t) PROVE CountInv'
  BY <1>9 DEF ProductQuery
<1> QED
  BY <1>1, <1>2, <1>3, <1>4, <1>5, <1>6, <1>7, <1>8, <1>9 DEF Next, HostDone

\* Successful starts and stops alternate for any number of host threads,
\* calls and ports.
THEOREM Alternation == Spec => []StartsAndStopsAlternate
<1>1. CountInv => StartsAndStopsAlternate
  BY DEF CountInv
<1> QED
  BY <1>1, CountInit, CountNext, PTL DEF Spec

-----------------------------------------------------------------------------
(* Types. *)

LEMMA TypeInit == Init => TypeOK
<1> SUFFICES ASSUME Init PROVE TypeOK
  OBVIOUS
<1>1. /\ live \subseteq Threads /\ live # {}
      /\ at = [t \in Threads |-> "idle"] /\ arg \in [Threads -> Ports]
      /\ handle = 0 /\ servers = <<>> /\ msg = "none" /\ buf = 1
      /\ held = [t \in Threads |-> 0] /\ owed = [t \in Threads |-> "none"]
      /\ starts = 0 /\ stops = 0 /\ calls = 0
  BY DEF Init
<1>2. at \in [Threads -> Operations] /\ owed \in [Threads -> Messages] /\ msg \in Messages
  BY <1>1 DEF Operations, Messages
<1>3. servers \in Seq([port : Ports, stage : Stages]) /\ Len(servers) = 0
  BY <1>1
<1>4. calls \in 0..MaxCalls
  BY <1>1, LibraryAssumption
<1>5. buf \in Nat /\ held \in [Threads -> Nat] /\ \A t \in Threads : held[t] <= buf
  BY <1>1
<1> QED
  BY <1>1, <1>2, <1>3, <1>4, <1>5 DEF TypeOK

\* The types of what belongs to one thread and of the message survive the end of
\* a call, however it ends.
LEMMA TypeReturn ==
  ASSUME TypeOK, NEW t \in Threads, Return(t),
         \/ UNCHANGED <<owed, errorVars>>
         \/ \E text \in Messages : Fail(t, text)
  PROVE  /\ live' = live /\ at' \in [Threads -> Operations] /\ arg' = arg
         /\ held' = held /\ calls' = calls
         /\ msg' \in Messages /\ buf' \in Nat /\ owed' \in [Threads -> Messages]
         /\ \A u \in Threads : held'[u] <= buf'
<1>1. /\ live' = live /\ arg' = arg /\ held' = held /\ calls' = calls
      /\ at' = [at EXCEPT ![t] = "idle"]
  BY DEF Return
<1>2. /\ at \in [Threads -> Operations] /\ owed \in [Threads -> Messages]
      /\ held \in [Threads -> Nat] /\ buf \in Nat /\ msg \in Messages
      /\ \A u \in Threads : held[u] <= buf
  BY DEF TypeOK
<1>3. at' \in [Threads -> Operations]
  BY <1>1, <1>2 DEF Operations
<1>4. msg' \in Messages /\ buf' \in Nat /\ buf' >= buf /\ owed' \in [Threads -> Messages]
  BY <1>2 DEF Fail, SetError, errorVars
<1>5. \A u \in Threads : held'[u] <= buf'
  BY <1>1, <1>2, <1>4
<1> QED
  BY <1>1, <1>3, <1>4, <1>5

LEMMA TypeNext == TypeOK /\ [Next]_vars => TypeOK'
<1> SUFFICES ASSUME TypeOK, [Next]_vars PROVE TypeOK'
  OBVIOUS
<1>0. /\ live \subseteq Threads /\ live # {} /\ at \in [Threads -> Operations]
      /\ arg \in [Threads -> Ports] /\ servers \in Seq([port : Ports, stage : Stages])
      /\ handle \in 0..Len(servers) /\ msg \in Messages /\ buf \in Nat
      /\ held \in [Threads -> Nat] /\ \A t \in Threads : held[t] <= buf
      /\ owed \in [Threads -> Messages] /\ starts \in Nat /\ stops \in Nat
      /\ calls \in 0..MaxCalls /\ MaxCalls \in Nat /\ Len(servers) \in Nat
  BY LibraryAssumption DEF TypeOK
<1>1. ASSUME NEW t \in Threads, NEW op \in Operations, NEW port \in Ports, Call(t, op, port)
      PROVE  TypeOK'
  <2>1. /\ at' = [at EXCEPT ![t] = op] /\ arg' = [arg EXCEPT ![t] = port]
        /\ held' = [held EXCEPT ![t] = 0] /\ owed' = [owed EXCEPT ![t] = "none"]
        /\ calls < MaxCalls /\ calls' = calls + 1 /\ msg' = "none" /\ buf' = buf + 1
        /\ live' = live /\ handle' = handle /\ servers' = servers
        /\ starts' = starts /\ stops' = stops
    BY <1>1 DEF Call, SetError, serverVars
  <2>2. /\ at' \in [Threads -> Operations] /\ arg' \in [Threads -> Ports]
        /\ calls' \in 0..MaxCalls
    BY <1>0, <2>1
  <2>3. owed' \in [Threads -> Messages] /\ msg' \in Messages
    <3>1. "none" \in Messages
      BY DEF Messages
    <3> QED
      BY <1>0, <2>1, <3>1
  <2>4. held' \in [Threads -> Nat] /\ buf' \in Nat /\ \A u \in Threads : held'[u] <= buf'
    BY <1>0, <2>1
  <2> QED
    BY <1>0, <2>1, <2>2, <2>3, <2>4 DEF TypeOK
<1>2. ASSUME NEW t \in Threads, StartServer(t) \/ StopServer(t) \/ ProcessRequest(t)
      PROVE  TypeOK'
  <2>1. Return(t)
    BY <1>2 DEF StartServer, StopServer, ProcessRequest
  <2>2. \/ UNCHANGED <<owed, errorVars>>
        \/ \E text \in Messages : Fail(t, text)
    BY <1>2 DEF StartServer, StopServer, ProcessRequest, Messages
  <2>3. /\ servers' \in Seq([port : Ports, stage : Stages]) /\ handle' \in 0..Len(servers')
        /\ starts' \in Nat /\ stops' \in Nat
    <3>1. CASE UNCHANGED serverVars
      BY <1>0, <3>1 DEF serverVars
    <3>2. CASE /\ handle' = 0 /\ servers' = servers /\ starts' = starts
               /\ stops' = stops + 1
      BY <1>0, <3>2
    <3>3. CASE /\ servers' = Append(servers, [port |-> arg[t], stage |-> "starting"])
               /\ handle' = Len(servers) + 1 /\ starts' = starts + 1 /\ stops' = stops
      <4>1. [port |-> arg[t], stage |-> "starting"] \in [port : Ports, stage : Stages]
        BY <1>0 DEF Stages
      <4>2. servers' \in Seq([port : Ports, stage : Stages])
        BY <1>0, <3>3, <4>1, AppendFacts
      <4>3. Len(servers') = Len(servers) + 1
        BY <1>0, <3>3
      <4> QED
        BY <1>0, <3>3, <4>2, <4>3
    <3> QED
      BY <1>2, <3>1, <3>2, <3>3 DEF StartServer, StopServer, ProcessRequest
  <2>4. /\ live' = live /\ at' \in [Threads -> Operations] /\ arg' = arg
        /\ held' = held /\ calls' = calls
        /\ msg' \in Messages /\ buf' \in Nat /\ owed' \in [Threads -> Messages]
        /\ \A u \in Threads : held'[u] <= buf'
    BY <2>1, <2>2, TypeReturn
  <2> QED
    BY <1>0, <2>3, <2>4 DEF TypeOK
<1>3. ASSUME NEW t \in Threads, GetErrorMessage(t) PROVE TypeOK'
  <2>1. /\ held' = [held EXCEPT ![t] = buf] /\ live' = live /\ at' = at /\ arg' = arg
        /\ owed' = owed /\ calls' = calls /\ msg' = msg /\ buf' = buf
        /\ handle' = handle /\ servers' = servers /\ starts' = starts /\ stops' = stops
    BY <1>3 DEF GetErrorMessage, errorVars, serverVars
  <2>2. held' \in [Threads -> Nat] /\ \A u \in Threads : held'[u] <= buf'
    BY <1>0, <2>1
  <2> QED
    BY <1>0, <2>1, <2>2 DEF TypeOK
<1>4. ASSUME NEW t \in Threads, ProductQuery(t) PROVE TypeOK'
  <2>1. /\ calls < MaxCalls /\ calls' = calls + 1
        /\ held' = held /\ live' = live /\ at' = at /\ arg' = arg
        /\ owed' = owed /\ msg' = msg /\ buf' = buf
        /\ handle' = handle /\ servers' = servers /\ starts' = starts /\ stops' = stops
    BY <1>4 DEF ProductQuery, errorVars, serverVars
  <2>2. calls' \in 0..MaxCalls
    BY <1>0, <2>1
  <2> QED
    BY <1>0, <2>1, <2>2 DEF TypeOK
<1>5. ASSUME NEW i \in DOMAIN servers, BindServer(i) PROVE TypeOK'
  <2>1. PICK s \in Stages : servers' = [servers EXCEPT ![i].stage = s]
    BY <1>5 DEF BindServer, Stages
  <2>2. servers[i] \in [port : Ports, stage : Stages]
    BY <1>0, <1>5, ExceptFacts
  <2>3. [servers[i] EXCEPT !.stage = s] \in [port : Ports, stage : Stages]
    BY <2>1, <2>2
  <2>4. servers' \in Seq([port : Ports, stage : Stages]) /\ Len(servers') = Len(servers)
    BY <1>0, <1>5, <2>1, <2>3, ExceptFacts
  <2>5. /\ held' = held /\ live' = live /\ at' = at /\ arg' = arg
        /\ owed' = owed /\ calls' = calls /\ msg' = msg /\ buf' = buf
        /\ handle' = handle /\ starts' = starts /\ stops' = stops
    BY <1>5 DEF BindServer, callVars, errorVars
  <2> QED
    BY <1>0, <2>4, <2>5 DEF TypeOK
<1>6. CASE UNCHANGED vars
  <2>1. /\ held' = held /\ live' = live /\ at' = at /\ arg' = arg
        /\ owed' = owed /\ calls' = calls /\ msg' = msg /\ buf' = buf
        /\ handle' = handle /\ servers' = servers /\ starts' = starts /\ stops' = stops
    BY <1>6 DEF vars, callVars, errorVars, serverVars
  <2> QED
    BY <1>0, <2>1 DEF TypeOK
<1>7. \A t \in live : t \in Threads /\ arg[t] \in Ports
  BY <1>0
<1>8. {"start", "stop", "process"} \subseteq Operations
  BY DEF Operations
<1> QED
  BY <1>1, <1>2, <1>3, <1>4, <1>5, <1>6, <1>7, <1>8 DEF Next, HostDone

\* The types hold for any number of host threads, calls and ports; above all the
\* handle names a thread that was spawned.
THEOREM TypesHold == Spec => []TypeOK
BY TypeInit, TypeNext, PTL DEF Spec

-----------------------------------------------------------------------------
(* One calling thread: its error message and its pointer. *)

\* Only the threads that use the library hold a pointer, none of them while
\* it is inside a call, and a single one shares the message with nobody.
ErrorInv ==
  /\ live \subseteq Threads
  /\ buf \in Nat
  /\ at \in [Threads -> Operations]
  /\ held \in [Threads -> Nat]
  /\ owed \in [Threads -> Messages]
  /\ \A t \in Threads : t \notin live \/ at[t] # "idle" => held[t] = 0
  /\ \A t \in Threads : at[t] # "idle" => owed[t] = "none"
  /\ OwnErrorKept
  /\ SoleErrorPointerValid

LEMMA ErrorInit == Init => ErrorInv
<1> SUFFICES ASSUME Init PROVE ErrorInv
  OBVIOUS
<1>1. /\ live \subseteq Threads /\ buf \in Nat
      /\ \A t \in Threads : at[t] = "idle" /\ held[t] = 0 /\ owed[t] = "none"
      /\ at \in [Threads -> {"idle"}] /\ held \in [Threads -> {0}]
      /\ owed \in [Threads -> {"none"}]
  BY DEF Init
<1>2. at \in [Threads -> Operations]
  BY <1>1 DEF Operations
<1>3. held \in [Threads -> Nat]
  BY <1>1
<1>4. owed \in [Threads -> Messages]
  BY <1>1 DEF Messages
<1> QED
  BY <1>1, <1>2, <1>3, <1>4
     DEF ErrorInv, OwnErrorKept, SoleErrorPointerValid, ErrorPointerValid

\* What a step of thread t has to keep: the pointers of the others are not
\* touched, and when t is the only caller its own message and pointer agree
\* with the statics.
LEMMA ErrorStep ==
  ASSUME ErrorInv, NEW t \in live, live' = live, buf' \in Nat,
         NEW op \in Operations, at' = [at EXCEPT ![t] = op],
         NEW p \in Nat, held' = [held EXCEPT ![t] = p],
         NEW text \in Messages, owed' = [owed EXCEPT ![t] = text],
         op # "idle" => p = 0 /\ text = "none",
         SoleCaller => (op = "idle" /\ text # "none" => msg' = text),
         SoleCaller => (p # 0 => p = buf')
  PROVE  ErrorInv'
<1>1. t \in Threads /\ live \subseteq Threads
  BY DEF ErrorInv
<1>2. /\ at' \in [Threads -> Operations] /\ at'[t] = op
      /\ held' \in [Threads -> Nat] /\ held'[t] = p
      /\ owed' \in [Threads -> Messages] /\ owed'[t] = text
      /\ \A u \in Threads : u # t => /\ at'[u] = at[u]
                                     /\ held'[u] = held[u]
                                     /\ owed'[u] = owed[u]
  BY <1>1 DEF ErrorInv
<1>3. \A u \in Threads : /\ u \notin live' \/ at'[u] # "idle" => held'[u] = 0
                         /\ at'[u] # "idle" => owed'[u] = "none"
  BY <1>1, <1>2 DEF ErrorInv
<1>4. SoleCaller' => SoleCaller /\ \A u \in live : u = t
  BY DEF SoleCaller
<1>5. OwnErrorKept'
  BY <1>1, <1>2, <1>4 DEF OwnErrorKept
<1>6. SoleErrorPointerValid'
  <2> SUFFICES ASSUME SoleCaller', NEW u \in Threads, held'[u] # 0
               PROVE  held'[u] = buf'
    BY DEF SoleErrorPointerValid, ErrorPointerValid
  <2>1. u = t /\ SoleCaller
    BY <1>3, <1>4
  <2> QED
    BY <1>2, <2>1
<1> QED
  BY <1>1, <1>2, <1>3, <1>5, <1>6 DEF ErrorInv

LEMMA ErrorNext == ErrorInv /\ [Next]_vars => ErrorInv'
<1> SUFFICES ASSUME ErrorInv, [Next]_vars PROVE ErrorInv'
  OBVIOUS
<1>1. ASSUME NEW t \in live, NEW op \in {"start", "stop", "process"},
             NEW port, Call(t, op, port)
      PROVE  ErrorInv'
  <2>1. /\ live' = live /\ at' = [at EXCEPT ![t] = op] /\ op \in Operations
        /\ op # "idle" /\ buf' \in Nat
    BY <1>1 DEF Call, Operations, SetError, ErrorInv
  <2>2. PICK p \in Nat : p = 0 /\ held' = [held EXCEPT ![t] = p]
    BY <1>1 DEF Call
  <2>3. PICK text \in Messages : text = "none" /\ owed' = [owed EXCEPT ![t] = text]
    BY <1>1 DEF Call, Messages
  <2>4. op # "idle" => p = 0 /\ text = "none"
    BY <2>2, <2>3
  <2>5. /\ SoleCaller => (op = "idle" /\ text # "none" => msg' = text)
        /\ SoleCaller => (p # 0 => p = buf')
    BY <2>2, <2>3
  <2> QED
    BY <2>1, <2>2, <2>3, <2>4, <2>5, ErrorStep
<1>2. ASSUME NEW t \in live, StartServer(t) \/ StopServer(t) \/ ProcessRequest(t)
      PROVE  ErrorInv'
  <2>1. /\ at[t] # "idle" /\ at' = [at EXCEPT ![t] = "idle"]
        /\ live' = live /\ held' = held
    BY <1>2 DEF StartServer, StopServer, ProcessRequest, Return
  <2>2. /\ t \in Threads /\ held[t] = 0 /\ "idle" \in Operations
        /\ held' = [held EXCEPT ![t] = 0]
    BY <2>1 DEF ErrorInv, Operations
  <2>3. CASE UNCHANGED <<owed, msg, buf>>
    <3>1. owed' = [owed EXCEPT ![t] = "none"] /\ "none" \in Messages /\ buf' \in Nat
      BY <2>1, <2>2, <2>3 DEF ErrorInv, Messages
    <3> QED
      BY <2>1, <2>2, <3>1, ErrorStep
  <2>4. ASSUME NEW text \in Messages, Fail(t, text) PROVE ErrorInv'
    <3>1. owed' = [owed EXCEPT ![t] = text] /\ msg' = text /\ buf' \in Nat
      BY <2>4 DEF Fail, SetError, ErrorInv
    <3> QED
      BY <2>1, <2>2, <3>1, ErrorStep
  <2> QED
    BY <1>2, <2>3, <2>4
       DEF StartServer, StopServer, ProcessRequest, errorVars, Messages
<1>3. ASSUME NEW t \in live, GetErrorMessage(t) PROVE ErrorInv'
  <2>1. /\ t \in Threads /\ at[t] = "idle" /\ live' = live /\ buf' = buf /\ msg' = msg
        /\ held' = [held EXCEPT ![t] = buf] /\ buf' \in Nat
        /\ at' = at /\ owed' = owed
    BY <1>3 DEF GetErrorMessage, errorVars, ErrorInv
  <2>2. /\ at' = [at EXCEPT ![t] = "idle"] /\ "idle" \in Operations
        /\ owed' = [owed EXCEPT ![t] = owed[t]] /\ owed[t] \in Messages
    BY <2>1 DEF ErrorInv, Operations
  <2>3. SoleCaller => (owed[t] # "none" => msg' = owed[t])
    BY <2>1 DEF ErrorInv, OwnErrorKept
  <2> QED
    BY <2>1, <2>2, <2>3, ErrorStep
<1>4. ASSUME NEW i \in DOMAIN servers, BindServer(i) PROVE ErrorInv'
  BY <1>4 DEF BindServer, callVars, errorVars, ErrorInv, OwnErrorKept,
              SoleErrorPointerValid, ErrorPointerValid, SoleCaller
<1>5. CASE UNCHANGED vars
  BY <1>5 DEF vars, callVars, errorVars, ErrorInv, OwnErrorKept,
              SoleErrorPointerValid, ErrorPointerValid, SoleCaller
<1>6. ASSUME NEW t \in live, ProductQuery(t) PROVE ErrorInv'
  BY <1>6 DEF ProductQuery, errorVars, ErrorInv, OwnErrorKept,
              SoleErrorPointerValid, ErrorPointerValid, SoleCaller
<1> QED
  BY <1>1, <1>2, <1>3, <1>4, <1>5, <1>6 DEF Next, HostDone

\* A host that calls from one thread reads the message of its own last failed
\* call, whatever its background threads do, for any sequence of calls.
THEOREM SoleHostReadsItsError == Spec => []OwnErrorKept
<1>1. ErrorInv => OwnErrorKept
  BY DEF ErrorInv
<1> QED
  BY <1>1, ErrorInit, ErrorNext, PTL DEF Spec

\* The pointer such a host holds is never to a string that has been freed.
THEOREM SoleHostPointerValid == Spec => []SoleErrorPointerValid
<1>1. ErrorInv => SoleErrorPointerValid
  BY DEF ErrorInv
<1> QED
  BY <1>1, ErrorInit, ErrorNext, PTL DEF Spec
=============================================================================

----------------------------- MODULE FfiLibrary -----------------------------
(***************************************************************************)
(* The C library (crates/vlmcsd-ffi/src/lib.rs): threads of a host program *)
(* call it, two statics behind mutexes are shared between the calls, and   *)
(* each successful start leaves a background thread in run_server          *)
(* (crates/vlmcsd-network/src/lib.rs), which has no shutdown flag here and *)
(* so never returns once it listens.                                       *)
(*                                                                         *)
(* A call is two steps: clear_error, which takes and releases the error    *)
(* mutex, and the rest, which holds the handle mutex to its end.  Another  *)
(* thread may run between the two.  A CString is a number that is never    *)
(* used again: replacing ERROR_MSG frees the old one.                      *)
(***************************************************************************)
EXTENDS Integers, Sequences

CONSTANTS
  Threads,      \* threads of the host program
  Ports,        \* ports the host asks for
  MaxCalls      \* bound: calls the host makes

ASSUME LibraryAssumption == MaxCalls \in Nat

VARIABLES
  live,       \* the host's threads that use the library
  at,         \* what each thread is in the middle of
  arg,        \* the port a thread asks for in vlmcsd_start_server
  handle,     \* SERVER_HANDLE: the background thread it names, or 0 for None
  servers,    \* the background threads, in the order they were spawned
  msg,        \* ERROR_MSG: its text
  buf,        \* ERROR_MSG: which CString it is
  held,       \* the pointer a thread got from vlmcsd_get_error_message, or 0
  owed,       \* the message of the thread's last call, "none" when it succeeded
  starts,     \* history: calls of vlmcsd_start_server that returned 0
  stops,      \* history: calls of vlmcsd_stop_server that returned 0
  calls

callVars == <<live, at, arg, held, owed, calls>>
errorVars == <<msg, buf>>
serverVars == <<handle, servers, starts, stops>>
vars == <<callVars, errorVars, serverVars>>

Operations == {"idle", "start", "stop", "process"}
Messages   == {"none", "already started", "not started", "bad request"}
Stages     == {"starting", "listening", "failed"}

TypeOK ==
  /\ live \subseteq Threads /\ live # {}
  /\ at \in [Threads -> Operations]
  /\ arg \in [Threads -> Ports]
  /\ servers \in Seq([port : Ports, stage : Stages])
  /\ handle \in 0..Len(servers)
  /\ msg \in Messages
  /\ buf \in Nat
  /\ held \in [Threads -> Nat]
  /\ \A t \in Threads : held[t] <= buf
  /\ owed \in [Threads -> Messages]
  /\ starts \in Nat /\ stops \in Nat
  /\ calls \in 0..MaxCalls

Init ==
  /\ live \in SUBSET Threads /\ live # {}
  /\ at = [t \in Threads |-> "idle"]
  /\ arg \in [Threads -> Ports]
  /\ handle = 0 /\ servers = <<>>
  /\ msg = "none" /\ buf = 1
  /\ held = [t \in Threads |-> 0]
  /\ owed = [t \in Threads |-> "none"]
  /\ starts = 0 /\ stops = 0 /\ calls = 0

-----------------------------------------------------------------------------
(* The statics. *)

\* *lock = CString::new(text): a new buffer, and the old one is freed.
SetError(text) == msg' = text /\ buf' = buf + 1

\* Every operation begins with clear_error.  A pointer the thread got earlier
\* is not its concern any more.
Call(t, op, port) ==
  /\ at[t] = "idle" /\ calls < MaxCalls
  /\ SetError("none")
  /\ at' = [at EXCEPT ![t] = op]
  /\ arg' = [arg EXCEPT ![t] = port]
  /\ held' = [held EXCEPT ![t] = 0]
  /\ owed' = [owed EXCEPT ![t] = "none"]
  /\ calls' = calls + 1
  /\ UNCHANGED <<live, serverVars>>

Fail(t, text) ==
  /\ SetError(text)
  /\ owed' = [owed EXCEPT ![t] = text]

Return(t) ==
  /\ at' = [at EXCEPT ![t] = "idle"]
  /\ UNCHANGED <<live, arg, held, calls>>

-----------------------------------------------------------------------------
(* The operations, once clear_error is behind them. *)

\* Mutant: the handle is tested under the lock and stored after releasing it.
StartServerMut(t) ==
  /\ at[t] = "start" /\ handle = 0
  /\ servers' = Append(servers, [port |-> arg[t], stage |-> "starting"])
  /\ starts' = starts + 1
  /\ UNCHANGED <<handle, stops, owed, errorVars>>
  /\ Return(t)

StartServer(t) ==
  /\ at[t] = "start"
  /\ \/ /\ handle # 0
        /\ Fail(t, "already started")
        /\ UNCHANGED serverVars
     \/ /\ handle = 0
        /\ servers' = Append(servers, [port |-> arg[t], stage |-> "starting"])
        /\ handle' = Len(servers) + 1
        /\ starts' = starts + 1
        /\ UNCHANGED <<stops, owed, errorVars>>
  /\ Return(t)

\* Dropping the JoinHandle detaches the thread, which goes on listening.
StopServer(t) ==
  /\ at[t] = "stop"
  /\ \/ /\ handle = 0
        /\ Fail(t, "not started")
        /\ UNCHANGED serverVars
     \/ /\ handle # 0
        /\ handle' = 0
        /\ stops' = stops + 1
        /\ UNCHANGED <<servers, starts, owed, errorVars>>
  /\ Return(t)

\* vlmcsd_process_request answers or sets one of its messages.
ProcessRequest(t) ==
  /\ at[t] = "process"
  /\ \/ Fail(t, "bad request")
     \/ UNCHANGED <<owed, errorVars>>
  /\ UNCHANGED serverVars
  /\ Return(t)

\* Mutant: a query clears the message like the other operations.
ProductQueryMut(t) ==
  /\ at[t] = "idle" /\ calls < MaxCalls
  /\ SetError("none")
  /\ calls' = calls + 1
  /\ UNCHANGED <<live, at, arg, held, owed, serverVars>>

\* vlmcsd_get_product_count and vlmcsd_get_product_name load the database anew and
\* leave the message alone, even when there is no such product.
ProductQuery(t) ==
  /\ at[t] = "idle" /\ calls < MaxCalls
  /\ calls' = calls + 1
  /\ UNCHANGED <<live, at, arg, held, owed, errorVars, serverVars>>

\* Mutant: the message is handed over and the buffer emptied.
GetErrorMessageMut(t) ==
  /\ at[t] = "idle" /\ held[t] = 0
  /\ SetError("none")
  /\ held' = [held EXCEPT ![t] = buf]
  /\ UNCHANGED <<live, at, arg, owed, calls, serverVars>>

\* The pointer outlives the lock it was read under.
GetErrorMessage(t) ==
  /\ at[t] = "idle" /\ held[t] = 0
  /\ held' = [held EXCEPT ![t] = buf]
  /\ UNCHANGED <<live, at, arg, owed, calls, errorVars, serverVars>>

-----------------------------------------------------------------------------
(* A background thread: bind, then listen for ever; a failure is printed by  *)
(* the thread, which ends.                                                   *)

PortTaken(port) ==
  \E j \in DOMAIN servers : /\ servers[j].stage = "listening"
                            /\ servers[j].port = port

BindServer(i) ==
  /\ servers[i].stage = "starting"
  /\ servers' = [servers EXCEPT ![i].stage =
                   IF PortTaken(servers[i].port) THEN "failed" ELSE "listening"]
  /\ UNCHANGED <<callVars, errorVars, handle, starts, stops>>

\* The host has made its calls.
HostDone ==
  /\ calls = MaxCalls /\ \A t \in Threads : at[t] = "idle"
  /\ UNCHANGED vars

Next ==
  \/ \E t \in live, port \in Ports :
        Call(t, "start", port) \/ Call(t, "stop", arg[t])
          \/ Call(t, "process", arg[t])
  \/ \E t \in live :
        StartServer(t) \/ StopServer(t) \/ ProcessRequest(t)
          \/ ProductQuery(t) \/ GetErrorMessage(t)
  \/ \E i \in DOMAIN servers : BindServer(i)
  \/ HostDone

Spec == Init /\ [][Next]_vars

-----------------------------------------------------------------------------
(* Properties. *)

\* Successful starts and stops alternate, however the calls of different
\* threads overlap: the handle counts them.
StartsAndStopsAlternate == starts - stops = IF handle = 0 THEN 0 ELSE 1

SoleCaller == \E t \in Threads : live = {t}

\* In a host that calls from one thread, the message of a failed call stays
\* until the next call that can fail, whatever it asks about products and whatever
\* the background threads do meanwhile.
OwnErrorKept ==
  SoleCaller =>
    \A t \in live : (at[t] = "idle" /\ owed[t] # "none") => msg = owed[t]

\* A pointer to the last error message can be read until the thread that
\* asked for it calls the library again.  A call of another thread breaks it.
ErrorPointerValid == \A t \in Threads : held[t] # 0 => held[t] = buf

\* So it is in a host that calls from one thread.
SoleErrorPointerValid == SoleCaller => ErrorPointerValid

\* vlmcsd_stop_server stops the server: with none started, none listens.
StopStops ==
  handle = 0 => \A i \in DOMAIN servers : servers[i].stage # "listening"
=============================================================================

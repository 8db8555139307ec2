--------------------------- MODULE NetworkServer ---------------------------
(***************************************************************************)
(* The TCP server of one vlmcsd process: the accept loop of the main       *)
(* thread (run_server_with_shutdown and handle_client in                   *)
(* crates/vlmcsd-network/src/lib.rs), one thread per connection, the       *)
(* thread that waits for SIGINT and SIGTERM and sets the shutdown flag,    *)
(* and the return of main, which ends the process with every thread in it  *)
(* (crates/vlmcsd-server/src/main.rs).                                     *)
(*                                                                         *)
(* A connection is seen from outside: waiting in the listener's backlog,   *)
(* its handler reading, its handler working on a request it has read.      *)
(* What happens inside a handler is RpcSession: reading is its header and  *)
(* payload, working its dispatch and write.                                *)
(***************************************************************************)
EXTENDS Integers, Sequences, FiniteSets

CONSTANTS
  Clients,       \* each holds at most one connection at a time
  MaxFds,        \* streams the process may hold (accept fails beyond)
  MaxRequests,   \* bound: requests a client sends on one connection
  TimeoutSecs    \* ServerConfig.timeout; 0 leaves handlers without a timeout

ASSUME ServerAssumption ==
  /\ IsFiniteSet(Clients)
  /\ MaxFds \in Nat \ {0}
  /\ MaxRequests \in Nat
  /\ TimeoutSecs \in Nat

VARIABLES
  watched,    \* a flag is passed in: vlmcsd does that, the C library does not
  backlog,    \* connections the system has completed and accept has not seen
  conn,       \* state of each client's connection
  pending,    \* a request of the client is in the stream, unread
  gone,       \* the client has closed its end
  requests,   \* requests sent on the present connection
  mpc,        \* the main thread: see MainStates
  exit,       \* how the accept loop, and in vlmcsd the process, ended
  flag,       \* the shared shutdown flag
  signal,     \* SIGINT/SIGTERM: "none", "pending", "taken" by sigwait
  late        \* history: connections accepted after the flag was set

clientVars == <<pending, gone, requests>>
stopVars   == <<watched, flag, signal, late>>
vars       == <<backlog, conn, clientVars, mpc, exit, stopVars>>

ConnStates == {"idle", "queued", "reading", "working", "refused", "cut"}
MainStates == {"check", "accept", "sleep", "returned", "exited"}

Listening == mpc \in {"check", "accept", "sleep"}
Served    == {c \in Clients : conn[c] \in {"reading", "working"}}

TypeOK ==
  /\ watched \in BOOLEAN
  /\ backlog \in Seq(Clients)
  /\ conn \in [Clients -> ConnStates]
  /\ pending \in [Clients -> BOOLEAN]
  /\ gone \in [Clients -> BOOLEAN]
  /\ requests \in [Clients -> 0..MaxRequests]
  /\ mpc \in MainStates
  /\ exit \in {"none", "ok", "panic"}
  /\ exit = "none" <=> mpc # "exited"
  /\ flag \in BOOLEAN
  /\ signal \in {"none", "pending", "taken"}
  /\ late \in Nat

\* TcpListener::bind has succeeded; a failure ends the process at once.
Init ==
  /\ watched \in BOOLEAN
  /\ backlog = <<>>
  /\ conn = [c \in Clients |-> "idle"]
  /\ pending = [c \in Clients |-> FALSE]
  /\ gone = [c \in Clients |-> FALSE]
  /\ requests = [c \in Clients |-> 0]
  /\ mpc = "check" /\ exit = "none"
  /\ flag = FALSE /\ signal = "none" /\ late = 0

-----------------------------------------------------------------------------
(* Clients and the operator. *)

Connect(c) ==
  /\ Listening /\ conn[c] = "idle"
  /\ backlog' = Append(backlog, c)
  /\ conn' = [conn EXCEPT ![c] = "queued"]
  /\ pending' = [pending EXCEPT ![c] = FALSE]
  /\ gone' = [gone EXCEPT ![c] = FALSE]
  /\ requests' = [requests EXCEPT ![c] = 0]
  /\ UNCHANGED <<mpc, exit, stopVars>>

Send(c) ==
  /\ conn[c] \in {"queued", "reading"}
  /\ ~gone[c] /\ ~pending[c] /\ requests[c] < MaxRequests
  /\ pending' = [pending EXCEPT ![c] = TRUE]
  /\ requests' = [requests EXCEPT ![c] = @ + 1]
  /\ UNCHANGED <<backlog, conn, gone, mpc, exit, stopVars>>

Leave(c) ==
  /\ conn[c] \in {"queued", "reading", "working"} /\ ~gone[c]
  /\ gone' = [gone EXCEPT ![c] = TRUE]
  /\ UNCHANGED <<backlog, conn, pending, requests, mpc, exit, stopVars>>

Kill ==
  /\ watched /\ signal = "none" /\ mpc # "exited"
  /\ signal' = "pending"
  /\ UNCHANGED <<watched, backlog, conn, clientVars, mpc, exit, flag, late>>

-----------------------------------------------------------------------------
(* The signal thread: it takes one signal, sets the flag and ends.  Both   *)
(* signals stay blocked in every thread, so a second one does nothing.     *)

SigWait ==
  /\ signal = "pending" /\ mpc # "exited"
  /\ signal' = "taken"
  /\ flag' = TRUE
  /\ UNCHANGED <<watched, backlog, conn, clientVars, mpc, exit, late>>

-----------------------------------------------------------------------------
(* The main thread. *)

Refuse(f) == [c \in Clients |-> IF f[c] = "queued" THEN "refused" ELSE f[c]]
Cut(f)    == [c \in Clients |-> IF f[c] \in {"reading", "working"} THEN "cut"
                                ELSE f[c]]

\* On the way out the listener is dropped, and its backlog with it.
CheckFlag ==
  /\ mpc = "check"
  /\ \/ /\ watched /\ flag
        /\ mpc' = "returned"
        /\ backlog' = <<>>
        /\ conn' = Refuse(conn)
     \/ /\ ~(watched /\ flag)
        /\ mpc' = "accept"
        /\ UNCHANGED <<backlog, conn>>
  /\ UNCHANGED <<clientVars, exit, stopVars>>

\* Mutant: accept is called again, until it would block, before the flag is
\* looked at.
AcceptMut ==
  /\ mpc = "accept" /\ backlog # <<>>
  /\ Cardinality(Served) < MaxFds
  /\ backlog' = Tail(backlog)
  /\ conn' = [conn EXCEPT ![Head(backlog)] = "reading"]
  /\ late' = IF flag THEN late + 1 ELSE late
  /\ UNCHANGED <<watched, clientVars, mpc, exit, flag, signal>>

\* accept returns a stream and a thread is spawned for it.
Accept ==
  /\ mpc = "accept" /\ backlog # <<>>
  /\ Cardinality(Served) < MaxFds
  /\ backlog' = Tail(backlog)
  /\ conn' = [conn EXCEPT ![Head(backlog)] = "reading"]
  /\ late' = IF flag THEN late + 1 ELSE late
  /\ mpc' = "check"
  /\ UNCHANGED <<watched, clientVars, exit, flag, signal>>

\* Mutant: the panic is recorded and the loop goes on.
SpawnPanicMut ==
  /\ mpc = "accept" /\ backlog # <<>>
  /\ Cardinality(Served) < MaxFds
  /\ mpc' = "check" /\ exit' = "panic"
  /\ UNCHANGED <<backlog, conn, clientVars, stopVars>>

\* thread::spawn panics when the system refuses a thread, which it may at any
\* time.  In vlmcsd the main thread unwinds and the process ends at once, with
\* no cleanup_pid_file; in the library only the accept loop is gone.
SpawnPanic ==
  /\ mpc = "accept" /\ backlog # <<>> /\ Cardinality(Served) < MaxFds
  /\ backlog' = <<>>
  /\ conn' = IF watched THEN Cut(Refuse(conn)) ELSE Refuse(conn)
  /\ mpc' = "exited" /\ exit' = "panic"
  /\ UNCHANGED <<clientVars, stopVars>>

\* Mutant: a failed accept loses the connection it was called for.
AcceptErrorMut ==
  /\ mpc = "accept" /\ Cardinality(Served) >= MaxFds /\ backlog # <<>>
  /\ mpc' = "check"
  /\ backlog' = Tail(backlog)
  /\ UNCHANGED <<conn, clientVars, exit, stopVars>>

\* Without a descriptor accept fails whatever the backlog holds; the error is
\* logged and the loop goes round without a pause.
AcceptError ==
  /\ mpc = "accept" /\ Cardinality(Served) >= MaxFds
  /\ mpc' = "check"
  /\ UNCHANGED <<backlog, conn, clientVars, exit, stopVars>>

\* Mutant: after the pause accept is retried without a look at the flag.
WouldBlockMut ==
  /\ mpc = "accept" /\ backlog = <<>> /\ Cardinality(Served) < MaxFds
  /\ watched
  /\ UNCHANGED vars

\* Only a listener that watches a flag is non-blocking.
WouldBlock ==
  /\ mpc = "accept" /\ backlog = <<>> /\ Cardinality(Served) < MaxFds
  /\ watched
  /\ mpc' = "sleep"
  /\ UNCHANGED <<backlog, conn, clientVars, exit, stopVars>>

Wake ==
  /\ mpc = "sleep"
  /\ mpc' = "check"
  /\ UNCHANGED <<backlog, conn, clientVars, exit, stopVars>>

\* main returns: no handler is joined, the process ends with all of them.
ProcessExit ==
  /\ mpc = "returned"
  /\ mpc' = "exited" /\ exit' = "ok"
  /\ conn' = Cut(conn)
  /\ UNCHANGED <<backlog, clientVars, stopVars>>

Main == CheckFlag \/ Accept \/ SpawnPanic \/ AcceptError \/ WouldBlock
        \/ Wake \/ ProcessExit

-----------------------------------------------------------------------------
(* Handler threads: handle_client around rpc_server. *)

ReadRequest(c) ==
  /\ conn[c] = "reading" /\ pending[c]
  /\ pending' = [pending EXCEPT ![c] = FALSE]
  /\ conn' = [conn EXCEPT ![c] = "working"]
  /\ UNCHANGED <<backlog, gone, requests, mpc, exit, stopVars>>

\* The answer is written, or the request is refused or panics the thread.
Finish(c) ==
  /\ conn[c] = "working"
  /\ \/ conn' = [conn EXCEPT ![c] = "reading"]
     \/ conn' = [conn EXCEPT ![c] = "idle"]
  /\ UNCHANGED <<backlog, clientVars, mpc, exit, stopVars>>

\* Mutant: no timeout is set on the stream.
HangUpMut(c) ==
  /\ conn[c] = "reading" /\ ~pending[c]
  /\ gone[c]
  /\ conn' = [conn EXCEPT ![c] = "idle"]
  /\ UNCHANGED <<backlog, clientVars, mpc, exit, stopVars>>

\* End of file, or nothing to read until the timeout.
HangUp(c) ==
  /\ conn[c] = "reading" /\ ~pending[c]
  /\ gone[c] \/ TimeoutSecs > 0
  /\ conn' = [conn EXCEPT ![c] = "idle"]
  /\ UNCHANGED <<backlog, clientVars, mpc, exit, stopVars>>

Handler(c) == ReadRequest(c) \/ Finish(c) \/ HangUp(c)

Exited == mpc = "exited" /\ UNCHANGED vars

Next ==
  \/ \E c \in Clients : Connect(c) \/ Send(c) \/ Leave(c) \/ Handler(c)
  \/ Kill \/ SigWait \/ Main \/ Exited

Spec == Init /\ [][Next]_vars

\* The main and signal threads are scheduled, their sleeps end, and so do the
\* handlers and their timers.  Nothing is asked of clients or the operator.
Fairness ==
  /\ WF_vars(Main) /\ WF_vars(SigWait)
  /\ \A c \in Clients : WF_vars(Handler(c))

FairSpec == Spec /\ Fairness

-----------------------------------------------------------------------------
(* Properties. *)

\* A connection is in the backlog exactly once while it waits, and a client
\* whose connection nobody waits on is not in it: accept neither loses nor
\* duplicates a connection, also when descriptors run out.
BacklogOnce ==
  /\ \A i, j \in DOMAIN backlog : backlog[i] = backlog[j] => i = j
  /\ \A c \in Clients :
       conn[c] = "queued" <=> \E i \in DOMAIN backlog : backlog[i] = c

\* The flag is read before accept and may be set between the two: then one
\* more connection is taken, and never a second.
OneLateAccept == late <= 1

\* A signal ends the process although connections stay open, silent clients
\* hold every descriptor, and new clients keep arriving.
SignalEndsProcess == signal = "pending" ~> mpc = "exited"

\* A waiting connection is taken up, or refused by a server that ends, however
\* many clients hold their connections in silence: read timeouts give the
\* descriptors back.
WaitingIsServed ==
  \A c \in Clients : conn[c] = "queued" ~> conn[c] # "queued"

\* Shutdown is graceful: a request whose handling has begun is not cut off.
NoRequestCut ==
  [][\A c \in Clients : conn[c] = "working" => conn'[c] # "cut"]_vars
=============================================================================

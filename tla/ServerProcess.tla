--------------------------- MODULE ServerProcess ---------------------------
(***************************************************************************)
(* The life of vlmcsd processes on one machine, from the command line to   *)
(* the exit status (main in crates/vlmcsd-server/src/main.rs): daemonize,  *)
(* write the PID file, block the signals and start the thread that waits   *)
(* for them, bind, serve, remove the PID file.  All instances are started  *)
(* with the same -L and -p, as by an init script that is run again; an     *)
(* operator signals whatever process the PID file names.                   *)
(*                                                                         *)
(* The accept loop is NetworkServer; here it is the state "serve", which   *)
(* ends when the flag is set or when the main thread panics.               *)
(***************************************************************************)
EXTENDS Integers

CONSTANT Procs       \* starts of the program; each runs at most once

NoProc == "nobody"
NoPid  == <<NoProc, 0>>

ASSUME ProcessAssumption == NoProc \notin Procs

VARIABLES
  solo,      \* instances are started one at a time, as by a supervisor
  daemon,    \* -D is given
  writable,  \* the PID file can be opened and written
  pc,        \* main of each instance: see PcValues
  gen,       \* forks it has gone through: its process id is <<p, gen[p]>>
  blocked,   \* SIGINT and SIGTERM are blocked and the signal thread runs
  sig,       \* a signal is pending for it
  flag,      \* its shutdown flag
  pidfile,   \* the process id in the PID file; NoPid: there is none, or it is empty
  opened,    \* instances that have opened the file which has that name
  port       \* the instance that listens, or NoProc

setup == <<solo, daemon, writable>>
vars  == <<setup, pc, gen, blocked, sig, flag, pidfile, opened, port>>

Pid(p) == <<p, gen[p]>>

Running == {"fork1", "fork2", "pid", "write", "mask", "bind", "serve",
            "returned", "failed"}
\* Returned from main, exit(1), exit(1) from a failed fork, the default action
\* of a signal, SIGKILL or a panic of the main thread.
Over     == {"done", "exit1", "nofork", "terminated", "crashed"}
PcValues == {"new"} \cup Running \cup Over

Alive(p) == pc[p] \in Running

TypeOK ==
  /\ {solo, daemon, writable} \subseteq BOOLEAN
  /\ pc \in [Procs -> PcValues]
  /\ gen \in [Procs -> 0..2]
  /\ blocked \in [Procs -> BOOLEAN]
  /\ sig \in [Procs -> BOOLEAN]
  /\ flag \in [Procs -> BOOLEAN]
  /\ pidfile \in (Procs \X (0..2)) \cup {NoPid}
  /\ opened \subseteq Procs
  /\ port \in Procs \cup {NoProc}
  /\ \A p \in Procs : /\ pc[p] = "serve" <=> port = p
                      /\ pc[p] \in {"new", "fork1"} => gen[p] = 0
                      /\ pc[p] = "fork2" => gen[p] = 1

Init ==
  /\ solo \in BOOLEAN /\ daemon \in BOOLEAN /\ writable \in BOOLEAN
  /\ pc = [p \in Procs |-> "new"]
  /\ gen = [p \in Procs |-> 0]
  /\ blocked = [p \in Procs |-> FALSE]
  /\ sig = [p \in Procs |-> FALSE]
  /\ flag = [p \in Procs |-> FALSE]
  /\ pidfile = NoPid /\ opened = {} /\ port = NoProc

-----------------------------------------------------------------------------
(* main, in the order of its statements. *)

Start(p) ==
  /\ pc[p] = "new"
  /\ solo => \A q \in Procs : ~Alive(q)
  /\ pc' = [pc EXCEPT ![p] = IF daemon THEN "fork1" ELSE "pid"]
  /\ UNCHANGED <<setup, gen, blocked, sig, flag, pidfile, opened, port>>

\* daemonize_process: the parent of each fork exits with status 0, and the
\* child goes on under a new process id.
Fork(p) ==
  /\ pc[p] \in {"fork1", "fork2"}
  /\ \/ /\ gen' = [gen EXCEPT ![p] = @ + 1]
        /\ pc' = [pc EXCEPT ![p] = IF @ = "fork1" THEN "fork2" ELSE "pid"]
     \/ /\ pc' = [pc EXCEPT ![p] = "nofork"]
        /\ UNCHANGED gen
  /\ UNCHANGED <<setup, blocked, sig, flag, pidfile, opened, port>>

\* write_pid_file.  fs::write empties the file, or makes it, and then writes;
\* a failure of either is only a warning.
OpenPid(p) ==
  /\ pc[p] = "pid"
  /\ \/ /\ pidfile' = NoPid
        /\ opened' = opened \cup {p}
        /\ pc' = [pc EXCEPT ![p] = "write"]
     \/ /\ ~writable
        /\ pc' = [pc EXCEPT ![p] = "mask"]
        /\ UNCHANGED <<pidfile, opened>>
  /\ UNCHANGED <<setup, gen, blocked, sig, flag, port>>

\* Mutant: the id written is that of the process the command started.
WritePidMut(p) ==
  /\ pc[p] = "write"
  /\ pidfile' = IF writable /\ p \in opened THEN <<p, 0>> ELSE pidfile
  /\ opened' = opened \ {p}
  /\ pc' = [pc EXCEPT ![p] = "mask"]
  /\ UNCHANGED <<setup, gen, blocked, sig, flag, port>>

\* What is written to a file that has been removed meanwhile is seen by nobody.
WritePid(p) ==
  /\ pc[p] = "write"
  /\ pidfile' = IF writable /\ p \in opened THEN Pid(p) ELSE pidfile
  /\ opened' = opened \ {p}
  /\ pc' = [pc EXCEPT ![p] = "mask"]
  /\ UNCHANGED <<setup, gen, blocked, sig, flag, port>>

\* Mutant: the thread is started and the signals are not blocked.
InstallHandlersMut(p) ==
  /\ pc[p] = "mask"
  /\ pc' = [pc EXCEPT ![p] = "bind"]
  /\ UNCHANGED <<setup, gen, blocked, sig, flag, pidfile, opened, port>>

InstallHandlers(p) ==
  /\ pc[p] = "mask"
  /\ blocked' = [blocked EXCEPT ![p] = TRUE]
  /\ pc' = [pc EXCEPT ![p] = "bind"]
  /\ UNCHANGED <<setup, gen, sig, flag, pidfile, opened, port>>

\* The bind, or set_nonblocking after it, fails for a port that is taken or
\* for any other reason.
Bind(p) ==
  /\ pc[p] = "bind"
  /\ \/ /\ port = NoProc
        /\ port' = p
        /\ pc' = [pc EXCEPT ![p] = "serve"]
     \/ /\ pc' = [pc EXCEPT ![p] = "failed"]
        /\ UNCHANGED port
  /\ UNCHANGED <<setup, gen, blocked, sig, flag, pidfile, opened>>

\* Mutant: the listener outlives the accept loop.
StopServingMut(p) ==
  /\ pc[p] = "serve" /\ flag[p]
  /\ pc' = [pc EXCEPT ![p] = "returned"]
  /\ UNCHANGED <<setup, gen, blocked, sig, flag, pidfile, opened, port>>

\* run_server_with_shutdown returns Ok and drops its listener.
StopServing(p) ==
  /\ pc[p] = "serve" /\ flag[p]
  /\ pc' = [pc EXCEPT ![p] = "returned"]
  /\ port' = NoProc
  /\ UNCHANGED <<setup, gen, blocked, sig, flag, pidfile, opened>>

\* Mutant: the failure path exits without cleanup_pid_file.
CleanupMut(p) ==
  /\ pc[p] \in {"returned", "failed"}
  /\ pc' = [pc EXCEPT ![p] = IF @ = "returned" THEN "done" ELSE "exit1"]
  /\ pidfile' = IF pc[p] = "returned" THEN NoPid ELSE pidfile
  /\ opened' = IF pc[p] = "returned" THEN {} ELSE opened
  /\ UNCHANGED <<setup, gen, blocked, sig, flag, port>>

\* cleanup_pid_file removes the file, whoever it names, and the process ends.
Cleanup(p) ==
  /\ pc[p] \in {"returned", "failed"}
  /\ pc' = [pc EXCEPT ![p] = IF @ = "returned" THEN "done" ELSE "exit1"]
  /\ pidfile' = NoPid /\ opened' = {}
  /\ UNCHANGED <<setup, gen, blocked, sig, flag, port>>

\* Mutant: the signal thread takes the signal and does not set the flag.
SigWaitMut(p) ==
  /\ Alive(p) /\ blocked[p] /\ sig[p]
  /\ sig' = [sig EXCEPT ![p] = FALSE]
  /\ UNCHANGED <<setup, pc, gen, blocked, flag, pidfile, opened, port>>

\* The signal thread: the first signal sets the flag and ends the thread.
SigWait(p) ==
  /\ Alive(p) /\ blocked[p] /\ sig[p] /\ ~flag[p]
  /\ flag' = [flag EXCEPT ![p] = TRUE]
  /\ sig' = [sig EXCEPT ![p] = FALSE]
  /\ UNCHANGED <<setup, pc, gen, blocked, pidfile, opened, port>>

-----------------------------------------------------------------------------
(* The operator and the machine. *)

\* kill $(cat file), once per instance: before the signals are blocked the
\* default action ends the process on the spot.
Kill(p) ==
  /\ Alive(p) /\ pidfile = Pid(p) /\ ~sig[p] /\ ~flag[p]
  /\ \/ /\ blocked[p]
        /\ sig' = [sig EXCEPT ![p] = TRUE]
        /\ UNCHANGED <<setup, pc, opened, port>>
     \/ /\ ~blocked[p]
        /\ pc' = [pc EXCEPT ![p] = "terminated"]
        /\ opened' = opened \ {p}
        /\ port' = IF port = p THEN NoProc ELSE port
        /\ UNCHANGED sig
  /\ UNCHANGED <<setup, gen, blocked, flag, pidfile>>

\* SIGKILL, a power cut, or a panic of the main thread.
Crash(p) ==
  /\ Alive(p)
  /\ pc' = [pc EXCEPT ![p] = "crashed"]
  /\ opened' = opened \ {p}
  /\ port' = IF port = p THEN NoProc ELSE port
  /\ UNCHANGED <<setup, gen, blocked, sig, flag, pidfile>>

Main(p) ==
  \/ Fork(p) \/ OpenPid(p) \/ WritePid(p) \/ InstallHandlers(p) \/ Bind(p)
  \/ StopServing(p) \/ Cleanup(p)

\* Nothing runs any more.
Quiet == (\A p \in Procs : ~Alive(p)) /\ UNCHANGED vars

Next ==
  \/ \E p \in Procs : Start(p) \/ Main(p) \/ SigWait(p) \/ Kill(p) \/ Crash(p)
  \/ Quiet

Spec == Init /\ [][Next]_vars

\* The processes are scheduled; nobody has to start, signal or crash one.
FairSpec ==
  /\ Spec
  /\ \A p \in Procs : WF_vars(Main(p)) /\ WF_vars(SigWait(p))

-----------------------------------------------------------------------------
(* Properties. *)

\* While an instance listens the PID file, if it can be written, names it.
PidNamesServer ==
  writable => \A p \in Procs : port = p => pidfile = Pid(p)

\* An instance that is alone on the machine can be signalled through the PID
\* file for as long as it listens, also after earlier instances have crashed
\* and left their file behind.
SolePidNamesServer == solo => PidNamesServer

\* An instance that exits by its own code leaves no PID file that names it.
NoStalePid ==
  \A p \in Procs : pc[p] \in {"done", "exit1", "nofork"} => pidfile # Pid(p)

\* From the bind on, SIGTERM never kills: the process goes through its cleanup.
ServingIsGraceful ==
  [][\A p \in Procs : pc[p] \in {"bind", "serve", "returned", "failed"}
                        => pc'[p] # "terminated"]_vars

\* A signal the process holds ends it, whatever other instances do.
SignalEnds == \A p \in Procs : sig[p] ~> pc[p] \in Over

=============================================================================

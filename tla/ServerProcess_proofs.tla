------------------------ MODULE ServerProcess_proofs ------------------------
(***************************************************************************)
(* Proofs about ServerProcess, for any number of starts: type correctness, *)
(* no PID file left behind by an instance that exits by itself, and, with  *)
(* one instance at a time, a PID file that always names the server.  And   *)
(* from the bind on no signal but SIGKILL ends a process on the spot.      *)
(***************************************************************************)
EXTENDS ServerProcess, TLAPS

LEMMA InitType == Init => TypeOK
<1> SUFFICES ASSUME Init PROVE TypeOK
  OBVIOUS
<1>1. \A p \in Procs : /\ pc[p] = "serve" <=> port = p
                       /\ pc[p] = "new" /\ gen[p] = 0
  BY ProcessAssumption DEF Init
<1>2. pc \in [Procs -> PcValues] /\ gen \in [Procs -> 0..2]
  BY DEF Init, PcValues
<1>3. /\ blocked \in [Procs -> BOOLEAN]
      /\ sig \in [Procs -> BOOLEAN]
      /\ flag \in [Procs -> BOOLEAN]
  BY DEF Init
<1> QED
  BY <1>1, <1>2, <1>3 DEF Init, TypeOK

LEMMA NextType == TypeOK /\ [Next]_vars => TypeOK'
<1> SUFFICES ASSUME TypeOK, [Next]_vars PROVE TypeOK'
  OBVIOUS
<1> USE ProcessAssumption DEF TypeOK, PcValues, Running, Over, setup
<1>1. ASSUME NEW p \in Procs, Start(p) PROVE TypeOK'
  <2>1. PICK s \in {"fork1", "pid"} : pc' = [pc EXCEPT ![p] = s]
    BY <1>1 DEF Start
  <2> QED
    BY <1>1, <2>1 DEF Start
<1>2. ASSUME NEW p \in Procs, Fork(p) PROVE TypeOK'
  <2>1. CASE UNCHANGED gen /\ pc' = [pc EXCEPT ![p] = "nofork"]
    BY <1>2, <2>1 DEF Fork
  <2>2. CASE /\ gen' = [gen EXCEPT ![p] = @ + 1]
             /\ pc' = [pc EXCEPT ![p] = IF @ = "fork1" THEN "fork2" ELSE "pid"]
    <3>1. \/ pc[p] = "fork1" /\ gen[p] = 0 /\ gen'[p] = 1 /\ pc'[p] = "fork2"
          \/ pc[p] = "fork2" /\ gen[p] = 1 /\ gen'[p] = 2 /\ pc'[p] = "pid"
      <4>1. pc[p] = "fork1" \/ pc[p] = "fork2"
        BY <1>2 DEF Fork
      <4>2. gen'[p] = gen[p] + 1
        BY <2>2
      <4>3. CASE pc[p] = "fork1"
        <5>1. pc'[p] = "fork2"
          BY <2>2, <4>3
        <5>2. gen[p] = 0
          BY <4>3
        <5> QED
          BY <4>2, <4>3, <5>1, <5>2
      <4>4. CASE pc[p] = "fork2"
        <5>1. pc'[p] = "pid"
          BY <2>2, <4>4
        <5>2. gen[p] = 1
          BY <4>4
        <5> QED
          BY <4>2, <4>4, <5>1, <5>2
      <4> QED
        BY <4>1, <4>3, <4>4
    <3>2. gen' \in [Procs -> 0..2]
      BY <2>2, <3>1
    <3> QED
      BY <1>2, <2>2, <3>1, <3>2 DEF Fork
  <2> QED
    BY <1>2, <2>1, <2>2 DEF Fork
<1>3. ASSUME NEW p \in Procs, OpenPid(p) \/ WritePid(p) PROVE TypeOK'
  <2>1. CASE OpenPid(p)
    BY <1>3, <2>1 DEF OpenPid, NoPid
  <2>2. CASE WritePid(p)
    BY <1>3, <2>2 DEF WritePid, Pid
  <2> QED
    BY <1>3, <2>1, <2>2
<1>4. ASSUME NEW p \in Procs, InstallHandlers(p) PROVE TypeOK'
  BY <1>4 DEF InstallHandlers
<1>5. ASSUME NEW p \in Procs, Bind(p) PROVE TypeOK'
  BY <1>5 DEF Bind
<1>6. ASSUME NEW p \in Procs, StopServing(p) PROVE TypeOK'
  BY <1>6 DEF StopServing
<1>7. ASSUME NEW p \in Procs, Cleanup(p) PROVE TypeOK'
  BY <1>7 DEF Cleanup
<1>8. ASSUME NEW p \in Procs, SigWait(p) PROVE TypeOK'
  BY <1>8 DEF SigWait
<1>9. ASSUME NEW p \in Procs, Kill(p) PROVE TypeOK'
  BY <1>9 DEF Kill, Alive
<1>10. ASSUME NEW p \in Procs, Crash(p) PROVE TypeOK'
  BY <1>10 DEF Crash, Alive
<1>11. CASE UNCHANGED vars
  BY <1>11 DEF vars
<1> QED
  BY <1>1, <1>2, <1>3, <1>4, <1>5, <1>6, <1>7, <1>8, <1>9, <1>10, <1>11
  DEF Next, Main, Quiet

\* Every variable keeps its type, and an instance serves exactly when the
\* port is its own.
THEOREM ProcessType == Spec => []TypeOK
  BY InitType, NextType, PTL DEF Spec

-----------------------------------------------------------------------------
(* No stale PID file. *)

\* The file can name an instance only between its write and its cleanup, or
\* after it was stopped from outside.
FileInv ==
  \A p \in Procs :
     pc[p] \in {"new", "fork1", "fork2", "pid", "write", "nofork", "done", "exit1"}
       => pidfile[1] # p

LEMMA FileInit == Init => FileInv
  BY ProcessAssumption DEF Init, FileInv, NoPid

LEMMA FileNext ==
  ASSUME TypeOK, FileInv, [Next]_vars
  PROVE  FileInv'
<1> USE ProcessAssumption DEF TypeOK, FileInv, NoPid
<1>1. ASSUME NEW p \in Procs, Start(p) PROVE FileInv'
  BY <1>1 DEF Start
<1>2. ASSUME NEW p \in Procs, Fork(p) PROVE FileInv'
  BY <1>2 DEF Fork
<1>0. ASSUME NEW p \in Procs, OpenPid(p) PROVE FileInv'
  BY <1>0 DEF OpenPid
<1>3. ASSUME NEW p \in Procs, WritePid(p) PROVE FileInv'
  <2>1. pc[p] = "write" /\ pc' = [pc EXCEPT ![p] = "mask"]
    BY <1>3 DEF WritePid
  <2>2. pidfile'[1] = p \/ pidfile' = pidfile
    BY <1>3 DEF WritePid, Pid
  <2> QED
    BY <2>1, <2>2
<1>4. ASSUME NEW p \in Procs, InstallHandlers(p) \/ Bind(p) \/ StopServing(p)
      PROVE  FileInv'
  BY <1>4 DEF InstallHandlers, Bind, StopServing
<1>5. ASSUME NEW p \in Procs, Cleanup(p) PROVE FileInv'
  BY <1>5 DEF Cleanup
<1>6. ASSUME NEW p \in Procs, SigWait(p) \/ Kill(p) \/ Crash(p) PROVE FileInv'
  BY <1>6 DEF SigWait, Kill, Crash
<1>7. CASE UNCHANGED vars
  BY <1>7 DEF vars
<1> QED
  BY <1>0, <1>1, <1>2, <1>3, <1>4, <1>5, <1>6, <1>7 DEF Next, Main, Quiet

\* An instance that returns from main or exits through a failure path never
\* leaves a PID file that names it, with any number of instances around it
\* that overwrite and remove the same file.
THEOREM NoPidLeftBehind == Spec => []NoStalePid
<1>1. FileInv => NoStalePid
  BY DEF FileInv, NoStalePid, Pid
<1>2. TypeOK /\ FileInv /\ [Next]_vars => FileInv'
  BY FileNext
<1> QED
  BY <1>1, <1>2, FileInit, ProcessType, PTL DEF Spec

-----------------------------------------------------------------------------
(* One instance at a time: the PID file names the server. *)

\* At most one instance is alive; nobody removes the file between its open and
\* its write, and from its write on the file is its own.
Alone ==
  /\ \A p, q \in Procs : Alive(p) /\ Alive(q) => p = q
  /\ \A p \in Procs : pc[p] = "write" => p \in opened
  /\ \A p \in Procs :
        writable /\ pc[p] \in {"mask", "bind", "serve"} => pidfile = Pid(p)

AloneInv == solo => Alone

LEMMA AloneInit == Init => AloneInv
  BY DEF Init, AloneInv, Alone, Alive, Running

LEMMA SetupKept == [Next]_vars => setup' = setup
<1> SUFFICES ASSUME Next PROVE setup' = setup
  BY DEF vars
<1>1. ASSUME NEW p \in Procs, Start(p) \/ SigWait(p) \/ Kill(p) \/ Crash(p)
      PROVE  setup' = setup
  BY <1>1 DEF Start, SigWait, Kill, Crash
<1>2. ASSUME NEW p \in Procs, Main(p) PROVE setup' = setup
  BY <1>2 DEF Main, Fork, OpenPid, WritePid, InstallHandlers, Bind, StopServing, Cleanup
<1> QED
  BY <1>1, <1>2 DEF Next, Quiet, vars

LEMMA AloneNext ==
  ASSUME TypeOK, AloneInv, [Next]_vars
  PROVE  AloneInv'
<1>0. solo' = solo /\ writable' = writable
  BY SetupKept DEF setup
<1> SUFFICES ASSUME solo, Alone PROVE Alone'
  BY <1>0 DEF AloneInv
<1> USE <1>0 DEF TypeOK, Alone, Alive, Running
<1>1. ASSUME NEW p \in Procs, Start(p) PROVE Alone'
  <2>1. \A q \in Procs : pc[q] \notin Running
    BY <1>1 DEF Start
  <2> QED
    BY <1>1, <2>1 DEF Start
<1>2. ASSUME NEW p \in Procs, Fork(p) PROVE Alone'
  BY <1>2 DEF Fork, Pid
<1>3. ASSUME NEW p \in Procs, WritePid(p) PROVE Alone'
  <2>1. /\ pc[p] = "write" /\ pc' = [pc EXCEPT ![p] = "mask"] /\ gen' = gen
        /\ opened' = opened \ {p}
    BY <1>3 DEF WritePid
  <2>2. writable => pidfile' = Pid(p)
    BY <1>3, <2>1 DEF WritePid
  <2> QED
    BY <2>1, <2>2 DEF Pid
<1>4. ASSUME NEW p \in Procs, InstallHandlers(p) \/ Bind(p) \/ StopServing(p)
      PROVE  Alone'
  BY <1>4 DEF InstallHandlers, Bind, StopServing, Pid
<1>5. ASSUME NEW p \in Procs, Cleanup(p) PROVE Alone'
  BY <1>5 DEF Cleanup, Pid
<1>6. ASSUME NEW p \in Procs, SigWait(p) \/ Kill(p) \/ Crash(p)
      PROVE  Alone'
  BY <1>6 DEF SigWait, Kill, Crash, Pid
<1>7. CASE UNCHANGED vars
  BY <1>7 DEF vars, Pid
<1>8. ASSUME NEW p \in Procs, OpenPid(p) PROVE Alone'
  BY <1>8 DEF OpenPid, Pid
<1> QED
  BY <1>1, <1>2, <1>3, <1>4, <1>5, <1>6, <1>7, <1>8 DEF Next, Main, Quiet

\* When instances do not overlap, every server can be signalled through its
\* PID file for as long as it listens, whatever crashes came before it.
THEOREM PidFileNamesServer == Spec => []SolePidNamesServer
<1>1. TypeOK /\ AloneInv => SolePidNamesServer
  <2> SUFFICES ASSUME TypeOK, Alone, writable, NEW p \in Procs, port = p
               PROVE  pidfile = Pid(p)
    BY DEF SolePidNamesServer, PidNamesServer, AloneInv
  <2>1. pc[p] = "serve"
    BY DEF TypeOK
  <2> QED
    BY <2>1 DEF Alone
<1>2. TypeOK /\ AloneInv /\ [Next]_vars => AloneInv'
  BY AloneNext
<1> QED
  BY <1>1, <1>2, AloneInit, ProcessType, PTL DEF Spec

-----------------------------------------------------------------------------
(* Signals from the bind on. *)

\* The signals are blocked before the bind and nothing unblocks them.
MaskInv ==
  \A p \in Procs :
     pc[p] \in {"bind", "serve", "returned", "failed"} => blocked[p]

LEMMA MaskInit == Init => MaskInv
  BY DEF Init, MaskInv

LEMMA MaskNext ==
  ASSUME TypeOK, MaskInv, [Next]_vars
  PROVE  MaskInv'
<1> USE DEF TypeOK, MaskInv
<1>1. ASSUME NEW p \in Procs, Start(p) PROVE MaskInv'
  BY <1>1 DEF Start
<1>2. ASSUME NEW p \in Procs, Fork(p) PROVE MaskInv'
  BY <1>2 DEF Fork
<1>3. ASSUME NEW p \in Procs, OpenPid(p) \/ WritePid(p) PROVE MaskInv'
  BY <1>3 DEF OpenPid, WritePid
<1>4. ASSUME NEW p \in Procs, InstallHandlers(p) PROVE MaskInv'
  BY <1>4 DEF InstallHandlers
<1>5. ASSUME NEW p \in Procs, Bind(p) \/ StopServing(p) \/ Cleanup(p)
      PROVE  MaskInv'
  BY <1>5 DEF Bind, StopServing, Cleanup
<1>6. ASSUME NEW p \in Procs, SigWait(p) \/ Kill(p) \/ Crash(p)
      PROVE  MaskInv'
  BY <1>6 DEF SigWait, Kill, Crash
<1>7. CASE UNCHANGED vars
  BY <1>7 DEF vars
<1> QED
  BY <1>1, <1>2, <1>3, <1>4, <1>5, <1>6, <1>7 DEF Next, Main, Quiet

\* A step that ends a process by the default action of a signal ends one that
\* has not blocked them.
LEMMA OnlyUnmasked ==
  ASSUME TypeOK, MaskInv, [Next]_vars, NEW p \in Procs,
         pc[p] \in {"bind", "serve", "returned", "failed"}
  PROVE  pc'[p] # "terminated"
<1> USE DEF TypeOK, MaskInv
<1>1. ASSUME NEW q \in Procs, Start(q) \/ Fork(q) \/ OpenPid(q) \/ WritePid(q)
                                \/ InstallHandlers(q)
      PROVE  pc'[p] # "terminated"
  BY <1>1 DEF Start, Fork, OpenPid, WritePid, InstallHandlers
<1>2. ASSUME NEW q \in Procs, Bind(q) \/ StopServing(q) \/ Cleanup(q)
      PROVE  pc'[p] # "terminated"
  BY <1>2 DEF Bind, StopServing, Cleanup
<1>3. ASSUME NEW q \in Procs, SigWait(q) \/ Kill(q) \/ Crash(q)
      PROVE  pc'[p] # "terminated"
  BY <1>3 DEF SigWait, Kill, Crash
<1>4. CASE UNCHANGED vars
  BY <1>4 DEF vars
<1> QED
  BY <1>1, <1>2, <1>3, <1>4 DEF Next, Main, Quiet

\* From the bind on SIGTERM is never fatal, so that every server that is told
\* to stop goes through its cleanup, with any number of instances around it.
THEOREM ServerStopsGracefully == Spec => ServingIsGraceful
<1> DEFINE Step == \A p \in Procs :
                     pc[p] \in {"bind", "serve", "returned", "failed"}
                       => pc'[p] # "terminated"
<1>1. TypeOK /\ MaskInv /\ [Next]_vars => [Step]_vars
  BY OnlyUnmasked
<1>2. TypeOK /\ MaskInv /\ [Next]_vars => MaskInv'
  BY MaskNext
<1> QED
  BY <1>1, <1>2, MaskInit, ProcessType, PTL DEF Spec, ServingIsGraceful
=============================================================================

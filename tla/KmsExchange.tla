---------------------------- MODULE KmsExchange ----------------------------
(***************************************************************************)
(* A run of the vlmcs client (main in crates/vlmcsd-client/src/main.rs,    *)
(* rpc_bind_client and rpc_send_request in rpc_client.rs): one connection, *)
(* one bind, then n requests one after the other on the same stream.       *)
(*                                                                         *)
(* The server keeps the promise of RpcService: it answers in order until   *)
(* it closes.  PDU 0 is the bind and PDU i the i-th request; an answer is  *)
(* two chunks, since the client blocks once for the header and once for    *)
(* the rest.  A chunk in "stream" has been written and may still be on its *)
(* way, so a read may time out whatever the stream holds.                  *)
(*                                                                         *)
(* Nothing in an answer ties it to its request: every request carries call *)
(* id 2 and the client does not compare it, nor anything inside the KMS    *)
(* answer.  Which request an answer belongs to, and whether the stream was *)
(* left inside one, is known to the model only.                            *)
(***************************************************************************)
EXTENDS Integers, Sequences

CONSTANTS
  MaxRequests,    \* bound: the largest -n
  TimeoutSecs,    \* -t; 0 makes set_*_timeout fail, so no timeout is in force
  OtherServer     \* the server may refuse a request, as vlmcsd does not do

ASSUME ExchangeAssumption ==
  /\ MaxRequests \in Nat
  /\ TimeoutSecs \in Nat
  /\ OtherServer \in BOOLEAN

Failed  == -1
Garbage == MaxRequests + 1       \* bytes from the middle of something

VARIABLES
  n,           \* config.n_requests
  cpc,         \* the client: see ClientStates
  cur,         \* the request being sent or waited for
  got,         \* whose answer's header has been read
  in_step,     \* history: the stream was never left inside an answer (the model
               \* tells a header from other bytes by it; the client cannot)
  results,     \* per request done: the answer printed as its success, or Failed
  inbox,       \* PDUs the server has not read
  stream,      \* chunks the server has written and the client not read
  up           \* the server's end of the connection is open

clientVars == <<n, cpc, cur, got, in_step, results>>
vars == <<n, cpc, cur, got, in_step, results, inbox, stream, up>>

ClientStates == {"bind", "bind_hdr", "bind_body", "send", "hdr", "body",
                 "done", "exit1", "panic"}
Gone == cpc \in {"done", "exit1", "panic"}

\* An answer and a refusal, whose DataSizeMax is 0, are responses; a bind is
\* acknowledged; a fault is a PDU of any other packet type.
Kinds     == {"ack", "answer", "refusal", "fault"}
Responses == {"answer", "refusal"}
KindsOf(i) ==
  CASE i = 0 /\ OtherServer  -> {"ack", "fault"}
    [] i = 0 /\ ~OtherServer -> {"ack"}
    [] i > 0 /\ OtherServer  -> {"answer", "refusal", "fault"}
    [] i > 0 /\ ~OtherServer -> {"answer"}
Chunks == [part : {"hdr", "body"}, of : 0..MaxRequests, kind : Kinds]

TypeOK ==
  /\ n \in 0..MaxRequests
  /\ cpc \in ClientStates
  /\ cur \in 0..n
  /\ got \in 0..Garbage
  /\ in_step \in BOOLEAN
  /\ results \in Seq(Failed..Garbage)
  /\ Len(results) = cur - (IF cpc \in {"hdr", "body", "panic"} THEN 1 ELSE 0)
  /\ inbox \in Seq(0..n)
  /\ stream \in Seq(Chunks)
  /\ up \in BOOLEAN

\* TcpStream::connect has succeeded.
Init ==
  /\ n \in 0..MaxRequests
  /\ cpc = "bind" /\ cur = 0 /\ got = 0 /\ in_step = TRUE
  /\ results = <<>> /\ inbox = <<>> /\ stream = <<>> /\ up = TRUE

-----------------------------------------------------------------------------
(* The server. *)

Answer(i, kind) ==
  <<[part |-> "hdr", of |-> i, kind |-> kind],
    [part |-> "body", of |-> i, kind |-> kind]>>

ServerAnswer ==
  /\ up /\ inbox # <<>>
  /\ \E kind \in KindsOf(Head(inbox)) : stream' = stream \o Answer(Head(inbox), kind)
  /\ inbox' = Tail(inbox)
  /\ UNCHANGED <<clientVars, up>>

\* An error, a timeout or the end of the process; a reset takes what the
\* client has not received.
ServerClose ==
  /\ up /\ ~Gone
  /\ up' = FALSE
  /\ inbox' = <<>>
  /\ \E k \in 0..Len(stream) : stream' = SubSeq(stream, 1, k)
  /\ UNCHANGED clientVars

-----------------------------------------------------------------------------
(* The client: rpc_bind_client.  Any error is fatal. *)

\* A write reaches a server that is up; to one that is not, the first write
\* succeeds and a later one fails.
Write(i) ==
  IF up THEN inbox' = Append(inbox, i) ELSE UNCHANGED inbox

EndOfStream == stream = <<>> /\ ~up

BindSend ==
  /\ cpc = "bind"
  /\ Write(0)
  /\ \/ cpc' = "bind_hdr"
     \/ ~up /\ cpc' = "exit1"
  /\ UNCHANGED <<n, cur, got, in_step, results, stream, up>>

\* The packet type and, here only, the call id are checked.
BindHeader ==
  /\ cpc = "bind_hdr"
  /\ \/ /\ stream # <<>>
        /\ stream' = Tail(stream)
        /\ cpc' = IF Head(stream).kind = "ack" THEN "bind_body" ELSE "exit1"
     \/ /\ EndOfStream
        /\ cpc' = "exit1"
        /\ UNCHANGED stream
  /\ UNCHANGED <<n, cur, got, in_step, results, inbox, up>>

\* The acknowledgement is read and not looked at.
BindBody ==
  /\ cpc = "bind_body"
  /\ \/ /\ stream # <<>>
        /\ stream' = Tail(stream)
        /\ cpc' = "send"
     \/ /\ EndOfStream
        /\ cpc' = "exit1"
        /\ UNCHANGED stream
  /\ UNCHANGED <<n, cur, got, in_step, results, inbox, up>>

-----------------------------------------------------------------------------
(* The client: the loop of main around rpc_send_request. *)

\* Mutant: the loop goes on to its end, which is exit status 0.
FailRequestMut ==
  /\ results' = Append(results, Failed)
  /\ cpc' = "send"

\* Err: with a single request the client exits with status 1, otherwise it
\* goes on to the next one.
FailRequest ==
  /\ results' = Append(results, Failed)
  /\ cpc' = IF n = 1 THEN "exit1" ELSE "send"

SendRequest ==
  /\ cpc = "send" /\ cur < n
  /\ cur' = cur + 1
  /\ Write(cur + 1)
  /\ \/ cpc' = "hdr" /\ UNCHANGED results
     \/ ~up /\ FailRequest
  /\ UNCHANGED <<n, got, in_step, stream, up>>

Exit ==
  /\ cpc = "send" /\ cur = n
  /\ cpc' = "done"
  /\ UNCHANGED <<n, cur, got, in_step, results, inbox, stream, up>>

\* Mutant: a packet that is no response is passed over, but not its body.
ReadHeaderMut ==
  /\ cpc = "hdr" /\ in_step
  /\ \/ /\ stream # <<>> /\ Head(stream).kind \in Responses
        /\ stream' = Tail(stream)
        /\ got' = Head(stream).of
        /\ cpc' = "body"
        /\ UNCHANGED <<in_step, results>>
     \/ /\ stream # <<>> /\ Head(stream).kind \notin Responses
        /\ stream' = Tail(stream)
        /\ in_step' = FALSE
        /\ UNCHANGED <<cpc, got, results>>
     \/ /\ EndOfStream
        /\ FailRequest
        /\ UNCHANGED <<got, in_step, stream>>
  /\ UNCHANGED <<n, cur, inbox, up>>

\* A packet that is no response is an error, and its body stays unread.
ReadHeader ==
  /\ cpc = "hdr" /\ in_step
  /\ \/ /\ stream # <<>> /\ Head(stream).kind \in Responses
        /\ stream' = Tail(stream)
        /\ got' = Head(stream).of
        /\ cpc' = "body"
        /\ UNCHANGED <<in_step, results>>
     \/ /\ stream # <<>> /\ Head(stream).kind \notin Responses
        /\ stream' = Tail(stream)
        /\ in_step' = FALSE
        /\ FailRequest
        /\ UNCHANGED got
     \/ /\ EndOfStream
        /\ FailRequest
        /\ UNCHANGED <<got, in_step, stream>>
  /\ UNCHANGED <<n, cur, inbox, up>>

\* Mutant: a response is taken from its header and the body left behind.
ReadBodyMut ==
  /\ cpc = "body" /\ got # Garbage
  /\ stream # <<>>
  /\ results' = Append(results, got)
  /\ cpc' = "send"
  /\ UNCHANGED <<n, cur, got, in_step, inbox, stream, up>>

\* A refusal is read to its end before it is turned into an error.
ReadBody ==
  /\ cpc = "body" /\ got # Garbage
  /\ \/ /\ stream # <<>> /\ Head(stream).kind = "answer"
        /\ stream' = Tail(stream)
        /\ results' = Append(results, got)
        /\ cpc' = "send"
     \/ /\ stream # <<>> /\ Head(stream).kind # "answer"
        /\ stream' = Tail(stream)
        /\ FailRequest
     \/ /\ EndOfStream
        /\ FailRequest
        /\ UNCHANGED stream
  /\ UNCHANGED <<n, cur, got, in_step, inbox, up>>

\* Out of step, 16 bytes from inside an answer are taken for a header: an
\* error as a rule, or a length below 16, which panics, or a plausible header
\* and then a body that may even parse.  What is read is left open.
ReadGarbage ==
  /\ \/ /\ cpc = "hdr" /\ ~in_step
        /\ \/ FailRequest /\ UNCHANGED got
           \/ cpc' = "panic" /\ UNCHANGED <<got, results>>
           \/ cpc' = "body" /\ got' = Garbage /\ UNCHANGED results
     \/ /\ cpc = "body" /\ got = Garbage
        /\ \/ FailRequest
           \/ results' = Append(results, Garbage) /\ cpc' = "send"
        /\ UNCHANGED got
  /\ UNCHANGED <<n, cur, in_step, inbox, stream, up>>

\* Mutant: a timeout ends the wait for a header only.
TimeoutMut ==
  /\ TimeoutSecs > 0
  /\ cpc = "hdr"
  /\ FailRequest
  /\ UNCHANGED <<n, cur, got, in_step, inbox, stream, up>>

\* read_exact gives up.  What it has read by then is lost: nothing or part of
\* a header, or a header and part of what follows it.
Timeout ==
  /\ TimeoutSecs > 0
  /\ \/ /\ cpc \in {"bind_hdr", "bind_body"}
        /\ cpc' = "exit1"
        /\ UNCHANGED <<in_step, results>>
     \/ /\ cpc = "hdr"
        /\ FailRequest
        /\ \/ UNCHANGED in_step
           \/ stream # <<>> /\ in_step' = FALSE
     \/ /\ cpc = "body"
        /\ FailRequest
        /\ in_step' = FALSE
  /\ UNCHANGED <<n, cur, got, inbox, stream, up>>

Client == \/ BindSend \/ BindHeader \/ BindBody \/ SendRequest \/ Exit
          \/ ReadHeader \/ ReadBody \/ ReadGarbage \/ Timeout

\* A server may go on waiting for a client that is gone.
Finished == Gone /\ UNCHANGED vars

Next == ServerAnswer \/ ServerClose \/ Client \/ Finished

Spec == Init /\ [][Next]_vars

\* The client runs, and so do its timers; nothing is asked of the server.
FairSpec == Spec /\ WF_vars(Client)

-----------------------------------------------------------------------------
(* Properties. *)

\* After a timeout the client prints the late answer of one request as the
\* success of another.  Still no answer is taken twice, they come in order,
\* and none comes before its request.
AnswersInOrder ==
  \A i \in DOMAIN results :
     results[i] \notin {Failed, Garbage} =>
        /\ results[i] \in 1..i
        /\ \A j \in 1..(i - 1) : results[j] < results[i]

\* Up to the first failure it prints, the client prints each request's own answer:
\* an answer of another request, or bytes from inside one, are taken for a success
\* only behind a failure that the user has seen.
OwnUntilFailure ==
  \A i \in DOMAIN results :
     (\A j \in 1..i : results[j] # Failed) => results[i] = i

\* The exit status of a run with one request: 0 means that this request was answered,
\* whether or not process_response could read the answer.
HonestExit == (cpc = "done" /\ n = 1) => results = <<1>>

\* Whatever the server does or stops doing, the client comes to an end.
ClientEnds == <>Gone
=============================================================================

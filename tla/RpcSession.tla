----------------------------- MODULE RpcSession -----------------------------
(***************************************************************************)
(* One TCP connection of the KMS server: the handler thread that runs      *)
(* rpc_server (crates/vlmcsd-rpc/src/lib.rs) and the peer at the other end *)
(* of the stream.                                                          *)
(*                                                                         *)
(* The stream to the server is a sequence of chunks: the 16-byte header of *)
(* a PDU and, separately, the rest of it, since the code blocks once for   *)
(* each and the peer may fall silent or go away between them.  A fragment  *)
(* of a chunk is not told apart from none of it: read_exact gives the same *)
(* result for both at end of file, at a reset and at a timeout.            *)
(*                                                                         *)
(* The peer encodes its requests as a correct DCE client does, by the last *)
(* acknowledgement it has read; everything else about it is free: what it  *)
(* offers, how it cuts its PDUs, whether it waits, reads, closes, resets.  *)
(***************************************************************************)
EXTENDS RpcBind

CONSTANTS
  CtxIds,          \* presentation context ids the peer uses
  CallIds,         \* call ids the peer uses
  Offers,          \* sequences of context items the peer may offer
  KmsBodies,       \* KMS requests the peer may send
  Forms,           \* how a PDU is cut: see AllForms
  MaxPdus,         \* bound: PDUs one peer sends
  Window,          \* bound: PDUs sent and not yet answered (1 = lockstep)
  SendBuffer,      \* replies the socket holds for a peer that does not read
  TimeoutSecs,     \* ServerConfig.timeout; 0 makes set_*_timeout fail
  OverflowChecks   \* TRUE in a debug build, FALSE in a release build

\* frag_length below the header's own 16 bytes, exactly 16, a body too short
\* for its handler, a body as long as it has to be.
AllForms == {"under", "bare", "short", "full"}

\* What handle_request and the KMS layer tell apart in a request: its major
\* version, whether it has that version's full length, and whether a number
\* computed from it leaves its width: N_Policy of 2^31 or more, which doubles
\* past 32 bits, or in version 6 a client time whose slot is past 64 bits.
AllKmsBodies == [ver : Nat, long : BOOLEAN, wide : BOOLEAN]

ASSUME SessionAssumption ==
  /\ CtxIds \subseteq Nat
  /\ Offers \subseteq Seq(CtxItem(CtxIds))
  /\ KmsBodies \subseteq AllKmsBodies
  /\ Forms \subseteq AllForms
  /\ MaxPdus \in Nat
  /\ Window \in Nat \ {0}
  /\ SendBuffer \in Nat \ {0}
  /\ TimeoutSecs \in Nat
  /\ OverflowChecks \in BOOLEAN

Encodings == {"ndr32", "ndr64"}
NoKms     == [ver |-> 0, long |-> FALSE, wide |-> FALSE]

Pdus ==
  [type : {"bind", "alter"}, call : CallIds, form : Forms,
   items : Offers, ctx : {0}, enc : {"none"}, kms : {NoKms}]
  \cup
  [type : {"request"}, call : CallIds, form : Forms,
   items : {<<>>}, ctx : CtxIds, enc : Encodings, kms : KmsBodies]
  \cup
  [type : {"other"}, call : CallIds, form : Forms,
   items : {<<>>}, ctx : {0}, enc : {"none"}, kms : {NoKms}]

NoPdu == [type |-> "none"]

AnswerType(t) == CASE t = "bind"    -> "bind_ack"
                   [] t = "alter"   -> "alter_ack"
                   [] t = "request" -> "response"
                   [] OTHER         -> "none"

Replies ==
  [type : {"bind_ack", "alter_ack"}, call : CallIds, acc : SUBSET CtxIds,
   syn : {"none", "ndr32", "ndr64"}, ctx : {0}, garbled : {FALSE}]
  \cup
  [type : {"response"}, call : CallIds, acc : {{}},
   syn : Encodings, ctx : CtxIds, garbled : BOOLEAN]

NoReply == [type |-> "none"]

VARIABLES
  wire,       \* chunks in flight to the server
  half,       \* the PDU whose header has been sent and whose body has not
  peer,       \* "open", "closed" (end of file sent) or "reset"
  sent,       \* number of PDUs the peer has begun
  pc,         \* where the handler is: see PcValues
  hdr,        \* header: the PDU being handled
  reply,      \* out: the PDU being written
  ndr_ctx,
  ndr64_ctx,
  consumed,   \* history: the PDUs read completely
  replies,    \* history: the PDUs written
  nread       \* how many replies the peer has read

handlerVars == <<pc, hdr, reply, ndr_ctx, ndr64_ctx, consumed, replies>>
peerVars    == <<half, peer, sent, nread>>
vars        == <<wire, half, peer, sent, pc, hdr, reply, ndr_ctx, ndr64_ctx,
                 consumed, replies, nread>>

\* The last three are the results of rpc_server: Ok, Err, and a panic, which
\* ends the thread.
PcValues == {"header", "payload", "dispatch", "write", "ok", "error", "panic"}
Ended    == pc \in {"ok", "error", "panic"}

Chunks == [part : {"hdr", "body"}, pdu : Pdus]

TypeOK ==
  /\ wire \in Seq(Chunks)
  /\ half \in Pdus \cup {NoPdu}
  /\ peer \in {"open", "closed", "reset"}
  /\ sent \in 0..MaxPdus
  /\ pc \in PcValues
  /\ hdr \in Pdus \cup {NoPdu}
  /\ pc \in {"payload", "dispatch", "write"} => hdr \in Pdus
  /\ reply \in Replies \cup {NoReply}
  /\ pc = "write" <=> reply \in Replies
  /\ ndr_ctx \in CtxIds \cup {RPC_INVALID_CTX}
  /\ ndr64_ctx \in CtxIds \cup {RPC_INVALID_CTX}
  /\ consumed \in Seq(Pdus)
  /\ replies \in Seq(Replies)
  /\ nread \in 0..Len(replies)

\* Of the first n replies, the last that accepts context c names syntax s.
AckedIn(n, c, s) ==
  \E i \in 1..n : /\ c \in replies[i].acc
                  /\ replies[i].syn = s
                  /\ \A j \in (i + 1)..n : c \notin replies[j].acc

\* The syntax a correct client uses for context c: the one acknowledged, as
\* far as it has read, or NDR32 for a context nothing was said about.
PeerSyntax(c) == IF AckedIn(nread, c, "ndr64") THEN "ndr64" ELSE "ndr32"

-----------------------------------------------------------------------------
(* The peer. *)

Init ==
  /\ wire = <<>> /\ half = NoPdu /\ peer = "open" /\ sent = 0
  /\ pc = "header" /\ hdr = NoPdu /\ reply = NoReply
  /\ ndr_ctx = RPC_INVALID_CTX /\ ndr64_ctx = RPC_INVALID_CTX
  /\ consumed = <<>> /\ replies = <<>> /\ nread = 0

NewPdus ==
  {p \in Pdus : p.type = "request" => p.enc = PeerSyntax(p.ctx)}

PeerSendHeader ==
  /\ peer = "open" /\ ~Ended /\ half = NoPdu
  /\ sent < MaxPdus /\ sent - nread < Window
  /\ \E p \in NewPdus :
        /\ wire' = Append(wire, [part |-> "hdr", pdu |-> p])
        /\ half' = IF p.form \in {"under", "bare"} THEN NoPdu ELSE p
  /\ sent' = sent + 1
  /\ UNCHANGED <<peer, nread, handlerVars>>

PeerSendBody ==
  /\ peer = "open" /\ ~Ended /\ half # NoPdu
  /\ wire' = Append(wire, [part |-> "body", pdu |-> half])
  /\ half' = NoPdu
  /\ UNCHANGED <<peer, sent, nread, handlerVars>>

PeerRead ==
  /\ peer # "reset"
  /\ nread < Len(replies)
  /\ nread' = nread + 1
  /\ UNCHANGED <<wire, half, peer, sent, handlerVars>>

PeerClose ==
  /\ peer = "open" /\ ~Ended
  /\ peer' = "closed"
  /\ UNCHANGED <<wire, half, sent, nread, handlerVars>>

\* A reset throws away what the server has not read yet.
PeerReset ==
  /\ peer # "reset" /\ ~Ended
  /\ peer' = "reset"
  /\ wire' = <<>>
  /\ UNCHANGED <<half, sent, nread, handlerVars>>

-----------------------------------------------------------------------------
(* The handler thread: rpc_server. *)

\* RpcHeader::read_from: end of file is a normal end, also inside a header.
ReadHeader ==
  /\ pc = "header"
  /\ \/ /\ wire # <<>>
        /\ hdr' = Head(wire).pdu
        /\ wire' = Tail(wire)
        /\ pc' = "payload"
     \/ /\ wire = <<>> /\ peer = "closed"
        /\ pc' = "ok"
        /\ UNCHANGED <<hdr, wire>>
     \/ /\ wire = <<>> /\ peer = "reset"
        /\ pc' = "error"
        /\ UNCHANGED <<hdr, wire>>
  /\ UNCHANGED <<peerVars, reply, ndr_ctx, ndr64_ctx, consumed, replies>>

\* frag_length - 16 and read_exact.  Below 16 the subtraction panics in a
\* debug build, and in a release build the wrapped length cannot be allocated.
ReadPayload ==
  /\ pc = "payload"
  /\ \/ /\ hdr.form = "under"
        /\ pc' = "panic"
        /\ UNCHANGED <<wire, consumed>>
     \/ /\ hdr.form = "bare"
        /\ pc' = "dispatch"
        /\ consumed' = Append(consumed, hdr)
        /\ UNCHANGED wire
     \/ /\ hdr.form \in {"short", "full"} /\ wire # <<>>
        /\ pc' = "dispatch"
        /\ consumed' = Append(consumed, hdr)
        /\ wire' = Tail(wire)
     \/ /\ hdr.form \in {"short", "full"} /\ wire = <<>> /\ peer # "open"
        /\ pc' = "error"
        /\ UNCHANGED <<wire, consumed>>
  /\ UNCHANGED <<peerVars, hdr, reply, ndr_ctx, ndr64_ctx, replies>>

BindReply(p) ==
  [type |-> AnswerType(p.type), call |-> p.call, acc |-> AcceptedIds(p.items),
   syn |-> AcceptedSyntax(p.items), ctx |-> 0, garbled |-> FALSE]

\* Mutant: a malformed bind ends the session as if the peer had closed it.
HandleBindMut ==
  /\ pc = "dispatch" /\ hdr.type \in {"bind", "alter"}
  /\ hdr.form # "full"
  /\ pc' = "ok"
  /\ UNCHANGED <<wire, peerVars, hdr, reply, ndr_ctx, ndr64_ctx, consumed,
                 replies>>

HandleBind ==
  /\ pc = "dispatch" /\ hdr.type \in {"bind", "alter"}
  /\ \/ /\ hdr.form # "full"
        /\ pc' = "error"
        /\ UNCHANGED <<reply, ndr_ctx, ndr64_ctx>>
     \/ /\ hdr.form = "full"
        /\ ndr_ctx' \in LastOf(hdr.items, AcceptedNdr32(hdr.items), ndr_ctx)
        /\ ndr64_ctx' \in LastOf(hdr.items, AcceptedNdr64(hdr.items), ndr64_ctx)
        /\ reply' = BindReply(hdr)
        /\ pc' = "write"
  /\ UNCHANGED <<wire, peerVars, hdr, consumed, replies>>

\* The results of create_response_v4/v6 on a body found where it was put: a
\* product that leaves its width is minded by a debug build only.
KmsResults(b) ==
  CASE b.ver \notin {4, 5, 6} \/ ~b.long -> {"error"}
    [] b.ver \in {4, 5, 6} /\ b.long /\ b.wide /\ OverflowChecks -> {"panic"}
    [] OTHER -> {"reply"}

\* A body read at the other syntax's offset.  An NDR64 stub read as NDR32
\* starts with its own length, whose upper half is no version.  An NDR32 stub
\* read as NDR64 starts 8 bytes into the body: the licence state of a v4
\* request, which is no version, or random bytes of a v5/v6 IV, which may be.
MisreadResults(p) ==
  IF p.enc = "ndr32" /\ p.kms.ver \in {5, 6}
  THEN {"error", "garbled"} \cup IF OverflowChecks THEN {"panic"} ELSE {}
  ELSE {"error"}

RequestResults(p, syntax) ==
  CASE p.form # "full"                    -> {"error"}
    [] p.form = "full" /\ p.enc = syntax  -> KmsResults(p.kms)
    [] OTHER                              -> MisreadResults(p)

Response(p, syntax, result) ==
  [type |-> AnswerType(p.type), call |-> p.call, acc |-> {}, syn |-> syntax,
   ctx |-> p.ctx, garbled |-> result = "garbled"]

HandleRequest ==
  /\ pc = "dispatch" /\ hdr.type = "request"
  /\ LET syntax == DecodedAs(hdr.ctx, ndr64_ctx)
     IN  \E r \in RequestResults(hdr, syntax) :
           \/ /\ r \in {"error", "panic"}
              /\ pc' = r
              /\ UNCHANGED reply
           \/ /\ r \in {"reply", "garbled"}
              /\ pc' = "write"
              /\ reply' = Response(hdr, syntax, r)
  /\ UNCHANGED <<wire, peerVars, hdr, ndr_ctx, ndr64_ctx, consumed, replies>>

\* Mutant: an unknown packet is skipped and the session goes on.
HandleOtherMut ==
  /\ pc = "dispatch" /\ hdr.type = "other"
  /\ pc' = "header"
  /\ UNCHANGED <<wire, peerVars, hdr, reply, ndr_ctx, ndr64_ctx, consumed,
                 replies>>

\* Any other packet type ends the session as if the peer had closed it.
HandleOther ==
  /\ pc = "dispatch" /\ hdr.type = "other"
  /\ pc' = "ok"
  /\ UNCHANGED <<wire, peerVars, hdr, reply, ndr_ctx, ndr64_ctx, consumed,
                 replies>>

\* Mutant: a reply that cannot be written stays behind.
WriteReplyMut ==
  /\ pc = "write"
  /\ \/ /\ peer # "reset" /\ Len(replies) - nread < SendBuffer
        /\ replies' = Append(replies, reply)
        /\ pc' = "header"
        /\ reply' = NoReply
     \/ /\ peer = "reset"
        /\ pc' = "error"
        /\ UNCHANGED <<replies, reply>>
  /\ UNCHANGED <<wire, peerVars, hdr, ndr_ctx, ndr64_ctx, consumed>>

\* write_all blocks while the socket's buffer is full of unread replies.
WriteReply ==
  /\ pc = "write"
  /\ \/ /\ peer # "reset" /\ Len(replies) - nread < SendBuffer
        /\ replies' = Append(replies, reply)
        /\ pc' = "header"
     \/ /\ peer = "reset"
        /\ pc' = "error"
        /\ UNCHANGED replies
  /\ reply' = NoReply
  /\ UNCHANGED <<wire, peerVars, hdr, ndr_ctx, ndr64_ctx, consumed>>

\* Mutant: only the read timeout is set.
TimeoutMut ==
  /\ TimeoutSecs > 0
  /\ pc \in {"header", "payload"} /\ wire = <<>> /\ peer = "open"
  /\ pc' = "error"
  /\ UNCHANGED <<wire, peerVars, hdr, reply, ndr_ctx, ndr64_ctx, consumed,
                 replies>>

\* handle_client sets both timeouts before the session; Duration zero is
\* refused by the standard library, the refusal is ignored, and no timeout
\* is in force.
Timeout ==
  /\ TimeoutSecs > 0
  /\ \/ /\ pc = "header" \/ (pc = "payload" /\ hdr.form \in {"short", "full"})
        /\ wire = <<>> /\ peer = "open"
     \/ /\ pc = "write"
        /\ peer # "reset" /\ Len(replies) - nread >= SendBuffer
  /\ pc' = "error"
  /\ reply' = NoReply
  /\ UNCHANGED <<wire, peerVars, hdr, ndr_ctx, ndr64_ctx, consumed, replies>>

\* The thread has returned and the stream is dropped.
Finished == Ended /\ UNCHANGED vars

Peer    == PeerSendHeader \/ PeerSendBody \/ PeerRead \/ PeerClose \/ PeerReset
Handler == \/ ReadHeader \/ ReadPayload \/ HandleBind \/ HandleRequest
           \/ HandleOther \/ WriteReply \/ Timeout

Next == Peer \/ Handler \/ Finished

Spec == Init /\ [][Next]_vars

\* The operating system runs the thread and its timers; nothing obliges the
\* peer to do anything.
FairSpec == Spec /\ WF_vars(Handler)

-----------------------------------------------------------------------------
(* Properties. *)

\* A request is decoded in the syntax that the server's last acknowledgement
\* of its context id named: what rpc_server remembers in ndr64_ctx across any
\* sequence of bind and alter-context requests never disagrees with what
\* handle_bind told the peer.
DecodeAgrees ==
  (pc = "dispatch" /\ hdr.type = "request") =>
     \A s \in Encodings :
        AckedIn(Len(replies), hdr.ctx, s) => DecodedAs(hdr.ctx, ndr64_ctx) = s

\* A client that waits for every answer and encodes as acknowledged is never
\* answered from bytes read at the other syntax's offset.
NoGarbledReply == \A k \in DOMAIN replies : ~replies[k].garbled

\* rpc_server returns Ok, which handle_client does not report, only when every
\* PDU it read has been answered or the last of them is of a type it ignores:
\* a refused or half-read PDU is always reported as an error.
NoSilentDrop ==
  pc = "ok" => /\ Len(consumed) - Len(replies) \in {0, 1}
               /\ Len(replies) < Len(consumed)
                     => consumed[Len(consumed)].type = "other"
               /\ wire = <<>> \/ Len(replies) < Len(consumed)

\* An acknowledgement of an offer that holds the KMS interface under a syntax
\* the server speaks accepts it.
AcceptsIfPossible ==
  \A k \in DOMAIN replies :
     (replies[k].type \in {"bind_ack", "alter_ack"} /\ replies[k].acc = {}) =>
        \A i \in DOMAIN consumed[k].items :
           LET it == consumed[k].items[i]
           IN  ~(it.ours /\ it.syn \in Encodings)

\* The session keeps the promise of RpcService: answers in order, one per
\* PDU, with the type and the call id of what they answer.
Service == INSTANCE RpcService WITH
  Types    <- {"bind", "alter", "request"},
  asked    <- [i \in DOMAIN consumed |-> <<consumed[i].type, consumed[i].call>>],
  answered <- [i \in DOMAIN replies |-> <<replies[i].type, replies[i].call>>],
  open     <- ~Ended

ServiceSpec == Service!Spec

\* Whatever the peer does, and when it stops doing anything, the handler
\* thread and its socket are released.
SessionEnds == <>Ended
=============================================================================

------------------------- MODULE RpcSession_proofs -------------------------
(***************************************************************************)
(* Proofs about RpcSession: type correctness, agreement of the decoding    *)
(* with the negotiation when one context id is set apart for NDR64, no     *)
(* silent drop, the refinement of RpcService, acceptance of what can be    *)
(* accepted, and no misreading of a peer that waits for its answers.       *)
(***************************************************************************)
EXTENDS RpcSession, SequenceTheorems, TLAPS

\* The context ids of an offer are ids the peer uses.
LEMMA OfferIds ==
  ASSUME NEW o \in Offers
  PROVE  \A i \in DOMAIN o : o[i] \in CtxItem(CtxIds) /\ o[i].ctx \in CtxIds
<1>1. o \in Seq(CtxItem(CtxIds))
  BY SessionAssumption
<1>2. ASSUME NEW i \in DOMAIN o PROVE o[i] \in CtxItem(CtxIds)
  BY <1>1
<1>3. ASSUME NEW i \in DOMAIN o PROVE o[i].ctx \in CtxIds
  BY <1>2 DEF CtxItem
<1> QED
  BY <1>2, <1>3

\* What AcceptedIds can contain: ids of items of the offer.
LEMMA AcceptedIdsType ==
  ASSUME NEW o \in Offers
  PROVE  AcceptedIds(o) \in SUBSET CtxIds
  BY OfferIds DEF AcceptedIds, AcceptedNdr32, AcceptedNdr64

\* A context variable only ever takes its old value or an id of the offer.
LEMMA LastOfType ==
  ASSUME NEW o \in Offers, NEW A \in SUBSET DOMAIN o,
         NEW old, NEW new \in LastOf(o, A, old)
  PROVE  new = old \/ new \in CtxIds
  BY OfferIds DEF LastOf

LEMMA BindReplyType ==
  ASSUME NEW p \in Pdus, p.type \in {"bind", "alter"}
  PROVE  BindReply(p) \in Replies
<1>1. p.items \in Offers /\ p.call \in CallIds
  BY DEF Pdus
<1>2. AcceptedIds(p.items) \in SUBSET CtxIds
  BY <1>1, AcceptedIdsType
<1>3. AcceptedSyntax(p.items) \in {"none", "ndr32", "ndr64"}
  BY DEF AcceptedSyntax
<1>4. AnswerType(p.type) \in {"bind_ack", "alter_ack"}
  BY DEF AnswerType
<1> QED
  BY <1>1, <1>2, <1>3, <1>4 DEF BindReply, Replies

LEMMA ResponseType ==
  ASSUME NEW p \in Pdus, p.type = "request", NEW s \in Encodings, NEW r
  PROVE  Response(p, s, r) \in Replies
<1>1. p.ctx \in CtxIds /\ p.call \in CallIds
  BY DEF Pdus
<1>2. AnswerType(p.type) = "response"
  BY DEF AnswerType
<1> QED
  BY <1>1, <1>2 DEF Response, Replies

\* Neither filler value is a PDU or a reply.
LEMMA Fillers == NoPdu \notin Pdus /\ NoReply \notin Replies
  BY DEF NoPdu, NoReply, Pdus, Replies

LEMMA InitType == Init => TypeOK
<1> SUFFICES ASSUME Init PROVE TypeOK
  OBVIOUS
<1> USE DEF Init
<1>1. sent \in 0..MaxPdus /\ nread \in 0..Len(replies)
  BY SessionAssumption DEF SessionAssumption
<1>2. pc = "write" <=> reply \in Replies
  BY Fillers
<1> QED
  BY <1>1, <1>2 DEF TypeOK, PcValues

LEMMA NextType == TypeOK /\ [Next]_vars => TypeOK'
<1> SUFFICES ASSUME TypeOK, [Next]_vars PROVE TypeOK'
  OBVIOUS
<1> USE Fillers DEF TypeOK, PcValues, handlerVars, peerVars
<1>1. CASE PeerSendHeader
  <2>1. PICK p \in Pdus : /\ wire' = Append(wire, [part |-> "hdr", pdu |-> p])
                          /\ half' = IF p.form \in {"under", "bare"}
                                     THEN NoPdu ELSE p
    BY <1>1 DEF PeerSendHeader, NewPdus
  <2>2. [part |-> "hdr", pdu |-> p] \in Chunks
    BY DEF Chunks
  <2>3. wire' \in Seq(Chunks)
    BY <2>1, <2>2
  <2>4. half' \in Pdus \cup {NoPdu}
    BY <2>1
  <2>5. sent' \in 0..MaxPdus
    BY <1>1, SessionAssumption DEF PeerSendHeader, SessionAssumption
  <2> QED
    BY <1>1, <2>3, <2>4, <2>5 DEF PeerSendHeader
<1>2. CASE PeerSendBody
  <2>1. [part |-> "body", pdu |-> half] \in Chunks
    BY <1>2 DEF PeerSendBody, Chunks
  <2>2. wire' \in Seq(Chunks)
    BY <1>2, <2>1 DEF PeerSendBody
  <2> QED
    BY <1>2, <2>2 DEF PeerSendBody
<1>3. CASE PeerRead
  BY <1>3 DEF PeerRead
<1>4. CASE PeerClose
  BY <1>4 DEF PeerClose
<1>5. CASE PeerReset
  BY <1>5 DEF PeerReset
<1>6. CASE ReadHeader
  <2>1. CASE wire # <<>> /\ hdr' = Head(wire).pdu /\ wire' = Tail(wire)
             /\ pc' = "payload"
    <3>1. Head(wire) \in Chunks /\ wire' \in Seq(Chunks)
      BY <2>1
    <3>2. hdr' \in Pdus
      BY <2>1, <3>1 DEF Chunks
    <3> QED
      BY <1>6, <2>1, <3>1, <3>2 DEF ReadHeader
  <2>2. CASE pc' \in {"ok", "error"} /\ UNCHANGED <<hdr, wire>>
    BY <1>6, <2>2 DEF ReadHeader
  <2> QED
    BY <1>6, <2>1, <2>2 DEF ReadHeader
<1>7. CASE ReadPayload
  <2>1. hdr \in Pdus
    BY <1>7 DEF ReadPayload
  <2>2. Append(consumed, hdr) \in Seq(Pdus)
    BY <2>1
  <2>3. consumed' \in Seq(Pdus)
    BY <1>7, <2>2 DEF ReadPayload
  <2>4. wire # <<>> => Tail(wire) \in Seq(Chunks)
    OBVIOUS
  <2>5. wire' \in Seq(Chunks)
    BY <1>7, <2>4 DEF ReadPayload
  <2> QED
    BY <1>7, <2>1, <2>3, <2>5 DEF ReadPayload
<1>8. CASE HandleBind
  <2>1. CASE pc' = "error" /\ UNCHANGED <<reply, ndr_ctx, ndr64_ctx>>
    BY <1>8, <2>1 DEF HandleBind
  <2>2. CASE /\ ndr_ctx' \in LastOf(hdr.items, AcceptedNdr32(hdr.items), ndr_ctx)
             /\ ndr64_ctx' \in LastOf(hdr.items, AcceptedNdr64(hdr.items), ndr64_ctx)
             /\ reply' = BindReply(hdr)
             /\ pc' = "write"
    <3>1. hdr \in Pdus /\ hdr.type \in {"bind", "alter"}
      BY <1>8 DEF HandleBind
    <3>2. hdr.items \in Offers
      BY <3>1 DEF Pdus
    <3>3. reply' \in Replies
      BY <2>2, <3>1, BindReplyType
    <3>4. AcceptedNdr32(hdr.items) \in SUBSET DOMAIN hdr.items
          /\ AcceptedNdr64(hdr.items) \in SUBSET DOMAIN hdr.items
      BY DEF AcceptedNdr32, AcceptedNdr64
    <3>5. ndr_ctx' = ndr_ctx \/ ndr_ctx' \in CtxIds
      BY <2>2, <3>2, <3>4, LastOfType
    <3>6. ndr64_ctx' = ndr64_ctx \/ ndr64_ctx' \in CtxIds
      BY <2>2, <3>2, <3>4, LastOfType
    <3> QED
      BY <1>8, <2>2, <3>1, <3>3, <3>5, <3>6 DEF HandleBind
  <2> QED
    BY <1>8, <2>1, <2>2 DEF HandleBind
<1>9. CASE HandleRequest
  <2> DEFINE syntax == DecodedAs(hdr.ctx, ndr64_ctx)
  <2>1. CASE pc' \in {"error", "panic"} /\ UNCHANGED reply
    BY <1>9, <2>1 DEF HandleRequest
  <2>2. CASE pc' = "write" /\ \E r : reply' = Response(hdr, syntax, r)
    <3>1. hdr \in Pdus /\ hdr.type = "request"
      BY <1>9 DEF HandleRequest
    <3>2. syntax \in Encodings
      BY DEF DecodedAs, Encodings
    <3>3. reply' \in Replies
      BY <2>2, <3>1, <3>2, ResponseType
    <3> QED
      BY <1>9, <2>2, <3>1, <3>3 DEF HandleRequest
  <2> QED
    BY <1>9, <2>1, <2>2 DEF HandleRequest
<1>10. CASE HandleOther
  BY <1>10 DEF HandleOther
<1>11. CASE WriteReply
  <2>0. reply \in Replies
    BY <1>11 DEF WriteReply
  <2>1. replies' \in Seq(Replies) /\ Len(replies') >= Len(replies)
    <3>1. Append(replies, reply) \in Seq(Replies)
      BY <2>0
    <3>2. Len(Append(replies, reply)) = Len(replies) + 1
      BY <2>0
    <3>3. Len(replies) \in Nat
      OBVIOUS
    <3>4. replies' = Append(replies, reply) \/ replies' = replies
      BY <1>11 DEF WriteReply
    <3>5. replies' \in Seq(Replies)
      BY <3>1, <3>4
    <3>6. Len(replies') = Len(replies) + 1 \/ Len(replies') = Len(replies)
      BY <3>2, <3>4
    <3> QED
      BY <3>3, <3>5, <3>6
  <2> QED
    BY <1>11, <2>1 DEF WriteReply
<1>12. CASE Timeout
  BY <1>12 DEF Timeout
<1>13. CASE UNCHANGED vars
  BY <1>13 DEF vars
<1> QED
  BY <1>1, <1>2, <1>3, <1>4, <1>5, <1>6, <1>7, <1>8, <1>9, <1>10, <1>11,
     <1>12, <1>13 DEF Next, Peer, Handler, Finished

\* Every variable of a session keeps its type, for every set of offers and
\* bodies: the PDU in hand is a whole one whenever the code uses it.
THEOREM SessionType == Spec => []TypeOK
  BY InitType, NextType, PTL DEF Spec

-----------------------------------------------------------------------------
(* Decoding agrees with the negotiation. *)

\* One context id is set apart for NDR64: every offer of the KMS interface
\* under NDR64 uses it and none under NDR32 does.
DedicatedNdr64(c) ==
  /\ c \in CtxIds /\ c # RPC_INVALID_CTX
  /\ \A o \in Offers : \A i \in DOMAIN o :
        /\ o[i].ours /\ o[i].syn = "ndr64" => o[i].ctx = c
        /\ o[i].ours /\ o[i].syn = "ndr32" => o[i].ctx # c

\* An acknowledgement that the handler's memory is consistent with.
Remembered(c, r) ==
  /\ \A x \in r.acc : r.syn = "ndr64" <=> x = c
  /\ c \in r.acc => ndr64_ctx = c

\* The inductive invariant: ndr64_ctx is the dedicated id from the first
\* acceptance of NDR64 on, and no acknowledgement says otherwise.
MemoryInv(c) ==
  /\ ndr64_ctx \in {c, RPC_INVALID_CTX}
  /\ \A i \in DOMAIN replies : Remembered(c, replies[i])
  /\ pc = "write" => Remembered(c, reply)

LEMMA BindReplyRemembered ==
  ASSUME NEW c, DedicatedNdr64(c), NEW o \in Offers,
         NEW p, p.items = o,
         NEW old \in {c, RPC_INVALID_CTX},
         NEW new \in LastOf(o, AcceptedNdr64(o), old)
  PROVE  /\ new \in {c, RPC_INVALID_CTX}
         /\ \A x \in BindReply(p).acc : BindReply(p).syn = "ndr64" <=> x = c
         /\ c \in BindReply(p).acc => new = c
         /\ old = c => new = c
<1>1. \A i \in AcceptedNdr64(o) : o[i].ctx = c
  BY DEF AcceptedNdr64, DedicatedNdr64
<1>2. \A i \in AcceptedNdr32(o) : o[i].ctx # c
  BY DEF AcceptedNdr32, DedicatedNdr64
<1>3. CASE AcceptedNdr64(o) = {}
  <2>1. new = old
    BY <1>3 DEF LastOf
  <2>2. \A x \in AcceptedIds(o) : x # c
    BY <1>2, <1>3 DEF AcceptedIds
  <2>3. AcceptedIds(o) # {} => ~HasNdr64(o)
    BY <1>3 DEF AcceptedIds, AcceptedNdr32
  <2>4. AcceptedIds(o) # {} => AcceptedSyntax(o) = "ndr32"
    BY <2>3 DEF AcceptedSyntax
  <2> QED
    BY <2>1, <2>2, <2>4 DEF BindReply
<1>4. CASE AcceptedNdr64(o) # {}
  <2>1. new = c
    BY <1>1, <1>4 DEF LastOf
  <2>2. HasNdr64(o)
    BY <1>4 DEF AcceptedNdr64
  <2>3. AcceptedNdr32(o) = {}
    BY <2>2 DEF AcceptedNdr32
  <2>4. AcceptedIds(o) = {c}
    BY <1>1, <1>4, <2>3 DEF AcceptedIds
  <2>5. AcceptedSyntax(o) = "ndr64"
    BY <2>2, <2>4 DEF AcceptedSyntax
  <2> QED
    BY <2>1, <2>4, <2>5 DEF BindReply
<1> QED
  BY <1>3, <1>4

LEMMA MemoryInvInit ==
  ASSUME NEW c, DedicatedNdr64(c), Init
  PROVE  MemoryInv(c)
BY DEF Init, MemoryInv

LEMMA MemoryInvNext ==
  ASSUME NEW c, DedicatedNdr64(c), TypeOK, MemoryInv(c), [Next]_vars
  PROVE  MemoryInv(c)'
<1>1. CASE HandleBind
  <2>1. CASE pc' = "error" /\ UNCHANGED <<reply, ndr_ctx, ndr64_ctx>>
    BY <1>1, <2>1 DEF HandleBind, MemoryInv, Remembered
  <2>2. CASE /\ ndr64_ctx' \in LastOf(hdr.items, AcceptedNdr64(hdr.items), ndr64_ctx)
             /\ reply' = BindReply(hdr)
             /\ pc' = "write"
    <3>1. hdr \in Pdus /\ hdr.type \in {"bind", "alter"}
      BY <1>1 DEF HandleBind, TypeOK
    <3>2. hdr.items \in Offers
      BY <3>1 DEF Pdus
    <3>3. ndr64_ctx \in {c, RPC_INVALID_CTX}
      BY DEF MemoryInv
    <3>4. /\ ndr64_ctx' \in {c, RPC_INVALID_CTX}
          /\ \A x \in reply'.acc : reply'.syn = "ndr64" <=> x = c
          /\ c \in reply'.acc => ndr64_ctx' = c
          /\ ndr64_ctx = c => ndr64_ctx' = c
      BY <2>2, <3>2, <3>3, BindReplyRemembered
    <3>5. replies' = replies
      BY <1>1 DEF HandleBind
    <3>6. \A i \in DOMAIN replies : Remembered(c, replies[i])
      BY DEF MemoryInv
    <3>7. \A i \in DOMAIN replies' : Remembered(c, replies[i])'
      BY <3>4, <3>5, <3>6 DEF Remembered
    <3>8. Remembered(c, reply)'
      BY <3>4 DEF Remembered
    <3> QED
      BY <3>4, <3>7, <3>8 DEF MemoryInv
  <2> QED
    BY <1>1, <2>1, <2>2 DEF HandleBind
<1>2. CASE HandleRequest
  <2>1. \/ pc' \in {"error", "panic"} /\ reply' = reply
        \/ pc' = "write" /\ reply'.acc = {}
    BY <1>2 DEF HandleRequest, Response
  <2> QED
    BY <1>2, <2>1 DEF HandleRequest, MemoryInv, Remembered
<1>3. CASE WriteReply
  <2>1. CASE replies' = Append(replies, reply)
    <3>1. Remembered(c, reply) /\ reply \in Replies
      BY <1>3 DEF MemoryInv, WriteReply, TypeOK
    <3>2. \A i \in DOMAIN replies' : Remembered(c, replies'[i])
      BY <2>1, <3>1 DEF TypeOK, MemoryInv
    <3>3. ndr64_ctx' = ndr64_ctx /\ pc' # "write"
      BY <1>3 DEF WriteReply
    <3> QED
      BY <3>2, <3>3 DEF MemoryInv, Remembered
  <2>2. CASE replies' = replies
    BY <1>3, <2>2 DEF WriteReply, MemoryInv, Remembered
  <2> QED
    BY <1>3, <2>1, <2>2 DEF WriteReply
<1>4. CASE \/ ReadHeader \/ ReadPayload \/ HandleOther \/ Timeout \/ Peer
           \/ UNCHANGED vars
  <2>1. ndr64_ctx' = ndr64_ctx /\ replies' = replies
    BY <1>4 DEF ReadHeader, ReadPayload, HandleOther, Timeout, Peer, vars,
       PeerSendHeader, PeerSendBody, PeerRead, PeerClose, PeerReset, handlerVars
  <2>2. pc' = "write" => pc = "write" /\ reply' = reply
    BY <1>4 DEF ReadHeader, ReadPayload, HandleOther, Timeout, Peer, vars,
       PeerSendHeader, PeerSendBody, PeerRead, PeerClose, PeerReset, handlerVars
  <2> QED
    BY <2>1, <2>2 DEF MemoryInv, Remembered
<1> QED
  BY <1>1, <1>2, <1>3, <1>4 DEF Next, Handler, Finished

LEMMA MemoryGivesAgreement ==
  ASSUME NEW c, DedicatedNdr64(c), TypeOK, MemoryInv(c)
  PROVE  DecodeAgrees
<1> SUFFICES ASSUME NEW s \in Encodings, NEW x,
                    AckedIn(Len(replies), x, s)
             PROVE  DecodedAs(x, ndr64_ctx) = s
  BY DEF DecodeAgrees
<1>1. PICK i \in 1..Len(replies) : x \in replies[i].acc /\ replies[i].syn = s
  BY DEF AckedIn
<1>2. Remembered(c, replies[i])
  BY DEF MemoryInv, TypeOK
<1>3. CASE x = c
  BY <1>1, <1>2, <1>3 DEF Remembered, DecodedAs, DedicatedNdr64
<1>4. CASE x # c
  <2>1. s = "ndr32"
    BY <1>1, <1>2, <1>4 DEF Remembered, Encodings
  <2> QED
    BY <1>4, <2>1 DEF MemoryInv, DecodedAs
<1> QED
  BY <1>3, <1>4

\* With a context id set apart for NDR64, as Windows clients have it, every
\* request is decoded in the syntax last acknowledged for its context, after
\* any number of bind and alter-context requests, for any offers and ids.
THEOREM DecodingAgrees ==
  ASSUME NEW c, DedicatedNdr64(c)
  PROVE  Spec => []DecodeAgrees
<1>1. Init => MemoryInv(c)
  BY MemoryInvInit
<1>2. TypeOK /\ MemoryInv(c) /\ [Next]_vars => MemoryInv(c)'
  BY MemoryInvNext
<1>3. TypeOK /\ MemoryInv(c) => DecodeAgrees
  BY MemoryGivesAgreement
<1> QED
  BY <1>1, <1>2, <1>3, SessionType, PTL DEF Spec

-----------------------------------------------------------------------------
(* One answer per PDU: no silent drop, and the refinement of RpcService. *)

\* How far the answers are behind the PDUs read, at each point of the loop.
AnswerInv ==
  /\ pc \in {"header", "payload"} => Len(consumed) = Len(replies)
  /\ pc \in {"dispatch", "write"} =>
        /\ Len(consumed) = Len(replies) + 1
        /\ consumed[Len(consumed)] = hdr
  /\ pc = "write" => /\ hdr.type \in {"bind", "alter", "request"}
                      /\ reply.type = AnswerType(hdr.type)
                      /\ reply.call = hdr.call
  /\ NoSilentDrop

\* What Append does to the length and the last element, as the provers need it.
LEMMA AppendFacts ==
  ASSUME NEW S, NEW q \in Seq(S), NEW e \in S
  PROVE  /\ Append(q, e) \in Seq(S)
         /\ Len(Append(q, e)) = Len(q) + 1
         /\ Len(q) \in Nat
         /\ Append(q, e)[Len(q) + 1] = e
         /\ \A i \in 1..Len(q) : Append(q, e)[i] = q[i]
  OBVIOUS

LEMMA AnswerInvInit == Init => AnswerInv
  BY DEF Init, AnswerInv, NoSilentDrop

LEMMA AnswerInvNext ==
  ASSUME TypeOK, AnswerInv, [Next]_vars
  PROVE  AnswerInv'
<1> USE DEF AnswerInv, NoSilentDrop
<1>0. Len(consumed) \in Nat /\ Len(replies) \in Nat
  BY DEF TypeOK
<1>1. CASE ReadHeader
  BY <1>0, <1>1 DEF ReadHeader
<1>2. CASE ReadPayload
  <2>1. CASE pc' = "dispatch" /\ consumed' = Append(consumed, hdr)
    <3>1. hdr \in Pdus /\ consumed \in Seq(Pdus)
      BY <1>2 DEF ReadPayload, TypeOK
    <3>2. Len(consumed') = Len(consumed) + 1 /\ consumed'[Len(consumed')] = hdr
      BY <2>1, <3>1, AppendFacts
    <3> QED
      BY <1>0, <1>2, <2>1, <3>2 DEF ReadPayload
  <2>2. CASE pc' \in {"error", "panic"}
    BY <1>2, <2>2
  <2> QED
    BY <1>2, <2>1, <2>2 DEF ReadPayload
<1>3. CASE HandleBind
  <2>1. CASE pc' = "error"
    BY <2>1
  <2>2. CASE pc' = "write" /\ reply' = BindReply(hdr)
    <3>1. reply'.type = AnswerType(hdr.type) /\ reply'.call = hdr.call
      BY <2>2 DEF BindReply
    <3> QED
      BY <1>0, <1>3, <2>2, <3>1 DEF HandleBind
  <2> QED
    BY <1>3, <2>1, <2>2 DEF HandleBind
<1>4. CASE HandleRequest
  <2>1. CASE pc' \in {"error", "panic"}
    BY <2>1
  <2>2. CASE pc' = "write"
    <3>1. reply'.type = AnswerType(hdr.type) /\ reply'.call = hdr.call
      BY <1>4, <2>2 DEF HandleRequest, Response
    <3> QED
      BY <1>0, <1>4, <2>2, <3>1 DEF HandleRequest
  <2> QED
    BY <1>4, <2>1, <2>2 DEF HandleRequest
<1>5. CASE HandleOther
  BY <1>0, <1>5 DEF HandleOther
<1>6. CASE WriteReply
  <2>1. CASE pc' = "header" /\ replies' = Append(replies, reply)
    <3>1. reply \in Replies /\ replies \in Seq(Replies)
      BY <1>6 DEF WriteReply, TypeOK
    <3>2. Len(replies') = Len(replies) + 1
      BY <2>1, <3>1, AppendFacts
    <3> QED
      BY <1>0, <1>6, <2>1, <3>2 DEF WriteReply
  <2>2. CASE pc' = "error"
    BY <2>2
  <2> QED
    BY <1>6, <2>1, <2>2 DEF WriteReply
<1>7. CASE Timeout
  BY <1>7 DEF Timeout
<1>8. CASE PeerSendHeader \/ PeerSendBody \/ PeerClose \/ PeerReset
  <2>1. ~Ended /\ UNCHANGED handlerVars
    BY <1>8 DEF PeerSendHeader, PeerSendBody, PeerClose, PeerReset
  <2> QED
    BY <2>1 DEF Ended, handlerVars
<1>9. CASE PeerRead \/ UNCHANGED vars
  BY <1>9 DEF PeerRead, handlerVars, vars
<1> QED
  BY <1>1, <1>2, <1>3, <1>4, <1>5, <1>6, <1>7, <1>8, <1>9
  DEF Next, Handler, Peer, Finished

\* A session ends as a success only when every PDU it read was answered, or
\* the last one is of a type the server ignores.
THEOREM NothingDroppedSilently == Spec => []NoSilentDrop
<1>1. AnswerInv => NoSilentDrop
  BY DEF AnswerInv
<1>2. TypeOK /\ AnswerInv /\ [Next]_vars => AnswerInv'
  BY AnswerInvNext
<1> QED
  BY <1>1, <1>2, AnswerInvInit, SessionType, PTL DEF Spec

\* The histories as RpcService sees them.
AskedOf(q)    == [i \in DOMAIN q |-> <<q[i].type, q[i].call>>]

LEMMA AskedOfLen ==
  ASSUME NEW S, NEW q \in Seq(S)
  PROVE  /\ Len(AskedOf(q)) = Len(q) /\ Len(q) \in Nat
         /\ \A i \in 1..Len(q) : AskedOf(q)[i] = <<q[i].type, q[i].call>>
  BY DEF AskedOf

LEMMA AskedOfAppend ==
  ASSUME NEW S, NEW q \in Seq(S), NEW e \in S
  PROVE  /\ AskedOf(Append(q, e)) = Append(AskedOf(q), <<e.type, e.call>>)
<1> DEFINE T == {<<f.type, f.call>> : f \in S}
<1>1. DOMAIN q = 1..Len(q) /\ Len(q) \in Nat
  OBVIOUS
<1>2. ASSUME NEW r \in Seq(S)
      PROVE  AskedOf(r) \in Seq(T) /\ Len(AskedOf(r)) = Len(r)
  <2>1. DOMAIN r = 1..Len(r) /\ Len(r) \in Nat
    OBVIOUS
  <2>2. \A i \in 1..Len(r) : AskedOf(r)[i] \in T
    BY <2>1 DEF AskedOf
  <2> QED
    BY <2>1, <2>2 DEF AskedOf
<1>3. AskedOf(Append(q, e)) = Append(AskedOf(q), <<e.type, e.call>>)
  <2> DEFINE l == AskedOf(Append(q, e))
             r == Append(AskedOf(q), <<e.type, e.call>>)
  <2>1. l \in Seq(T) /\ Len(l) = Len(q) + 1
    BY <1>2, AppendFacts
  <2>2. AskedOf(q) \in Seq(T) /\ Len(AskedOf(q)) = Len(q) /\ <<e.type, e.call>> \in T
    BY <1>2
  <2>3. r \in Seq(T) /\ Len(r) = Len(q) + 1
    BY <2>2, AppendFacts
  <2>4. ASSUME NEW i \in 1..Len(l) PROVE l[i] = r[i]
    <3>0. DOMAIN Append(q, e) = 1..(Len(q) + 1)
      BY <1>1
    <3>1. CASE i = Len(q) + 1
      <4>1. l[i] = <<e.type, e.call>>
        BY <1>1, <2>1, <3>0, <3>1, AppendFacts DEF AskedOf
      <4>2. r[i] = <<e.type, e.call>>
        BY <2>2, <3>1, AppendFacts
      <4> QED
        BY <4>1, <4>2
    <3>2. CASE i # Len(q) + 1
      <4>1. i \in 1..Len(q)
        BY <1>1, <2>1, <3>2
      <4>2. Append(q, e)[i] = q[i]
        BY <4>1, AppendFacts
      <4>3. l[i] = <<q[i].type, q[i].call>>
        BY <1>1, <3>0, <4>1, <4>2 DEF AskedOf
      <4>4. r[i] = AskedOf(q)[i]
        BY <2>2, <4>1, AppendFacts
      <4> QED
        BY <1>1, <4>1, <4>3, <4>4 DEF AskedOf
    <3> QED
      BY <3>1, <3>2
  <2> HIDE DEF l, r
  <2> QED
    BY <2>1, <2>3, <2>4, SeqEqual DEF l, r
<1> QED
  BY <1>3

LEMMA ServiceInit == Init => Service!Init
  BY DEF Init, Ended, Service!Init

LEMMA ServiceNext ==
  ASSUME TypeOK, AnswerInv, [Next]_vars
  PROVE  [Service!Next]_(Service!vars)
<1> DEFINE asked == AskedOf(consumed)
           answered == AskedOf(replies)
<1>1. consumed \in Seq(Pdus) /\ replies \in Seq(Replies)
  BY DEF TypeOK
<1>2. /\ Len(asked) = Len(consumed) /\ Len(consumed) \in Nat
      /\ Len(answered) = Len(replies) /\ Len(replies) \in Nat
  BY <1>1, AskedOfLen
<1>3. ASSUME UNCHANGED <<consumed, replies>>
      PROVE  [Service!Next]_(Service!vars)
  <2>1. CASE Ended' = Ended
    BY <1>3, <2>1 DEF Service!vars
  <2>2. CASE ~Ended /\ Ended'
    BY <1>3, <2>2 DEF Service!Next, Service!Close
  <2>3. Ended => UNCHANGED Ended
    BY <1>3 DEF Next, Peer, Handler, PeerSendHeader, PeerSendBody, PeerRead,
       PeerClose, PeerReset, ReadHeader, ReadPayload, HandleBind, HandleRequest,
       HandleOther, WriteReply, Timeout, Finished, vars, handlerVars, Ended
  <2> QED
    BY <2>1, <2>2, <2>3 DEF Ended
<1>4. CASE ReadPayload /\ consumed' = Append(consumed, hdr)
  <2>1. hdr \in Pdus /\ pc = "payload"
    BY <1>4 DEF ReadPayload, TypeOK
  <2>2. asked' = Append(asked, <<hdr.type, hdr.call>>)
    BY <1>1, <1>4, <2>1, AskedOfAppend
  <2>3. Len(asked) = Len(answered)
    BY <1>2, <2>1 DEF AnswerInv
  <2>4. hdr.type \in {"bind", "alter", "request"} \cup {"other"} /\ hdr.call \in CallIds
    BY <2>1 DEF Pdus
  <2>5. replies' = replies /\ ~Ended /\ ~Ended'
    BY <1>4, <2>1 DEF ReadPayload, Ended
  <2> QED
    BY <2>2, <2>3, <2>4, <2>5 DEF AskedOf, Service!Next, Service!Take
<1>5. CASE WriteReply /\ replies' = Append(replies, reply)
  <2>1. reply \in Replies /\ pc = "write" /\ hdr.type \in {"bind", "alter", "request"}
    BY <1>5 DEF WriteReply, TypeOK, AnswerInv
  <2>2. answered' = Append(answered, <<AnswerType(hdr.type), hdr.call>>)
    BY <1>1, <1>5, <2>1, AskedOfAppend DEF AnswerInv
  <2>3. /\ Len(answered) < Len(asked)
        /\ asked[Len(answered) + 1] = <<hdr.type, hdr.call>>
    BY <1>1, <1>2, <2>1, AskedOfLen DEF AnswerInv
  <2>4. consumed' = consumed /\ ~Ended /\ ~Ended'
    BY <1>5 DEF WriteReply, Ended
  <2>5. LET q == asked[Len(answered) + 1]
        IN  /\ q[1] \in {"bind", "alter", "request"}
            /\ answered' = Append(answered, <<AnswerType(q[1]), q[2]>>)
    BY <2>1, <2>2, <2>3
  <2>6. ~Ended /\ Len(answered) < Len(asked) /\ asked' = asked /\ Ended' = Ended
    <3>1. asked' = asked
      BY <2>4 DEF AskedOf
    <3>2. Ended' = Ended
      BY <2>4 DEF Ended
    <3> QED
      BY <2>3, <2>4, <3>1, <3>2
  <2>7. Service!Answer
    BY <2>5, <2>6 DEF AskedOf, Service!Answer
  <2> QED
    BY <2>7 DEF Service!Next
<1> QED
  BY <1>3, <1>4, <1>5 DEF Next, Peer, Handler, PeerSendHeader, PeerSendBody,
     PeerRead, PeerClose, PeerReset, ReadHeader, ReadPayload, HandleBind,
     HandleRequest, HandleOther, WriteReply, Timeout, Finished, vars,
     handlerVars

\* The detailed session implements RpcService: answers in order, one per PDU
\* taken, with the right type and call id, and nothing after the close.
THEOREM ImplementsService == Spec => ServiceSpec
<1>1. Init => AnswerInv /\ TypeOK
  BY AnswerInvInit, InitType
<1>2. TypeOK /\ AnswerInv /\ [Next]_vars => AnswerInv' /\ TypeOK'
  BY AnswerInvNext, NextType
<1>3. TypeOK /\ AnswerInv /\ [Next]_vars => [Service!Next]_(Service!vars)
  BY ServiceNext
<1> QED
  BY <1>1, <1>2, <1>3, ServiceInit, PTL DEF Spec, ServiceSpec, Service!Spec

-----------------------------------------------------------------------------
(* What can be accepted is. *)

\* NDR64 is offered for the KMS interface and for no other.
Ndr64IsOurs ==
  \A o \in Offers : \A i \in DOMAIN o : o[i].syn = "ndr64" => o[i].ours

\* Reply r does not refuse all of an offer of p that it could accept.
AcceptsOffer(r, p) ==
  (r.type \in {"bind_ack", "alter_ack"} /\ r.acc = {}) =>
     \A i \in DOMAIN p.items :
        ~(p.items[i].ours /\ p.items[i].syn \in Encodings)

AcceptInv ==
  /\ \A k \in DOMAIN replies : AcceptsOffer(replies[k], consumed[k])
  /\ pc = "write" => AcceptsOffer(reply, hdr)

LEMMA BindReplyAccepts ==
  ASSUME Ndr64IsOurs, NEW p, p.items \in Offers
  PROVE  AcceptsOffer(BindReply(p), p)
<1> SUFFICES ASSUME AcceptedIds(p.items) = {}, NEW i \in DOMAIN p.items,
                    p.items[i].ours, p.items[i].syn \in Encodings
             PROVE  FALSE
  BY DEF AcceptsOffer, BindReply
<1>1. AcceptedNdr32(p.items) = {} /\ AcceptedNdr64(p.items) = {}
  BY DEF AcceptedIds
<1>2. ~HasNdr64(p.items)
  BY <1>1 DEF AcceptedNdr64, HasNdr64, Ndr64IsOurs
<1>3. p.items[i].syn = "ndr32"
  BY <1>2 DEF HasNdr64, Encodings
<1> QED
  BY <1>1, <1>2, <1>3 DEF AcceptedNdr32

LEMMA AcceptInvInit == Init => AcceptInv
  BY DEF Init, AcceptInv

LEMMA AcceptInvNext ==
  ASSUME Ndr64IsOurs, TypeOK, AnswerInv, AcceptInv, [Next]_vars
  PROVE  AcceptInv'
<1>0. /\ consumed \in Seq(Pdus) /\ replies \in Seq(Replies)
      /\ DOMAIN replies = 1..Len(replies) /\ Len(replies) \in Nat
      /\ Len(consumed) \in Nat
  BY DEF TypeOK
<1>1. CASE ReadPayload /\ consumed' = Append(consumed, hdr)
  <2>1. hdr \in Pdus /\ Len(consumed) = Len(replies)
    BY <1>1 DEF ReadPayload, TypeOK, AnswerInv
  <2>2. \A k \in DOMAIN replies : consumed'[k] = consumed[k]
    BY <1>0, <1>1, <2>1, AppendFacts
  <2>3. pc' # "write" /\ replies' = replies
    BY <1>1 DEF ReadPayload
  <2> QED
    BY <2>2, <2>3 DEF AcceptInv, AcceptsOffer
<1>2. CASE HandleBind
  <2>1. consumed' = consumed /\ replies' = replies /\ hdr' = hdr
    BY <1>2 DEF HandleBind
  <2>2. hdr \in Pdus /\ hdr.items \in Offers
    BY <1>2 DEF HandleBind, TypeOK, Pdus
  <2>3. pc' = "write" => reply' = BindReply(hdr)
    BY <1>2 DEF HandleBind
  <2>4. pc' = "write" => AcceptsOffer(reply', hdr')
    BY <2>1, <2>2, <2>3, BindReplyAccepts
  <2>5. \A k \in DOMAIN replies' : AcceptsOffer(replies'[k], consumed'[k])
    BY <2>1 DEF AcceptInv
  <2> QED
    BY <2>4, <2>5 DEF AcceptInv, AcceptsOffer
<1>3. CASE HandleRequest
  <2>1. consumed' = consumed /\ replies' = replies /\ hdr' = hdr
    BY <1>3 DEF HandleRequest
  <2>2. pc' = "write" => reply'.type = "response"
    BY <1>3 DEF HandleRequest, Response, AnswerType
  <2> QED
    BY <2>1, <2>2 DEF AcceptInv, AcceptsOffer
<1>4. CASE WriteReply /\ replies' = Append(replies, reply)
  <2>1. reply \in Replies /\ consumed' = consumed /\ pc' # "write"
    BY <1>4 DEF WriteReply, TypeOK
  <2>2. Len(consumed) = Len(replies) + 1 /\ consumed[Len(replies) + 1] = hdr
    BY <1>4 DEF WriteReply, AnswerInv
  <2>3. AcceptsOffer(reply, hdr)
    BY <1>4 DEF WriteReply, AcceptInv
  <2>4. /\ replies' \in Seq(Replies) /\ Len(replies') = Len(replies) + 1
        /\ replies'[Len(replies) + 1] = reply
        /\ \A k \in 1..Len(replies) : replies'[k] = replies[k]
    BY <1>0, <1>4, <2>1, AppendFacts
  <2>5. ASSUME NEW k \in DOMAIN replies'
        PROVE  AcceptsOffer(replies'[k], consumed'[k])
    <3>1. k \in 1..Len(replies) \/ k = Len(replies) + 1
      BY <1>0, <2>4
    <3> QED
      BY <1>0, <2>1, <2>2, <2>3, <2>4, <3>1 DEF AcceptInv
  <2> QED
    BY <2>1, <2>5 DEF AcceptInv, AcceptsOffer
<1>5. CASE UNCHANGED <<consumed, replies>> /\ ~HandleBind /\ ~HandleRequest
  <2>1. pc' = "write" => pc = "write" /\ reply' = reply /\ hdr' = hdr
    BY <1>5 DEF Next, Peer, Handler, PeerSendHeader, PeerSendBody, PeerRead,
       PeerClose, PeerReset, ReadHeader, ReadPayload, HandleOther, WriteReply,
       Timeout, Finished, vars, handlerVars
  <2> QED
    BY <1>5, <2>1 DEF AcceptInv, AcceptsOffer
<1> QED
  BY <1>1, <1>2, <1>3, <1>4, <1>5 DEF Next, Peer, Handler, PeerSendHeader,
     PeerSendBody, PeerRead, PeerClose, PeerReset, ReadHeader, ReadPayload,
     HandleOther, WriteReply, Timeout, Finished, vars, handlerVars

\* When nobody offers NDR64 for another interface, an acknowledgement that
\* accepts nothing answers an offer that holds nothing to accept, for any
\* offers and in any order of PDUs.  An item that names NDR64 for another
\* interface makes the server refuse the KMS interface under NDR32.
THEOREM WhatCanBeIsAccepted ==
  ASSUME Ndr64IsOurs
  PROVE  Spec => []AcceptsIfPossible
<1>1. AcceptInv => AcceptsIfPossible
  BY DEF AcceptInv, AcceptsOffer, AcceptsIfPossible
<1>2. TypeOK /\ AnswerInv /\ [Next]_vars => AnswerInv'
  BY AnswerInvNext
<1>3. TypeOK /\ AnswerInv /\ AcceptInv /\ [Next]_vars => AcceptInv'
  BY AcceptInvNext
<1> QED
  BY <1>1, <1>2, <1>3, AnswerInvInit, AcceptInvInit, SessionType, PTL DEF Spec

-----------------------------------------------------------------------------
(* A peer that waits for its answers is never misread. *)

\* The peer is going to send the rest of a PDU.
Sending == half # NoPdu /\ peer = "open"

\* With one PDU at a time, what of it is still on its way at each point of
\* the loop: nothing once it is dispatched.
OneAtATime ==
  ~Ended =>
     /\ sent \in {Len(replies), Len(replies) + 1}
     /\ sent = Len(replies) => pc = "header" /\ wire = <<>>
     /\ pc = "header" =>
           /\ wire = <<>> => ~Sending
           /\ Len(wire) <= 2 /\ (Len(wire) = 2 => ~Sending)
           /\ wire # <<>> /\ Head(wire).pdu.form \in {"under", "bare"}
                => Len(wire) = 1 /\ ~Sending
     /\ pc = "payload" =>
           /\ wire # <<>> => Len(wire) = 1 /\ ~Sending
           /\ hdr.form \in {"under", "bare"} => wire = <<>> /\ ~Sending
     /\ pc \in {"dispatch", "write"} => wire = <<>> /\ ~Sending

\* A request the handler would decode in the syntax it is encoded in.
Matches(p) == p.type = "request" => p.enc = DecodedAs(p.ctx, ndr64_ctx)

Matched ==
  ~Ended => /\ \A k \in DOMAIN wire : Matches(wire[k].pdu)
            /\ Sending => Matches(half)
            /\ pc \in {"payload", "dispatch"} => Matches(hdr)

\* An id that is remembered for NDR64 has been acknowledged for it, or the
\* acknowledgement is being written.
Known(c) ==
  ndr64_ctx = c => \/ AckedIn(Len(replies), c, "ndr64")
                   \/ pc = "write" /\ c \in reply.acc
                   \/ Ended

Clean == NoGarbledReply /\ (pc = "write" => ~reply.garbled)

TalkInv(c) == OneAtATime /\ Matched /\ Known(c) /\ Clean

LEMMA TalkInit ==
  ASSUME NEW c, DedicatedNdr64(c), Init
  PROVE  TalkInv(c)
BY DEF Init, TalkInv, OneAtATime, Matched, Known, Clean, NoGarbledReply,
   Sending, Ended, DedicatedNdr64

\* What a peer that has read every answer takes for the syntax of a context
\* is what the handler remembers.
LEMMA PeerAgrees ==
  ASSUME NEW c, DedicatedNdr64(c), TypeOK, MemoryInv(c), Known(c),
         pc = "header", nread = Len(replies), NEW x
  PROVE  PeerSyntax(x) = DecodedAs(x, ndr64_ctx)
<1>1. CASE AckedIn(nread, x, "ndr64")
  <2>1. PICK i \in 1..Len(replies) : x \in replies[i].acc /\ replies[i].syn = "ndr64"
    BY <1>1 DEF AckedIn
  <2>2. Remembered(c, replies[i])
    BY DEF MemoryInv, TypeOK
  <2>3. x = c /\ ndr64_ctx = c
    BY <2>1, <2>2 DEF Remembered
  <2> QED
    BY <1>1, <2>3 DEF PeerSyntax, DecodedAs, DedicatedNdr64
<1>2. CASE ~AckedIn(nread, x, "ndr64")
  <2>1. ~(x = c /\ ndr64_ctx = c)
    BY <1>2 DEF Known, Ended
  <2>2. ~(x = ndr64_ctx /\ ndr64_ctx # RPC_INVALID_CTX)
    BY <2>1 DEF MemoryInv
  <2> QED
    BY <1>2, <2>2 DEF PeerSyntax, DecodedAs
<1> QED
  BY <1>1, <1>2

\* An acceptance of NDR64 is in the acknowledgement.
LEMMA NewIsAcked ==
  ASSUME NEW p, NEW old, NEW new \in LastOf(p.items, AcceptedNdr64(p.items), old),
         new # old
  PROVE  new \in BindReply(p).acc
BY DEF LastOf, BindReply, AcceptedIds

\* Once acknowledged, the id stays acknowledged for NDR64: whatever the next
\* acknowledgement says of it is the same.
LEMMA AckedStays ==
  ASSUME NEW c, replies \in Seq(Replies), reply \in Replies,
         replies' = Append(replies, reply), Remembered(c, reply),
         AckedIn(Len(replies), c, "ndr64") \/ c \in reply.acc
  PROVE  AckedIn(Len(replies), c, "ndr64")'
<1>1. /\ Len(replies') = Len(replies) + 1 /\ Len(replies) \in Nat
      /\ replies'[Len(replies) + 1] = reply
      /\ \A i \in 1..Len(replies) : replies'[i] = replies[i]
  BY AppendFacts
<1>2. CASE c \in reply.acc
  <2>1. reply.syn = "ndr64"
    BY <1>2 DEF Remembered
  <2>2. Len(replies) + 1 \in 1..Len(replies')
    BY <1>1
  <2>3. \A j \in (Len(replies) + 1 + 1)..Len(replies') : c \notin replies'[j].acc
    BY <1>1
  <2> QED
    BY <1>1, <1>2, <2>1, <2>2, <2>3 DEF AckedIn
<1>3. CASE c \notin reply.acc
  <2>1. PICK i \in 1..Len(replies) :
               /\ c \in replies[i].acc /\ replies[i].syn = "ndr64"
               /\ \A j \in (i + 1)..Len(replies) : c \notin replies[j].acc
    BY <1>3 DEF AckedIn
  <2>2. \A j \in (i + 1)..Len(replies') : c \notin replies'[j].acc
    <3> SUFFICES ASSUME NEW j \in (i + 1)..Len(replies')
                 PROVE  c \notin replies'[j].acc
      OBVIOUS
    <3>1. CASE j = Len(replies) + 1
      BY <1>1, <1>3, <3>1
    <3>2. CASE j # Len(replies) + 1
      <4>1. j \in (i + 1)..Len(replies) /\ j \in 1..Len(replies)
        BY <1>1, <3>2
      <4> QED
        BY <1>1, <2>1, <4>1
    <3> QED
      BY <3>1, <3>2
  <2>3. i \in 1..Len(replies') /\ replies'[i] = replies[i]
    BY <1>1
  <2> QED
    BY <2>1, <2>2, <2>3 DEF AckedIn
<1> QED
  BY <1>2, <1>3

\* A request that matches is not decoded into something else.
LEMMA NotMisread ==
  ASSUME NEW p, p.type = "request", Matches(p)
  PROVE  "garbled" \notin RequestResults(p, DecodedAs(p.ctx, ndr64_ctx))
BY DEF Matches, RequestResults, KmsResults

LEMMA ClearSeq ==
  ASSUME NEW S, NEW q \in Seq(S)
  PROVE  /\ Len(q) \in Nat /\ DOMAIN q = 1..Len(q)
         /\ q = <<>> <=> Len(q) = 0
         /\ q # <<>> => /\ Head(q) = q[1]
                        /\ Tail(q) \in Seq(S) /\ Len(Tail(q)) = Len(q) - 1
                        /\ \A i \in 1..Len(Tail(q)) : Tail(q)[i] = q[i + 1]
  OBVIOUS

\* The peer.
LEMMA TalkPeer ==
  ASSUME NEW c, Window = 1, DedicatedNdr64(c), TypeOK, MemoryInv(c),
         TalkInv(c), Peer
  PROVE  TalkInv(c)'
<1> USE DEF TalkInv
<1>0. /\ Len(wire) \in Nat /\ DOMAIN wire = 1..Len(wire)
      /\ wire = <<>> <=> Len(wire) = 0
      /\ Len(replies) \in Nat /\ sent \in Nat /\ nread \in Nat
      /\ nread <= Len(replies) /\ wire \in Seq(Chunks)
  BY ClearSeq, SessionAssumption DEF TypeOK
<1>1. UNCHANGED handlerVars
  BY DEF Peer, PeerSendHeader, PeerSendBody, PeerRead, PeerClose, PeerReset
<1>2. Clean' /\ Known(c)' /\ Ended' = Ended
  BY <1>1 DEF Clean, NoGarbledReply, Known, AckedIn, Ended, handlerVars
<1>3. \A p : Matches(p)' <=> Matches(p)
  BY <1>1 DEF Matches, handlerVars
<1>4. CASE PeerSendHeader
  <2>1. ~Ended /\ sent = Len(replies) /\ nread = Len(replies) /\ wire = <<>>
        /\ pc = "header" /\ pc' = "header" /\ replies' = replies
    BY <1>0, <1>1, <1>4 DEF PeerSendHeader, OneAtATime, handlerVars
  <2>2. PICK p \in NewPdus :
           /\ wire' = Append(wire, [part |-> "hdr", pdu |-> p])
           /\ half' = IF p.form \in {"under", "bare"} THEN NoPdu ELSE p
    BY <1>4 DEF PeerSendHeader
  <2>3. sent' = Len(replies) + 1
    BY <1>4, <2>1 DEF PeerSendHeader
  <2>4. wire' = <<[part |-> "hdr", pdu |-> p]>>
    BY <2>1, <2>2
  <2>5. /\ Len(wire') = 1 /\ DOMAIN wire' = {1} /\ wire'[1].pdu = p
        /\ Head(wire').pdu = p /\ wire' # <<>>
    BY <2>4
  <2>6. p.form \in {"under", "bare"} => half' = NoPdu
    BY <2>2
  <2>7. Matches(p)
    BY <2>1, PeerAgrees DEF NewPdus, Matches
  <2>8. half' # NoPdu => half' = p
    BY <2>2
  <2>9. OneAtATime'
    BY <1>0, <2>1, <2>3, <2>5, <2>6 DEF OneAtATime, Sending
  <2>10. Matched'
    BY <1>3, <2>1, <2>5, <2>7, <2>8 DEF Matched, Sending
  <2> QED
    BY <1>2, <2>9, <2>10
<1>5. CASE PeerSendBody
  <2>1. /\ ~Ended /\ Sending /\ half' = NoPdu
        /\ wire' = Append(wire, [part |-> "body", pdu |-> half])
        /\ sent' = sent /\ pc' = pc /\ replies' = replies /\ hdr' = hdr
    BY <1>1, <1>5 DEF PeerSendBody, Sending, handlerVars
  <2>2. [part |-> "body", pdu |-> half] \in Chunks
    BY <2>1 DEF Sending, TypeOK, Chunks
  <2>3. /\ Len(wire') = Len(wire) + 1 /\ DOMAIN wire' = 1..Len(wire')
        /\ wire'[Len(wire) + 1].pdu = half
        /\ \A k \in 1..Len(wire) : wire'[k] = wire[k]
    BY <1>0, <2>1, <2>2, AppendFacts
  <2>4. wire # <<>> => Head(wire') = Head(wire)
    BY <1>0, <2>1, <2>2
  <2>5. \/ pc = "header" /\ Len(wire) = 1
           /\ Head(wire).pdu.form \notin {"under", "bare"}
        \/ pc = "payload" /\ Len(wire) = 0
           /\ hdr.form \notin {"under", "bare"}
    BY <1>0, <2>1 DEF OneAtATime, TypeOK, PcValues, Ended
  <2>6. ~Sending'
    BY <2>1 DEF Sending
  <2>7. OneAtATime'
    BY <1>0, <2>1, <2>3, <2>4, <2>5, <2>6 DEF OneAtATime
  <2>8. \A k \in DOMAIN wire' : Matches(wire'[k].pdu)
    BY <1>0, <2>1, <2>3 DEF Matched
  <2>9. Matched'
    BY <1>3, <2>1, <2>6, <2>8 DEF Matched
  <2> QED
    BY <1>2, <2>7, <2>9
<1>6. CASE PeerRead
  <2>1. UNCHANGED <<wire, half, peer, sent>>
    BY <1>6 DEF PeerRead
  <2> QED
    BY <1>1, <1>2, <1>3, <2>1 DEF OneAtATime, Matched, Sending, handlerVars
<1>7. CASE PeerClose \/ PeerReset
  <2>1. ~Sending' /\ (wire' = wire \/ wire' = <<>>) /\ sent' = sent
    BY <1>7 DEF PeerClose, PeerReset, Sending
  <2>2. UNCHANGED <<pc, hdr, replies>>
    BY <1>1 DEF handlerVars
  <2>3. OneAtATime'
    <3>1. CASE wire' = wire
      BY <1>0, <1>2, <2>1, <2>2, <3>1 DEF OneAtATime
    <3>2. CASE wire' = <<>>
      <4>1. Len(wire') = 0
        BY <3>2
      <4> QED
        BY <1>0, <1>2, <2>1, <2>2, <3>2, <4>1 DEF OneAtATime
    <3> QED
      BY <2>1, <3>1, <3>2
  <2>4. Matched'
    BY <1>1, <1>2, <1>3, <2>1 DEF Matched, handlerVars
  <2> QED
    BY <1>2, <2>3, <2>4
<1> QED
  BY <1>4, <1>5, <1>6, <1>7 DEF Peer

\* The handler.
LEMMA TalkHandler ==
  ASSUME NEW c, DedicatedNdr64(c), TypeOK, MemoryInv(c), TalkInv(c), Handler
  PROVE  TalkInv(c)'
<1> USE DEF TalkInv
<1>0. /\ Len(wire) \in Nat /\ DOMAIN wire = 1..Len(wire)
      /\ wire = <<>> <=> Len(wire) = 0
      /\ wire # <<>> => /\ Head(wire) = wire[1]
                        /\ Len(Tail(wire)) = Len(wire) - 1
                        /\ DOMAIN Tail(wire) = 1..Len(Tail(wire))
                        /\ \A i \in 1..Len(Tail(wire)) : Tail(wire)[i] = wire[i + 1]
      /\ Len(replies) \in Nat /\ sent \in Nat
  BY ClearSeq DEF TypeOK
<1>1. ~Ended /\ peerVars' = peerVars
  BY DEF Handler, ReadHeader, ReadPayload, HandleBind, HandleRequest,
     HandleOther, WriteReply, Timeout, Ended
<1>2. Sending' = Sending /\ sent' = sent
  BY <1>1 DEF Sending, peerVars
<1>3. CASE ReadHeader
  <2>1. UNCHANGED <<reply, ndr_ctx, ndr64_ctx, replies>> /\ pc = "header"
        /\ pc' # "write"
    BY <1>3 DEF ReadHeader
  <2>2. Clean' /\ Known(c)'
    BY <2>1 DEF Clean, NoGarbledReply, Known, AckedIn, Ended
  <2>3. CASE pc' \in {"ok", "error"}
    BY <2>2, <2>3 DEF OneAtATime, Matched, Ended
  <2>4. CASE /\ wire # <<>> /\ hdr' = Head(wire).pdu /\ wire' = Tail(wire)
             /\ pc' = "payload"
    <3>1. /\ Len(wire') = Len(wire) - 1 /\ DOMAIN wire' = 1..Len(wire')
          /\ wire' # <<>> => Len(wire') > 0
      BY <1>0, <2>4
    <3>2. /\ sent = Len(replies) + 1 /\ Len(wire) <= 2
          /\ (Len(wire) = 2 => ~Sending)
          /\ Head(wire).pdu.form \in {"under", "bare"}
                => Len(wire) = 1 /\ ~Sending
      BY <1>1, <2>1, <2>4 DEF OneAtATime
    <3>3. wire' = <<>> <=> Len(wire') = 0
      BY <1>0, <2>4, ClearSeq DEF TypeOK
    <3>4. OneAtATime'
      BY <1>0, <1>2, <2>1, <2>4, <3>1, <3>2, <3>3 DEF OneAtATime
    <3>5. \A k \in DOMAIN wire : Matches(wire[k].pdu)
      BY <1>1 DEF Matched
    <3>6. Matches(hdr') /\ \A k \in DOMAIN wire' : Matches(wire'[k].pdu)
      BY <1>0, <2>4, <3>1, <3>5
    <3>7. half' = half /\ (Sending => Matches(half))
      BY <1>1 DEF Matched, peerVars
    <3>8. Matched'
      BY <1>2, <2>1, <3>6, <3>7 DEF Matched, Matches
    <3> QED
      BY <2>2, <3>4, <3>8
  <2> QED
    BY <1>3, <2>3, <2>4 DEF ReadHeader
<1>4. CASE ReadPayload
  <2>1. UNCHANGED <<hdr, reply, ndr_ctx, ndr64_ctx, replies>> /\ pc = "payload"
        /\ pc' # "write"
    BY <1>4 DEF ReadPayload
  <2>2. Clean' /\ Known(c)'
    BY <2>1 DEF Clean, NoGarbledReply, Known, AckedIn, Ended
  <2>3. CASE pc' \in {"panic", "error"}
    BY <2>2, <2>3 DEF OneAtATime, Matched, Ended
  <2>4. CASE pc' = "dispatch"
    <3>1. /\ \/ hdr.form = "bare" /\ wire' = wire
             \/ wire # <<>> /\ wire' = Tail(wire)
      BY <1>4, <2>4 DEF ReadPayload
    <3>2. /\ sent = Len(replies) + 1
          /\ wire # <<>> => Len(wire) = 1 /\ ~Sending
          /\ hdr.form = "bare" => wire = <<>> /\ ~Sending
      BY <1>1, <2>1 DEF OneAtATime
    <3>3. wire' = <<>> /\ ~Sending
      BY <1>0, <3>1, <3>2, ClearSeq DEF TypeOK
    <3>4. OneAtATime'
      BY <1>0, <1>2, <2>1, <2>4, <3>2, <3>3 DEF OneAtATime
    <3>5. Matches(hdr)
      BY <1>1, <2>1 DEF Matched
    <3>6. Matched'
      BY <1>2, <2>1, <3>3, <3>5 DEF Matched, Matches
    <3> QED
      BY <2>2, <3>4, <3>6
  <2> QED
    BY <1>4, <2>3, <2>4 DEF ReadPayload
<1>5. CASE HandleBind
  <2>1. /\ UNCHANGED <<wire, hdr, consumed, replies>> /\ pc = "dispatch"
        /\ wire = <<>> /\ ~Sending /\ sent = Len(replies) + 1
    BY <1>0, <1>1, <1>5 DEF HandleBind, OneAtATime
  <2>2. CASE pc' = "error" /\ UNCHANGED <<reply, ndr_ctx, ndr64_ctx>>
    BY <2>1, <2>2 DEF OneAtATime, Matched, Clean, NoGarbledReply, Known, Ended
  <2>3. CASE /\ ndr64_ctx' \in LastOf(hdr.items, AcceptedNdr64(hdr.items), ndr64_ctx)
             /\ reply' = BindReply(hdr)
             /\ pc' = "write"
    <3>1. OneAtATime'
      BY <1>0, <1>2, <2>1, <2>3 DEF OneAtATime
    <3>2. Matched'
      BY <1>2, <2>1, <2>3 DEF Matched
    <3>3. Clean'
      BY <2>1, <2>3 DEF Clean, NoGarbledReply, BindReply
    <3>4. ndr64_ctx' # ndr64_ctx => ndr64_ctx' \in reply'.acc
      BY <2>3, NewIsAcked
    <3>5. ndr64_ctx = c => AckedIn(Len(replies), c, "ndr64")
      BY <1>1, <2>1 DEF Known
    <3>6. AckedIn(Len(replies), c, "ndr64")' <=> AckedIn(Len(replies), c, "ndr64")
      BY <2>1 DEF AckedIn
    <3>7. Known(c)'
      BY <2>3, <3>4, <3>5, <3>6 DEF Known
    <3> QED
      BY <3>1, <3>2, <3>3, <3>7
  <2> QED
    BY <1>5, <2>2, <2>3 DEF HandleBind
<1>6. CASE HandleRequest
  <2> DEFINE syntax == DecodedAs(hdr.ctx, ndr64_ctx)
  <2>1. /\ UNCHANGED <<wire, hdr, ndr64_ctx, replies>> /\ pc = "dispatch"
        /\ wire = <<>> /\ ~Sending /\ sent = Len(replies) + 1
        /\ hdr.type = "request" /\ Matches(hdr)
    BY <1>0, <1>1, <1>6 DEF HandleRequest, OneAtATime, Matched
  <2>2. PICK r \in RequestResults(hdr, syntax) :
           \/ r \in {"error", "panic"} /\ pc' = r /\ reply' = reply
           \/ r \in {"reply", "garbled"} /\ pc' = "write"
              /\ reply' = Response(hdr, syntax, r)
    BY <1>6 DEF HandleRequest
  <2>3. r # "garbled"
    BY <2>1, NotMisread
  <2>4. ndr64_ctx = c => AckedIn(Len(replies), c, "ndr64")
    BY <1>1, <2>1 DEF Known
  <2>5. Known(c)'
    BY <2>1, <2>4 DEF Known, AckedIn
  <2>6. Clean'
    <3>1. pc' = "write" => reply' = Response(hdr, syntax, r)
      BY <2>2
    <3>2. ~Response(hdr, syntax, r).garbled
      BY <2>3, Zenon DEF Response
    <3>3. pc' = "write" => ~reply'.garbled
      BY <3>1, <3>2
    <3>4. NoGarbledReply'
      BY <2>1 DEF Clean, NoGarbledReply
    <3> QED
      BY <3>3, <3>4 DEF Clean
  <2>7. OneAtATime'
    BY <1>0, <1>2, <2>1, <2>2 DEF OneAtATime, Ended
  <2>8. Matched'
    BY <1>2, <2>1, <2>2 DEF Matched, Ended
  <2> QED
    BY <2>5, <2>6, <2>7, <2>8
<1>7. CASE HandleOther \/ Timeout \/ (WriteReply /\ pc' = "error")
  <2>1. Ended' /\ pc' # "write" /\ replies' = replies
    BY <1>7 DEF HandleOther, Timeout, WriteReply, Ended
  <2> QED
    BY <2>1 DEF OneAtATime, Matched, Clean, NoGarbledReply, Known
<1>8. CASE WriteReply /\ pc' = "header" /\ replies' = Append(replies, reply)
  <2>1. /\ pc = "write" /\ wire = <<>> /\ ~Sending /\ sent = Len(replies) + 1
        /\ UNCHANGED <<wire, hdr, ndr64_ctx>> /\ reply \in Replies
        /\ replies \in Seq(Replies)
    BY <1>0, <1>1, <1>8 DEF WriteReply, OneAtATime, TypeOK
  <2>2. /\ Len(replies') = Len(replies) + 1 /\ DOMAIN replies' = 1..Len(replies')
        /\ replies'[Len(replies) + 1] = reply
        /\ \A i \in 1..Len(replies) : replies'[i] = replies[i]
    BY <1>8, <2>1, AppendFacts
  <2>3. OneAtATime'
    BY <1>0, <1>2, <1>8, <2>1, <2>2 DEF OneAtATime
  <2>4. Matched'
    BY <1>2, <1>8, <2>1 DEF Matched
  <2>5. Clean'
    <3>1. ~reply.garbled /\ \A k \in DOMAIN replies : ~replies[k].garbled
      BY <2>1 DEF Clean, NoGarbledReply
    <3>2. \A k \in DOMAIN replies' : ~replies'[k].garbled
      <4> SUFFICES ASSUME NEW k \in DOMAIN replies' PROVE ~replies'[k].garbled
        OBVIOUS
      <4>1. k \in 1..Len(replies) \/ k = Len(replies) + 1
        BY <1>0, <2>2
      <4> QED
        BY <2>1, <2>2, <3>1, <4>1
    <3> QED
      BY <1>8, <3>2 DEF Clean, NoGarbledReply
  <2>6. Remembered(c, reply)
    BY <2>1 DEF MemoryInv
  <2>7. ndr64_ctx = c => AckedIn(Len(replies), c, "ndr64") \/ c \in reply.acc
    BY <1>1 DEF Known
  <2>8. Known(c)'
    BY <1>8, <2>1, <2>6, <2>7, AckedStays DEF Known
  <2> QED
    BY <2>3, <2>4, <2>5, <2>8
<1> QED
  BY <1>3, <1>4, <1>5, <1>6, <1>7, <1>8 DEF Handler, WriteReply

LEMMA TalkNext ==
  ASSUME NEW c, Window = 1, DedicatedNdr64(c), TypeOK, MemoryInv(c),
         TalkInv(c), [Next]_vars
  PROVE  TalkInv(c)'
<1>1. CASE UNCHANGED vars
  BY <1>1 DEF vars, handlerVars, TalkInv, OneAtATime, Matched, Matches, Known,
     AckedIn, Clean, NoGarbledReply, Sending, Ended
<1> QED
  BY <1>1, TalkPeer, TalkHandler DEF Next, Finished

\* A client that waits for each answer, encodes as it was last told and has an
\* id set apart for NDR64 never gets an answer made from bytes read at the
\* other syntax's offset, for any offers, bodies and number of PDUs, however
\* often it binds again.
THEOREM WaitingClientIsUnderstood ==
  ASSUME NEW c, DedicatedNdr64(c), Window = 1
  PROVE  Spec => []NoGarbledReply
<1>1. Init => MemoryInv(c) /\ TalkInv(c)
  BY MemoryInvInit, TalkInit
<1>2. TypeOK /\ MemoryInv(c) /\ [Next]_vars => MemoryInv(c)'
  BY MemoryInvNext
<1>3. TypeOK /\ MemoryInv(c) /\ TalkInv(c) /\ [Next]_vars => TalkInv(c)'
  BY TalkNext
<1>4. TalkInv(c) => NoGarbledReply
  BY DEF TalkInv, Clean
<1> QED
  BY <1>1, <1>2, <1>3, <1>4, SessionType, PTL DEF Spec
=============================================================================

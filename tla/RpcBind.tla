------------------------------ MODULE RpcBind ------------------------------
(***************************************************************************)
(* Presentation-context negotiation: the pure part of handle_bind          *)
(* (crates/vlmcsd-rpc/src/bind.rs) and the NDR decision of handle_request  *)
(* (crates/vlmcsd-rpc/src/lib.rs).                                         *)
(*                                                                         *)
(* A bind or alter-context request offers a sequence of context items.  An *)
(* item keeps what the code compares: the 16-bit context id, whether the   *)
(* interface UUID is the KMS one, and which transfer syntax it names.      *)
(***************************************************************************)
EXTENDS Integers, Sequences

\* header.rs: the value of ndr_ctx and ndr64_ctx before any acceptance.  It
\* is also a value a peer may choose as a context id.
RPC_INVALID_CTX == 65535

\* Transfer syntaxes told apart by the code; "other" is any fourth UUID.
Syntaxes == {"ndr32", "ndr64", "btfn", "other"}

CtxItem(ids) == [ctx : ids, ours : BOOLEAN, syn : Syntaxes]

\* Mutant: any offered syntax counts as NDR64.
HasNdr64Mut(items) == items # <<>>

\* The first loop: NDR64 counts as possible as soon as ANY item names it,
\* whatever interface that item is for.
HasNdr64(items) == \E i \in DOMAIN items : items[i].syn = "ndr64"

\* The results that carry RPC_BIND_ACCEPT, by the syntax they accept.
AcceptedNdr32(items) ==
  {i \in DOMAIN items : /\ items[i].ours
                        /\ items[i].syn = "ndr32"
                        /\ ~HasNdr64(items)}

AcceptedNdr64(items) ==
  {i \in DOMAIN items : /\ items[i].ours
                        /\ items[i].syn = "ndr64"
                        /\ HasNdr64(items)}

\* Context ids the acknowledgement accepts, and the one syntax it accepts.
AcceptedIds(items) ==
  {items[i].ctx : i \in AcceptedNdr32(items) \cup AcceptedNdr64(items)}

AcceptedSyntax(items) ==
  CASE AcceptedIds(items) = {} -> "none"
    [] HasNdr64(items)         -> "ndr64"
    [] OTHER                   -> "ndr32"

\* Mutant: the variable is reset when the offer accepts nothing for it.
LastOfMut(items, accepted, old) ==
  IF accepted = {}
  THEN {RPC_INVALID_CTX}
  ELSE {items[m].ctx : m \in {i \in accepted : \A k \in accepted : k <= i}}

\* The second loop assigns the context variable once per accepted item, in
\* order: the last accepted item wins, and with none the old value stays.
LastOf(items, accepted, old) ==
  IF accepted = {}
  THEN {old}
  ELSE {items[m].ctx : m \in {i \in accepted : \A k \in accepted : k <= i}}

\* Mutant: once NDR64 has been accepted every request is read as NDR64.
DecodedAsMut(ctx, ndr64) ==
  IF ndr64 # RPC_INVALID_CTX THEN "ndr64" ELSE "ndr32"

\* handle_request: a request is decoded as NDR64 iff its context id is the
\* remembered NDR64 one; every other id, accepted or not, is read as NDR32.
DecodedAs(ctx, ndr64) ==
  IF ctx = ndr64 /\ ndr64 # RPC_INVALID_CTX THEN "ndr64" ELSE "ndr32"
=============================================================================

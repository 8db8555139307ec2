---------------------------- MODULE MCRpcSession ----------------------------
(* Small instances of RpcSession: the offers and bodies the runs use. *)
EXTENDS RpcSession

Item(c, ours, syn) == [ctx |-> c, ours |-> ours, syn |-> syn]

\* What Windows clients offer: NDR32 on context 0, NDR64 on context 1 and the
\* bind-time features on context 2; and an offer of another interface only.
Ndr32Only == <<Item(0, TRUE, "ndr32")>>
Both      == <<Item(0, TRUE, "ndr32"), Item(1, TRUE, "ndr64")>>
Features  == <<Item(0, TRUE, "ndr32"), Item(1, TRUE, "ndr64"),
               Item(2, TRUE, "btfn")>>
Foreign   == <<Item(0, FALSE, "other")>>

DedicatedOffers == {Ndr32Only, Both, Foreign}
WindowsOffers   == {Ndr32Only, Features, Foreign}

\* The id that carried NDR64 is offered again under NDR32.
ReusingOffers == {<<Item(1, TRUE, "ndr64")>>, <<Item(1, TRUE, "ndr32")>>}

Kms(v, long, wide) == [ver |-> v, long |-> long, wide |-> wide]
GoodBodies == {Kms(6, TRUE, FALSE)}
AllBodies  == {Kms(4, TRUE, FALSE), Kms(6, FALSE, FALSE), Kms(5, TRUE, TRUE)}

FullForm == {"full"}
=============================================================================

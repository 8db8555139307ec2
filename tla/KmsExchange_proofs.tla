------------------------- MODULE KmsExchange_proofs -------------------------
(***************************************************************************)
(* Proofs about KmsExchange, for any number of requests, any timeout and   *)
(* either kind of server.                                                  *)
(***************************************************************************)
EXTENDS KmsExchange, TLAPS

-----------------------------------------------------------------------------
(* Sequences. *)

LEMMA Pop ==
  ASSUME NEW S, NEW q \in Seq(S), q # <<>>
  PROVE  /\ Tail(q) \in Seq(S) /\ Len(q) \in Nat /\ Len(q) > 0
         /\ Len(Tail(q)) = Len(q) - 1
         /\ \A i \in 1..(Len(q) - 1) : Tail(q)[i] = q[i + 1]
         /\ Head(q) = q[1] /\ q[1] \in S
  OBVIOUS

LEMMA Put ==
  ASSUME NEW S, NEW q \in Seq(S), NEW e \in S
  PROVE  /\ Append(q, e) \in Seq(S) /\ Len(q) \in Nat /\ Len(Append(q, e)) = Len(q) + 1
         /\ \A i \in 1..Len(q) : Append(q, e)[i] = q[i]
         /\ Append(q, e)[Len(q) + 1] = e
  OBVIOUS

LEMMA Push ==
  ASSUME NEW S, NEW q \in Seq(S), NEW a \in S, NEW b \in S
  PROVE  /\ q \o <<a, b>> \in Seq(S) /\ Len(q) \in Nat /\ Len(q \o <<a, b>>) = Len(q) + 2
         /\ \A i \in 1..Len(q) : (q \o <<a, b>>)[i] = q[i]
         /\ (q \o <<a, b>>)[Len(q) + 1] = a /\ (q \o <<a, b>>)[Len(q) + 2] = b
  OBVIOUS

LEMMA Cut ==
  ASSUME NEW S, NEW q \in Seq(S), NEW k \in 0..Len(q)
  PROVE  /\ SubSeq(q, 1, k) \in Seq(S) /\ Len(q) \in Nat /\ Len(SubSeq(q, 1, k)) = k
         /\ \A i \in 1..k : SubSeq(q, 1, k)[i] = q[i]
  OBVIOUS

LEMMA Empty ==
  ASSUME NEW S
  PROVE  <<>> \in Seq(S) /\ Len(<<>>) = 0
  OBVIOUS

LEMMA AnswerKinds ==
  ASSUME NEW i \in 0..MaxRequests
  PROVE  KindsOf(i) \subseteq Kinds
  BY ExchangeAssumption DEF KindsOf, Kinds

LEMMA AnswerChunks ==
  ASSUME NEW i \in 0..MaxRequests, NEW kind \in Kinds
  PROVE  /\ [part |-> "hdr", of |-> i, kind |-> kind] \in Chunks
         /\ [part |-> "body", of |-> i, kind |-> kind] \in Chunks
  BY DEF Chunks

-----------------------------------------------------------------------------
(* Types. *)

\* The part of the type invariant that says what a step does to the wire.
WireType == inbox \in Seq(0..n) /\ stream \in Seq(Chunks) /\ up \in BOOLEAN

\* The requests that are done are those before the one waited for.
Counted ==
  Len(results) = cur - (IF cpc \in {"hdr", "body", "panic"} THEN 1 ELSE 0)

LEMMA TypeInit == Init => TypeOK
<1> SUFFICES ASSUME Init PROVE TypeOK
  OBVIOUS
<1>1. /\ n \in 0..MaxRequests /\ cpc = "bind" /\ cur = 0 /\ got = 0 /\ in_step = TRUE
      /\ results = <<>> /\ inbox = <<>> /\ stream = <<>> /\ up = TRUE
  BY DEF Init
<1>2. cur \in 0..n /\ got \in 0..Garbage
  BY <1>1, ExchangeAssumption DEF Garbage
<1>3. /\ results \in Seq(Failed..Garbage) /\ inbox \in Seq(0..n) /\ stream \in Seq(Chunks)
      /\ Len(results) = 0
  BY <1>1, Empty
<1>4. cpc \in ClientStates
  BY <1>1 DEF ClientStates
<1>5. Len(results) = cur - (IF cpc \in {"hdr", "body", "panic"} THEN 1 ELSE 0)
  <2>1. cpc \notin {"hdr", "body", "panic"} /\ cur - 0 = Len(results)
    BY <1>1, <1>3
  <2>2. (IF cpc \in {"hdr", "body", "panic"} THEN 1 ELSE 0) = 0
    BY <2>1, Zenon
  <2> QED
    BY <2>1, <2>2, Zenon
<1> QED
  BY <1>1, <1>2, <1>3, <1>4, <1>5 DEF TypeOK

LEMMA TypeFacts ==
  ASSUME TypeOK
  PROVE  /\ n \in Nat /\ n <= MaxRequests /\ MaxRequests \in Nat /\ cpc \in ClientStates
         /\ cur \in Nat /\ cur <= n /\ got \in 0..Garbage /\ Garbage = MaxRequests + 1
         /\ Failed = -1 /\ in_step \in BOOLEAN
         /\ results \in Seq(Failed..Garbage) /\ Len(results) \in Nat /\ Counted
         /\ WireType
  BY ExchangeAssumption DEF TypeOK, Garbage, Failed, Counted, WireType

LEMMA ServerType ==
  ASSUME TypeOK, ServerAnswer \/ ServerClose
  PROVE  TypeOK'
<1>1. clientVars' = clientVars
  BY DEF ServerAnswer, ServerClose
<1>2. WireType'
  <2>1. CASE ServerAnswer
    <3>1. inbox # <<>> /\ inbox' = Tail(inbox) /\ up' = up /\ inbox \in Seq(0..n)
      BY <2>1, TypeFacts DEF ServerAnswer, WireType
    <3>2. Head(inbox) \in 0..n /\ inbox' \in Seq(0..n)
      BY <3>1, Pop
    <3>3. Head(inbox) \in 0..MaxRequests
      BY <3>2, TypeFacts
    <3>4. PICK kind \in Kinds : stream' = stream \o Answer(Head(inbox), kind)
      BY <2>1, <3>3, AnswerKinds DEF ServerAnswer
    <3>5. stream' \in Seq(Chunks)
      BY <3>4, <3>3, AnswerChunks, Push, TypeFacts DEF Answer, WireType
    <3> QED
      BY <1>1, <3>1, <3>2, <3>5, TypeFacts DEF WireType, clientVars
  <2>2. CASE ServerClose
    <3>1. PICK k \in 0..Len(stream) : stream' = SubSeq(stream, 1, k)
      BY <2>2 DEF ServerClose
    <3>2. stream' \in Seq(Chunks)
      BY <3>1, Cut, TypeFacts DEF WireType
    <3>3. inbox' \in Seq(0..n) /\ up' \in BOOLEAN
      BY <2>2, Empty DEF ServerClose
    <3> QED
      BY <1>1, <3>2, <3>3 DEF WireType, clientVars
  <2> QED
    BY <2>1, <2>2
<1> QED
  BY <1>1, <1>2 DEF TypeOK, WireType, clientVars

\* What the steps of the client do to the wire.
LEMMA WireWrite ==
  ASSUME TypeOK, NEW i \in 0..n, Write(i), n' = n, stream' = stream, up' = up
  PROVE  WireType'
<1>1. inbox' = Append(inbox, i) \/ inbox' = inbox
  BY DEF Write
<1>2. inbox' \in Seq(0..n)
  <2>1. inbox \in Seq(0..n)
    BY TypeFacts DEF WireType
  <2> QED
    BY <1>1, <2>1, Put
<1> QED
  BY <1>2, TypeFacts DEF WireType

LEMMA WireRead ==
  ASSUME TypeOK, stream' = stream \/ (stream # <<>> /\ stream' = Tail(stream)),
         n' = n, inbox' = inbox, up' = up
  PROVE  WireType'
<1>1. stream' \in Seq(Chunks)
  BY Pop, TypeFacts DEF WireType
<1> QED
  BY <1>1, TypeFacts DEF WireType

\* A step that ends a request, with an answer or without.
LEMMA TypeDone ==
  ASSUME TypeOK, WireType', n' = n, cur' \in 0..n, got' \in 0..Garbage, in_step' \in BOOLEAN,
         NEW r \in Failed..Garbage, results' = Append(results, r), cur' = Len(results) + 1,
         cpc' \in {"send", "exit1"}
  PROVE  TypeOK'
<1>1. results' \in Seq(Failed..Garbage) /\ Len(results') = Len(results) + 1
  BY Put, TypeFacts
<1>2. Counted'
  BY <1>1, TypeFacts DEF Counted
<1>3. n' \in 0..MaxRequests /\ cpc' \in ClientStates
  BY TypeFacts DEF TypeOK, ClientStates
<1> QED
  BY <1>1, <1>2, <1>3 DEF TypeOK, WireType, Counted

\* A step that does not.
LEMMA TypeOn ==
  ASSUME TypeOK, WireType', n' = n, cur' \in 0..n, got' \in 0..Garbage, in_step' \in BOOLEAN,
         results' = results, cpc' \in ClientStates, Counted'
  PROVE  TypeOK'
<1>1. n' \in 0..MaxRequests
  BY DEF TypeOK
<1> QED
  BY <1>1, TypeFacts DEF TypeOK, WireType, Counted

LEMMA FailFacts ==
  ASSUME FailRequest
  PROVE  /\ Failed \in Failed..Garbage /\ results' = Append(results, Failed)
         /\ cpc' \in {"send", "exit1"} /\ (n = 1 => cpc' = "exit1")
  BY ExchangeAssumption DEF FailRequest, Failed, Garbage

LEMMA BindType ==
  ASSUME TypeOK, BindSend \/ BindHeader \/ BindBody
  PROVE  TypeOK'
<1>1. /\ n' = n /\ cur' = cur /\ got' = got /\ in_step' = in_step /\ results' = results
      /\ up' = up /\ cpc \in {"bind", "bind_hdr", "bind_body"}
      /\ cpc' \in {"bind_hdr", "bind_body", "send", "exit1"}
  BY DEF BindSend, BindHeader, BindBody
<1>2. Counted' /\ cpc' \in ClientStates
  BY <1>1, TypeFacts DEF Counted, ClientStates
<1>3. WireType'
  <2>1. CASE BindSend
    <3>1. Write(0) /\ stream' = stream /\ 0 \in 0..n
      BY <2>1, TypeFacts DEF BindSend
    <3> QED
      BY <1>1, <3>1, WireWrite
  <2>2. CASE BindHeader \/ BindBody
    <3>1. /\ stream' = stream \/ (stream # <<>> /\ stream' = Tail(stream))
          /\ inbox' = inbox
      BY <2>2 DEF BindHeader, BindBody
    <3> QED
      BY <1>1, <3>1, WireRead
  <2> QED
    BY <2>1, <2>2
<1>4. cur' \in 0..n /\ got' \in 0..Garbage /\ in_step' \in BOOLEAN
  BY <1>1, TypeFacts
<1> QED
  BY <1>1, <1>2, <1>3, <1>4, TypeOn

LEMMA SendType ==
  ASSUME TypeOK, SendRequest
  PROVE  TypeOK'
<1>1. /\ cpc = "send" /\ cur < n /\ cur' = cur + 1 /\ n' = n /\ got' = got
      /\ in_step' = in_step /\ up' = up /\ stream' = stream /\ Write(cur + 1)
  BY DEF SendRequest
<1>2. cur + 1 \in 0..n /\ Len(results) = cur
  BY <1>1, TypeFacts DEF Counted
<1>3. WireType'
  BY <1>1, <1>2, WireWrite
<1>4. got' \in 0..Garbage /\ in_step' \in BOOLEAN
  BY <1>1, TypeFacts
<1>5. CASE cpc' = "hdr" /\ results' = results
  <2>1. Counted' /\ cpc' \in ClientStates
    BY <1>1, <1>2, <1>5, TypeFacts DEF Counted, ClientStates
  <2> QED
    BY <1>1, <1>2, <1>3, <1>4, <1>5, <2>1, TypeOn
<1>6. CASE FailRequest
  BY <1>1, <1>2, <1>3, <1>4, <1>6, FailFacts, TypeDone
<1> QED
  BY <1>5, <1>6 DEF SendRequest

LEMMA ReadType ==
  ASSUME TypeOK, ReadHeader \/ ReadBody \/ ReadGarbage
  PROVE  TypeOK'
<1>1. /\ cpc \in {"hdr", "body"} /\ n' = n /\ cur' = cur /\ up' = up /\ inbox' = inbox
      /\ stream' = stream \/ (stream # <<>> /\ stream' = Tail(stream))
  BY DEF ReadHeader, ReadBody, ReadGarbage
<1>2. WireType' /\ cur' \in 0..n /\ cur' = Len(results) + 1
  <2>1. WireType'
    BY <1>1, WireRead
  <2> QED
    BY <1>1, <2>1, TypeFacts DEF Counted
<1>3. got' \in 0..Garbage /\ in_step' \in BOOLEAN
  <2>1. got' = got \/ got' = Garbage \/ (stream # <<>> /\ got' = Head(stream).of)
    BY DEF ReadHeader, ReadBody, ReadGarbage
  <2>2. stream # <<>> => Head(stream).of \in 0..MaxRequests
    <3>1. stream # <<>> => Head(stream) \in Chunks
      BY Pop, TypeFacts DEF WireType
    <3> QED
      BY <3>1 DEF Chunks
  <2>3. in_step' = in_step \/ in_step' = FALSE
    BY DEF ReadHeader, ReadBody, ReadGarbage
  <2>4. Garbage \in 0..Garbage /\ 0..MaxRequests \subseteq 0..Garbage
    BY ExchangeAssumption DEF Garbage
  <2> QED
    BY <2>1, <2>2, <2>3, <2>4, TypeFacts
<1>4. CASE results' = results /\ cpc' \in {"body", "panic"}
  <2>1. Counted' /\ cpc' \in ClientStates
    BY <1>1, <1>4, TypeFacts DEF Counted, ClientStates
  <2> QED
    BY <1>1, <1>2, <1>3, <1>4, <2>1, TypeOn
<1>5. CASE FailRequest
  BY <1>1, <1>2, <1>3, <1>5, FailFacts, TypeDone
<1>6. ASSUME NEW r \in {got, Garbage}, results' = Append(results, r), cpc' = "send"
      PROVE  TypeOK'
  <2>1. r \in Failed..Garbage
    BY <1>6, TypeFacts
  <2> QED
    BY <1>1, <1>2, <1>3, <1>6, <2>1, TypeDone
<1> QED
  BY <1>4, <1>5, <1>6 DEF ReadHeader, ReadBody, ReadGarbage

LEMMA OtherType ==
  ASSUME TypeOK, Exit \/ Timeout
  PROVE  TypeOK'
<1>1. /\ n' = n /\ cur' = cur /\ got' = got /\ up' = up /\ inbox' = inbox /\ stream' = stream
      /\ in_step' = in_step \/ in_step' = FALSE
  BY DEF Exit, Timeout
<1>2. WireType' /\ cur' \in 0..n /\ got' \in 0..Garbage /\ in_step' \in BOOLEAN
  <2>1. WireType'
    BY <1>1, WireRead
  <2>2. cur' \in 0..n /\ got' \in 0..Garbage
    BY <1>1, TypeFacts
  <2>3. in_step' \in BOOLEAN
    BY <1>1, TypeFacts
  <2> QED
    BY <2>1, <2>2, <2>3
<1>3. CASE Exit \/ (cpc \in {"bind_hdr", "bind_body"} /\ cpc' = "exit1" /\ results' = results)
  <2>1. cpc \in {"send", "bind_hdr", "bind_body"} /\ cpc' \in {"done", "exit1"} /\ results' = results
    BY <1>3 DEF Exit
  <2>2. Counted' /\ cpc' \in ClientStates
    BY <1>1, <2>1, TypeFacts DEF Counted, ClientStates
  <2> QED
    BY <1>1, <1>2, <2>1, <2>2, TypeOn
<1>4. CASE cpc \in {"hdr", "body"} /\ FailRequest
  <2>1. cur' = Len(results) + 1
    BY <1>1, <1>4, TypeFacts DEF Counted
  <2> QED
    BY <1>1, <1>2, <1>4, <2>1, FailFacts, TypeDone
<1> QED
  BY <1>3, <1>4 DEF Timeout

LEMMA TypeKept == TypeOK /\ UNCHANGED vars => TypeOK'
<1> SUFFICES ASSUME TypeOK, UNCHANGED vars PROVE TypeOK'
  OBVIOUS
<1>1. /\ n' = n /\ cpc' = cpc /\ cur' = cur /\ got' = got /\ in_step' = in_step
      /\ results' = results /\ inbox' = inbox /\ stream' = stream /\ up' = up
  BY DEF vars
<1> QED
  BY <1>1 DEF TypeOK

LEMMA TypeNext == TypeOK /\ [Next]_vars => TypeOK'
BY ServerType, BindType, SendType, ReadType, OtherType, TypeKept DEF Next, Client, Finished

\* The types hold for any number of requests; above all every request that is done
\* has left exactly one result.
THEOREM ExchangeType == Spec => []TypeOK
BY TypeInit, TypeNext, PTL DEF Spec

-----------------------------------------------------------------------------
(* The wire: answers come whole and in the order of the requests. *)

\* s is a stream of chunks and b the requests that are not answered yet.
Ordered(s, b) ==
  /\ \A i \in 1..(Len(s) - 1) :
       IF s[i].part = "hdr" THEN s[i + 1].part = "body" /\ s[i + 1].of = s[i].of
                            ELSE s[i + 1].part = "hdr"
  /\ \A i, j \in 1..Len(s) :
       i < j => /\ s[i].of <= s[j].of
                /\ s[i].part = "body" => s[i].of < s[j].of
  /\ \A i \in 1..Len(s), k \in 1..Len(b) : s[i].of < b[k]
  /\ \A k, l \in 1..Len(b) : k < l => b[k] < b[l]

\* All that is on its way lies between two requests.
Within(s, b, low, high) ==
  /\ \A i \in 1..Len(s) : low <= s[i].of /\ s[i].of <= high
  /\ \A k \in 1..Len(b) : low <= b[k] /\ b[k] <= high

\* A server that is up has finished its last answer.
Whole(s) == s # <<>> => s[Len(s)].part = "body"

LEMMA ChunkFacts ==
  ASSUME NEW s \in Seq(Chunks)
  PROVE  \A i \in 1..Len(s) : /\ s[i].part \in {"hdr", "body"}
                               /\ s[i].of \in Nat /\ s[i].of <= MaxRequests
                               /\ s[i].kind \in Kinds
<1>1. \A i \in 1..Len(s) : s[i] \in Chunks
  OBVIOUS
<1> QED
  BY <1>1, ExchangeAssumption DEF Chunks

LEMMA RequestFacts ==
  ASSUME TypeOK, NEW b \in Seq(0..n)
  PROVE  \A k \in 1..Len(b) : b[k] \in Nat
  BY TypeFacts

LEMMA OrderedPop ==
  ASSUME NEW s \in Seq(Chunks), NEW b, Ordered(s, b), s # <<>>, NEW low, NEW high,
         Within(s, b, low, high)
  PROVE  Ordered(Tail(s), b) /\ Within(Tail(s), b, low, high) /\ (Whole(s) => Whole(Tail(s)))
<1>1. /\ Len(s) \in Nat /\ Len(s) > 0 /\ Len(Tail(s)) = Len(s) - 1
      /\ \A i \in 1..(Len(s) - 1) : Tail(s)[i] = s[i + 1]
      /\ Tail(s) \in Seq(Chunks)
  BY Pop
<1> DEFINE t == Tail(s)
<1>2. Len(t) = Len(s) - 1 /\ \A i \in 1..Len(t) : t[i] = s[i + 1]
  BY <1>1
<1>3. t # <<>> => Len(t) > 0
  BY <1>1
<1> HIDE DEF t
<1>4. Ordered(t, b)
  <2>1. \A i \in 1..(Len(t) - 1) :
          IF t[i].part = "hdr" THEN t[i + 1].part = "body" /\ t[i + 1].of = t[i].of
                               ELSE t[i + 1].part = "hdr"
    <3> SUFFICES ASSUME NEW i \in 1..(Len(t) - 1)
                 PROVE  IF t[i].part = "hdr" THEN t[i + 1].part = "body" /\ t[i + 1].of = t[i].of
                                             ELSE t[i + 1].part = "hdr"
      OBVIOUS
    <3>1. t[i] = s[i + 1] /\ t[i + 1] = s[(i + 1) + 1] /\ i + 1 \in 1..(Len(s) - 1)
      BY <1>1, <1>2
    <3> QED
      BY <3>1 DEF Ordered
  <2>2. \A i, j \in 1..Len(t) :
          i < j => t[i].of <= t[j].of /\ (t[i].part = "body" => t[i].of < t[j].of)
    <3> SUFFICES ASSUME NEW i \in 1..Len(t), NEW j \in 1..Len(t), i < j
                 PROVE  t[i].of <= t[j].of /\ (t[i].part = "body" => t[i].of < t[j].of)
      OBVIOUS
    <3>1. /\ t[i] = s[i + 1] /\ t[j] = s[j + 1] /\ i + 1 \in 1..Len(s) /\ j + 1 \in 1..Len(s)
          /\ i + 1 < j + 1
      BY <1>1, <1>2
    <3> QED
      BY <3>1 DEF Ordered
  <2>3. \A i \in 1..Len(t), k \in 1..Len(b) : t[i].of < b[k]
    <3> SUFFICES ASSUME NEW i \in 1..Len(t), NEW k \in 1..Len(b) PROVE t[i].of < b[k]
      OBVIOUS
    <3>1. t[i] = s[i + 1] /\ i + 1 \in 1..Len(s)
      BY <1>1, <1>2
    <3> QED
      BY <3>1 DEF Ordered
  <2> QED
    BY <2>1, <2>2, <2>3 DEF Ordered
<1>5. Within(t, b, low, high)
  <2>1. \A i \in 1..Len(t) : t[i] = s[i + 1] /\ i + 1 \in 1..Len(s)
    BY <1>1, <1>2
  <2> QED
    BY <2>1 DEF Within
<1>6. Whole(s) => Whole(t)
  <2>1. t # <<>> => t[Len(t)] = s[Len(s)]
    BY <1>1, <1>2, <1>3
  <2> QED
    BY <1>1, <2>1 DEF Whole
<1> QED
  BY <1>4, <1>5, <1>6 DEF t

LEMMA OrderedCut ==
  ASSUME NEW s \in Seq(Chunks), NEW b, Ordered(s, b), NEW k \in 0..Len(s), NEW low, NEW high,
         Within(s, b, low, high)
  PROVE  Ordered(SubSeq(s, 1, k), <<>>) /\ Within(SubSeq(s, 1, k), <<>>, low, high)
<1> DEFINE t == SubSeq(s, 1, k)
<1>1. Len(t) = k /\ Len(s) \in Nat /\ \A i \in 1..k : t[i] = s[i] /\ i \in 1..Len(s)
  BY Cut
<1>2. Len(<<>>) = 0
  OBVIOUS
<1> HIDE DEF t
<1>3. \A i \in 1..(Len(t) - 1) : /\ i \in 1..(Len(s) - 1) /\ t[i] = s[i]
                                  /\ t[i + 1] = s[i + 1]
  BY <1>1
<1>4. Ordered(t, <<>>)
  <2>1. \A i \in 1..(Len(t) - 1) :
          IF t[i].part = "hdr" THEN t[i + 1].part = "body" /\ t[i + 1].of = t[i].of
                               ELSE t[i + 1].part = "hdr"
    BY <1>3 DEF Ordered
  <2>2. \A i, j \in 1..Len(t) :
          i < j => t[i].of <= t[j].of /\ (t[i].part = "body" => t[i].of < t[j].of)
    BY <1>1 DEF Ordered
  <2> QED
    BY <1>2, <2>1, <2>2 DEF Ordered
<1>5. Within(t, <<>>, low, high)
  BY <1>1, <1>2 DEF Within
<1> QED
  BY <1>4, <1>5 DEF t

\* A request later than all that is on its way.
LEMMA OrderedWrite ==
  ASSUME NEW s \in Seq(Chunks), TypeOK, NEW b \in Seq(0..n), Ordered(s, b),
         NEW low \in Nat, NEW high \in Nat, Within(s, b, low, high),
         NEW c \in 0..n, c > high, c >= low
  PROVE  Ordered(s, Append(b, c)) /\ Within(s, Append(b, c), low, c)
<1> DEFINE d == Append(b, c)
<1>1. /\ Len(b) \in Nat /\ Len(d) = Len(b) + 1 /\ d[Len(b) + 1] = c
      /\ \A k \in 1..Len(b) : d[k] = b[k] /\ b[k] \in Nat
  BY Put, RequestFacts
<1>2. \A i \in 1..Len(s) : s[i].of \in Nat
  BY ChunkFacts
<1>3. /\ \A i \in 1..Len(s) : s[i].of < c
      /\ \A k \in 1..Len(b) : b[k] < c
  BY <1>1, <1>2, Empty DEF Within
<1> HIDE DEF d
<1>4. \A k \in 1..Len(d) : k \in 1..Len(b) \/ k = Len(b) + 1
  BY <1>1
<1>5. \A k, l \in 1..Len(d) : k < l => d[k] < d[l]
  <2> SUFFICES ASSUME NEW k \in 1..Len(d), NEW l \in 1..Len(d), k < l PROVE d[k] < d[l]
    OBVIOUS
  <2>1. k \in 1..Len(b)
    BY <1>1
  <2>2. CASE l \in 1..Len(b)
    BY <1>1, <2>1, <2>2 DEF Ordered
  <2>3. CASE l = Len(b) + 1
    BY <1>1, <1>3, <2>1, <2>3
  <2> QED
    BY <1>4, <2>2, <2>3
<1>6. \A i \in 1..Len(s), k \in 1..Len(d) : s[i].of < d[k]
  BY <1>1, <1>3, <1>4 DEF Ordered
<1>7. Ordered(s, d)
  BY <1>5, <1>6 DEF Ordered
<1>8. Within(s, d, low, c)
  <2>1. \A i \in 1..Len(s) : low <= s[i].of /\ s[i].of <= c
    BY <1>2, <1>3 DEF Within
  <2>2. \A k \in 1..Len(d) : low <= d[k] /\ d[k] <= c
    BY <1>1, <1>3, <1>4 DEF Within
  <2> QED
    BY <2>1, <2>2 DEF Within
<1> QED
  BY <1>7, <1>8 DEF d

\* The server answers the request it has read.
LEMMA OrderedPush ==
  ASSUME NEW s \in Seq(Chunks), TypeOK, NEW b \in Seq(0..n), b # <<>>,
         Ordered(s, b), Whole(s), NEW low \in Nat, NEW high \in Nat, Within(s, b, low, high),
         NEW kind \in Kinds
  PROVE  LET t == s \o Answer(Head(b), kind)
         IN  /\ Ordered(t, Tail(b)) /\ Within(t, Tail(b), low, high) /\ Whole(t)
             /\ t # <<>> /\ Head(t).part = (IF s = <<>> THEN "hdr" ELSE Head(s).part)
             /\ s # <<>> => Head(t) = Head(s)
<1> DEFINE t == s \o Answer(Head(b), kind)
           d == Tail(b)
           m == Len(s)
           q == b[1]
<1>1. /\ Len(b) \in Nat /\ Len(b) > 0 /\ Len(d) = Len(b) - 1 /\ d \in Seq(0..n)
      /\ Head(b) = q /\ q \in 0..n
      /\ \A k \in 1..(Len(b) - 1) : d[k] = b[k + 1]
  BY Pop
<1>2. q \in 0..MaxRequests
  BY <1>1, TypeFacts
<1>3. /\ m \in Nat /\ Len(t) = m + 2 /\ \A i \in 1..m : t[i] = s[i]
      /\ t[m + 1] = [part |-> "hdr", of |-> q, kind |-> kind]
      /\ t[m + 2] = [part |-> "body", of |-> q, kind |-> kind]
      /\ t \in Seq(Chunks)
  BY <1>1, <1>2, AnswerChunks, Push DEF Answer
<1>4. \A i \in 1..m : s[i].of \in Nat /\ s[i].part \in {"hdr", "body"}
  BY ChunkFacts
<1>5. \A k \in 1..Len(b) : b[k] \in Nat
  BY RequestFacts
<1>6. t # <<>> /\ Head(t) = t[1] /\ (s # <<>> => Head(s) = s[1] /\ m > 0)
  <2>1. Len(t) > 0
    BY <1>3
  <2>2. t # <<>>
    BY <2>1, Empty
  <2> QED
    BY <1>3, <2>2, Pop
<1>7. s = <<>> => m = 0
  BY Empty
<1>8. Whole(s) => (m > 0 => s[m].part = "body")
  BY <1>3, Empty DEF Whole
<1> HIDE DEF t, d, m, q
<1>9. /\ t[m + 1].part = "hdr" /\ t[m + 1].of = q /\ t[m + 2].part = "body" /\ t[m + 2].of = q
      /\ q \in Nat
  BY <1>1, <1>3
<1>10. \A i \in 1..m : s[i].of < q
  <2>1. 1 \in 1..Len(b)
    BY <1>1
  <2> QED
    BY <2>1 DEF Ordered, q, m
<1>11. \A i \in 1..Len(t) : i \in 1..m \/ i = m + 1 \/ i = m + 2
  BY <1>3
<1>12. \A i \in 1..(Len(t) - 1) :
         IF t[i].part = "hdr" THEN t[i + 1].part = "body" /\ t[i + 1].of = t[i].of
                              ELSE t[i + 1].part = "hdr"
  <2> SUFFICES ASSUME NEW i \in 1..(Len(t) - 1)
               PROVE  IF t[i].part = "hdr" THEN t[i + 1].part = "body" /\ t[i + 1].of = t[i].of
                                           ELSE t[i + 1].part = "hdr"
    OBVIOUS
  <2>1. CASE i < m
    <3>0. i \in 1..(m - 1) /\ i \in 1..m /\ i + 1 \in 1..m
      BY <1>3, <2>1
    <3>1. i \in 1..(m - 1) /\ t[i] = s[i] /\ t[i + 1] = s[i + 1]
      BY <1>3, <3>0
    <3> QED
      BY <3>1 DEF Ordered, m
  <2>2. CASE i = m
    <3>1. t[i].part = "body" /\ t[i + 1] = t[m + 1]
      BY <1>3, <1>8, <2>2
    <3> QED
      BY <1>9, <3>1
  <2>3. CASE i = m + 1
    <3>1. (m + 1) + 1 = m + 2
      BY <1>3
    <3> QED
      BY <1>9, <2>3, <3>1
  <2>4. i < m \/ i = m \/ i = m + 1
    BY <1>3
  <2> QED
    BY <2>1, <2>2, <2>3, <2>4
<1>13. \A i, j \in 1..Len(t) :
         i < j => t[i].of <= t[j].of /\ (t[i].part = "body" => t[i].of < t[j].of)
  <2> SUFFICES ASSUME NEW i \in 1..Len(t), NEW j \in 1..Len(t), i < j
               PROVE  t[i].of <= t[j].of /\ (t[i].part = "body" => t[i].of < t[j].of)
    OBVIOUS
  <2>1. CASE j \in 1..m
    <3>1. i \in 1..m /\ t[i] = s[i] /\ t[j] = s[j]
      BY <1>3, <2>1
    <3> QED
      BY <2>1, <3>1 DEF Ordered, m
  <2>2. CASE i \in 1..m /\ j \in {m + 1, m + 2}
    <3>1. t[i] = s[i] /\ t[j].of = q /\ s[i].of < q /\ s[i].of \in Nat
      BY <1>3, <1>4, <1>9, <1>10, <2>2
    <3> QED
      BY <1>9, <3>1
  <2>3. CASE i = m + 1 /\ j = m + 2
    BY <1>9, <2>3
  <2>4. \/ j \in 1..m
        \/ i \in 1..m /\ j \in {m + 1, m + 2}
        \/ i = m + 1 /\ j = m + 2
    BY <1>3, <1>11
  <2> QED
    BY <2>1, <2>2, <2>3, <2>4
<1>14. \A k \in 1..Len(d) : d[k] = b[k + 1] /\ k + 1 \in 1..Len(b) /\ b[k + 1] > q
  BY <1>1, <1>5 DEF Ordered, q
<1>15. \A i \in 1..Len(t), k \in 1..Len(d) : t[i].of < d[k]
  <2> SUFFICES ASSUME NEW i \in 1..Len(t), NEW k \in 1..Len(d) PROVE t[i].of < d[k]
    OBVIOUS
  <2>1. d[k] = b[k + 1] /\ b[k + 1] \in Nat /\ q < b[k + 1]
    BY <1>5, <1>9, <1>14
  <2>2. t[i].of \in Nat /\ t[i].of <= q
    <3>1. CASE i \in 1..m
      <4>1. t[i] = s[i]
        BY <1>3, <3>1
      <4>2. s[i].of \in Nat /\ s[i].of < q
        BY <1>4, <1>10, <3>1
      <4> QED
        BY <1>9, <4>1, <4>2
    <3>2. CASE i = m + 1 \/ i = m + 2
      BY <1>9, <3>2
    <3> QED
      BY <1>11, <3>1, <3>2
  <2> QED
    BY <1>9, <2>1, <2>2
<1>16. \A k, l \in 1..Len(d) : k < l => d[k] < d[l]
  <2> SUFFICES ASSUME NEW k \in 1..Len(d), NEW l \in 1..Len(d), k < l PROVE d[k] < d[l]
    OBVIOUS
  <2>1. /\ d[k] = b[k + 1] /\ d[l] = b[l + 1] /\ k + 1 \in 1..Len(b) /\ l + 1 \in 1..Len(b)
        /\ k + 1 < l + 1
    BY <1>1, <1>14
  <2> QED
    BY <2>1 DEF Ordered
<1>17. Ordered(t, d)
  BY <1>12, <1>13, <1>15, <1>16 DEF Ordered
<1>18. Within(t, d, low, high)
  <2>1. low <= q /\ q <= high
    BY <1>1 DEF Within, q
  <2>2. \A i \in 1..Len(t) : low <= t[i].of /\ t[i].of <= high
    BY <1>3, <1>9, <1>11, <2>1 DEF Within, m
  <2>3. \A k \in 1..Len(d) : low <= d[k] /\ d[k] <= high
    BY <1>14 DEF Within
  <2> QED
    BY <2>2, <2>3 DEF Within
<1>19. Whole(t)
  BY <1>3, <1>9 DEF Whole
<1>20. Head(t).part = (IF s = <<>> THEN "hdr" ELSE Head(s).part) /\ (s # <<>> => Head(t) = Head(s))
  <2>1. CASE s = <<>>
    BY <1>6, <1>7, <1>9, <2>1
  <2>2. CASE s # <<>>
    <3>1. t[1] = s[1]
      BY <1>3, <1>6, <2>2
    <3> QED
      BY <1>6, <2>2, <3>1
  <2> QED
    BY <2>1, <2>2
<1> QED
  BY <1>6, <1>17, <1>18, <1>19, <1>20 DEF t, d

-----------------------------------------------------------------------------
(* The client on the wire. *)

BindStates == {"bind", "bind_hdr", "bind_body"}

\* Once the acknowledgement is read, only answers to requests are on their way.
Low == IF cpc \in {"send", "hdr", "body"} THEN 1 ELSE 0

Position ==
  /\ (cpc \in {"bind_hdr", "send", "hdr"} /\ stream # <<>>) => Head(stream).part = "hdr"
  /\ cpc \in {"bind_body", "body"} =>
       /\ up => stream # <<>>
       /\ stream # <<>> => Head(stream).part = "body"
  /\ cpc = "bind" => stream = <<>> /\ inbox = <<>>

\* No answer is on its way that is not later than all results.
Used ==
  \A i \in 1..Len(results) : /\ results[i] \in Failed..cur
                             /\ Within(stream, inbox, results[i] + 1, cur)

\* The answer whose header has been read is the one whose body comes next.
InHand ==
  cpc = "body" => /\ got \in 1..cur
                  /\ stream # <<>> => Head(stream).of = got
                  /\ \A i \in 1..Len(results) : results[i] < got

\* What holds while the stream has never been left inside an answer.
OnWire ==
  /\ Ordered(stream, inbox) /\ Within(stream, inbox, Low, cur) /\ (up => Whole(stream))
  /\ Position /\ Used /\ InHand

WireInv ==
  /\ TypeOK
  /\ ~up => inbox = <<>>
  /\ cpc \in BindStates => cur = 0 /\ in_step
  /\ (cpc = "body" /\ ~in_step) => got = Garbage
  /\ in_step => OnWire

LEMMA Widen ==
  ASSUME NEW s \in Seq(Chunks), TypeOK, NEW b \in Seq(0..n), NEW low \in Int, NEW high \in Nat,
         Within(s, b, low, high), NEW l \in Int, l <= low, NEW h \in Nat, high <= h
  PROVE  Within(s, b, l, h)
<1>1. /\ \A i \in 1..Len(s) : s[i].of \in Nat
      /\ \A k \in 1..Len(b) : b[k] \in Nat
  BY ChunkFacts, RequestFacts
<1> QED
  BY <1>1 DEF Within

LEMMA WireFacts ==
  ASSUME WireInv
  PROVE  /\ stream \in Seq(Chunks) /\ inbox \in Seq(0..n) /\ n \in Nat /\ n <= MaxRequests
         /\ cur \in Nat /\ cur <= n /\ Low \in Nat /\ up \in BOOLEAN /\ in_step \in BOOLEAN
         /\ Failed = -1 /\ Len(results) \in Nat /\ Garbage = MaxRequests + 1 /\ MaxRequests \in Nat
  BY TypeFacts DEF WireInv, WireType, Low

LEMMA UsedFacts ==
  ASSUME WireInv, Used
  PROVE  \A i \in 1..Len(results) : /\ results[i] \in Int /\ results[i] <= cur
                                     /\ results[i] + 1 \in Nat
                                     /\ Within(stream, inbox, results[i] + 1, cur)
  BY WireFacts DEF Used

LEMMA AnswerKeeps ==
  ASSUME WireInv, OnWire, ServerAnswer
  PROVE  OnWire'
<1>1. /\ n' = n /\ cpc' = cpc /\ cur' = cur /\ got' = got /\ results' = results
      /\ up' = up /\ up /\ inbox # <<>> /\ inbox' = Tail(inbox)
  BY DEF ServerAnswer, clientVars
<1>2. PICK kind \in Kinds : stream' = stream \o Answer(Head(inbox), kind)
  <2>1. inbox \in Seq(0..n) /\ n <= MaxRequests /\ n \in Nat /\ MaxRequests \in Nat
    BY TypeFacts DEF WireInv, WireType
  <2>2. Head(inbox) \in 0..MaxRequests
    BY <1>1, <2>1, Pop
  <2> QED
    BY <2>2, AnswerKinds DEF ServerAnswer
<1>3. /\ Ordered(stream, inbox) /\ Whole(stream) /\ TypeOK /\ Position /\ InHand /\ Used
      /\ Within(stream, inbox, Low, cur)
  BY <1>1 DEF OnWire, WireInv
<1>4. \A low \in Nat : Within(stream, inbox, low, cur) =>
        /\ Ordered(stream', inbox') /\ Within(stream', inbox', low, cur) /\ Whole(stream')
        /\ stream' # <<>>
        /\ Head(stream').part = (IF stream = <<>> THEN "hdr" ELSE Head(stream).part)
        /\ stream # <<>> => Head(stream') = Head(stream)
  <2> SUFFICES ASSUME NEW low \in Nat, Within(stream, inbox, low, cur)
               PROVE  /\ Ordered(stream', inbox') /\ Within(stream', inbox', low, cur)
                      /\ Whole(stream') /\ stream' # <<>>
                      /\ Head(stream').part = (IF stream = <<>> THEN "hdr" ELSE Head(stream).part)
                      /\ stream # <<>> => Head(stream') = Head(stream)
    OBVIOUS
  <2>1. stream \in Seq(Chunks) /\ inbox \in Seq(0..n) /\ cur \in Nat
    BY WireFacts
  <2>2. LET t == stream \o Answer(Head(inbox), kind)
        IN  /\ Ordered(t, Tail(inbox)) /\ Within(t, Tail(inbox), low, cur) /\ Whole(t)
            /\ t # <<>>
            /\ Head(t).part = (IF stream = <<>> THEN "hdr" ELSE Head(stream).part)
            /\ stream # <<>> => Head(t) = Head(stream)
    BY <1>1, <1>3, <2>1, OrderedPush, SMT
  <2> QED
    BY <1>1, <1>2, <2>2, Zenon
<1>5. /\ Ordered(stream', inbox') /\ Within(stream', inbox', Low', cur') /\ Whole(stream')
      /\ stream' # <<>>
      /\ Head(stream').part = (IF stream = <<>> THEN "hdr" ELSE Head(stream).part)
      /\ stream # <<>> => Head(stream') = Head(stream)
  BY <1>1, <1>3, <1>4, WireFacts DEF Low
<1>6. Position'
  BY <1>1, <1>3, <1>5 DEF Position
<1>7. Used'
  BY <1>1, <1>3, <1>4, UsedFacts DEF Used
<1>8. InHand'
  BY <1>1, <1>3, <1>5 DEF InHand, Position
<1> QED
  BY <1>5, <1>6, <1>7, <1>8 DEF OnWire

LEMMA CloseKeeps ==
  ASSUME WireInv, OnWire, ServerClose
  PROVE  OnWire'
<1>1. /\ n' = n /\ cpc' = cpc /\ cur' = cur /\ got' = got /\ results' = results
      /\ ~up' /\ inbox' = <<>>
  BY DEF ServerClose, clientVars
<1>2. PICK k \in 0..Len(stream) : stream' = SubSeq(stream, 1, k)
  BY DEF ServerClose
<1>3. /\ Ordered(stream, inbox) /\ TypeOK /\ Position /\ InHand /\ Used
      /\ Within(stream, inbox, Low, cur)
  BY DEF OnWire, WireInv
<1>4. \A low : Within(stream, inbox, low, cur) =>
        Ordered(stream', inbox') /\ Within(stream', inbox', low, cur)
  BY <1>1, <1>2, <1>3, WireFacts, OrderedCut, Zenon
<1>5. stream' # <<>> => stream # <<>> /\ Head(stream') = Head(stream)
  <2>1. /\ Len(stream') = k /\ Len(stream) \in Nat /\ stream' \in Seq(Chunks)
        /\ \A i \in 1..k : stream'[i] = stream[i]
    BY <1>2, Cut, WireFacts
  <2>2. stream' # <<>> => k > 0 /\ Head(stream') = stream'[1]
    BY <2>1, Pop
  <2>3. k > 0 => stream # <<>> /\ 1 \in 1..k
    BY <2>1, Empty
  <2> QED
    BY <2>1, <2>2, <2>3, Pop, WireFacts
<1>6. Ordered(stream', inbox') /\ Within(stream', inbox', Low', cur')
  BY <1>1, <1>3, <1>4 DEF Low
<1>7. Position'
  BY <1>1, <1>3, <1>5 DEF Position
<1>8. Used'
  BY <1>1, <1>3, <1>4 DEF Used
<1>9. InHand'
  BY <1>1, <1>3, <1>5 DEF InHand
<1> QED
  BY <1>1, <1>6, <1>7, <1>8, <1>9 DEF OnWire

\* A chunk is taken off the stream.
LEMMA PopKeeps ==
  ASSUME WireInv, OnWire, stream # <<>>, stream' = Tail(stream), inbox' = inbox, up' = up
  PROVE  /\ Ordered(stream', inbox') /\ (up' => Whole(stream'))
         /\ \A low : Within(stream, inbox, low, cur) => Within(stream', inbox', low, cur)
         /\ Head(stream).of \in Nat /\ Low <= Head(stream).of /\ Head(stream).of <= cur
         /\ \A low : Within(stream, inbox, low, cur) => low <= Head(stream).of
         /\ Head(stream).part = "hdr" =>
              /\ up => stream' # <<>>
              /\ stream' # <<>> => /\ Head(stream').part = "body"
                                  /\ Head(stream').of = Head(stream).of
         /\ Head(stream).part = "body" =>
              /\ stream' # <<>> => Head(stream').part = "hdr"
              /\ Within(stream', inbox', Head(stream).of + 1, cur)
<1> DEFINE s == stream
           t == stream'
<1>1. /\ Ordered(s, inbox) /\ (up => Whole(s)) /\ Within(s, inbox, Low, cur)
      /\ TypeOK /\ s \in Seq(Chunks) /\ inbox \in Seq(0..n)
  BY WireFacts DEF OnWire, WireInv
<1>2. /\ t \in Seq(Chunks) /\ Len(s) \in Nat /\ Len(s) > 0 /\ Len(t) = Len(s) - 1
      /\ \A i \in 1..(Len(s) - 1) : t[i] = s[i + 1]
      /\ Head(s) = s[1] /\ s[1] \in Chunks
  BY <1>1, Pop
<1>3. Ordered(t, inbox') /\ (up' => Whole(t))
  BY <1>1, OrderedPop
<1>4. \A low : Within(s, inbox, low, cur) => Within(t, inbox', low, cur)
  BY <1>1, OrderedPop
<1>5. t # <<>> => Len(t) > 0 /\ Head(t) = t[1] /\ t[1] = s[2] /\ 1 \in 1..(Len(s) - 1)
  <2>1. t # <<>> => Len(t) > 0 /\ Head(t) = t[1]
    BY <1>2, Pop
  <2> QED
    BY <1>2, <2>1
<1>6. t = <<>> => Len(s) = 1
  <2>1. t = <<>> => Len(t) = 0
    BY Empty
  <2> QED
    BY <1>2, <2>1
<1> HIDE DEF s, t
<1>7. 1 \in 1..Len(s) /\ (t # <<>> => 1 + 1 = 2)
  BY <1>2
<1>8. \A i \in 1..Len(s) : s[i].of \in Nat
  BY <1>1, ChunkFacts
<1>9. s[1].part = "hdr" => /\ up => t # <<>>
                           /\ t # <<>> => s[2].part = "body" /\ s[2].of = s[1].of
  <2>1. s[1].part = "hdr" /\ t # <<>> => s[2].part = "body" /\ s[2].of = s[1].of
    BY <1>1, <1>5, <1>7 DEF Ordered
  <2>2. up /\ t = <<>> => s[1].part = "body"
    <3>1. s # <<>>
      BY DEF s
    <3> QED
      BY <1>1, <1>6, <3>1 DEF Whole
  <2> QED
    BY <2>1, <2>2
<1>10. s[1].part = "body" => (t # <<>> => s[2].part = "hdr")
  BY <1>1, <1>5, <1>7 DEF Ordered
<1>11. s[1].part = "body" => Within(t, inbox, s[1].of + 1, cur)
  <2> SUFFICES ASSUME s[1].part = "body" PROVE Within(t, inbox, s[1].of + 1, cur)
    OBVIOUS
  <2>1. \A i \in 1..Len(t) : s[1].of < t[i].of /\ t[i].of <= cur
    <3> SUFFICES ASSUME NEW i \in 1..Len(t) PROVE s[1].of < t[i].of /\ t[i].of <= cur
      OBVIOUS
    <3>1. t[i] = s[i + 1] /\ i + 1 \in 1..Len(s) /\ 1 < i + 1
      BY <1>2
    <3> QED
      BY <1>1, <1>7, <3>1 DEF Ordered, Within
  <2>2. \A k \in 1..Len(inbox) : s[1].of < inbox[k] /\ inbox[k] <= cur
    BY <1>1, <1>7 DEF Ordered, Within
  <2>3. /\ \A i \in 1..Len(t) : t[i].of \in Nat
        /\ \A k \in 1..Len(inbox) : inbox[k] \in Nat
    BY <1>1, <1>2, ChunkFacts, RequestFacts
  <2> QED
    BY <1>7, <1>8, <2>1, <2>2, <2>3 DEF Within
<1>12. /\ s[1].of \in Nat /\ Low <= s[1].of /\ s[1].of <= cur
       /\ \A low : Within(s, inbox, low, cur) => low <= s[1].of
  BY <1>1, <1>7, <1>8 DEF Within
<1>13. /\ s[1].part = "hdr" =>
            /\ up => t # <<>>
            /\ t # <<>> => Head(t).part = "body" /\ Head(t).of = s[1].of
       /\ s[1].part = "body" =>
            /\ t # <<>> => Head(t).part = "hdr"
            /\ Within(t, inbox', s[1].of + 1, cur)
  BY <1>5, <1>9, <1>10, <1>11
<1> QED
  BY <1>2, <1>3, <1>4, <1>12, <1>13 DEF s, t

LEMMA BindKeeps ==
  ASSUME WireInv, OnWire, BindSend \/ BindHeader \/ BindBody
  PROVE  OnWire'
<1>1. /\ n' = n /\ cur' = cur /\ got' = got /\ results' = results /\ up' = up
      /\ cpc' # "body" /\ cpc \in BindStates
  BY DEF BindSend, BindHeader, BindBody, BindStates
<1>2. /\ Ordered(stream, inbox) /\ (up => Whole(stream)) /\ TypeOK /\ Position /\ Used
      /\ Within(stream, inbox, Low, cur) /\ cur = 0 /\ Low = 0
  BY <1>1 DEF OnWire, WireInv, Low, BindStates
<1>3. Len(results) = 0
  BY <1>1, <1>2, TypeFacts DEF Counted, BindStates
<1>4. Used' /\ InHand'
  BY <1>1, <1>3 DEF Used, InHand
<1>5. CASE BindSend
  <2>1. /\ cpc = "bind" /\ stream' = stream /\ Write(0) /\ cpc' \in {"bind_hdr", "exit1"}
        /\ stream = <<>> /\ inbox = <<>>
    BY <1>2, <1>5 DEF BindSend, Position
  <2>2. Low' = 0 /\ Position'
    BY <2>1 DEF Low, Position
  <2>3. Ordered(stream', inbox') /\ Within(stream', inbox', 0, 0)
    <3>1. CASE inbox' = inbox
      BY <1>2, <2>1, <3>1
    <3>2. CASE inbox' = Append(inbox, 0)
      <4>1. 0 \in 0..n /\ stream \in Seq(Chunks) /\ inbox \in Seq(0..n)
        BY WireFacts
      <4>2. /\ TypeOK /\ Ordered(stream, inbox) /\ Within(stream, inbox, 0, 0)
            /\ stream = <<>> /\ inbox = <<>>
        BY <1>2, <2>1
      <4>3. /\ Ordered(stream, Append(inbox, 0))
            /\ Within(stream, Append(inbox, 0), 0, 0)
        <5>1. /\ Len(stream) = 0 /\ Len(Append(inbox, 0)) = 1 /\ Append(inbox, 0)[1] = 0
          BY <4>2
        <5> DEFINE b == Append(inbox, 0)
        <5> HIDE DEF b
        <5>2. Len(stream) = 0 /\ Len(b) = 1 /\ b[1] = 0
          BY <5>1 DEF b
        <5>3. Ordered(stream, b) /\ Within(stream, b, 0, 0)
          BY <5>2 DEF Ordered, Within
        <5> QED
          BY <5>3 DEF b
      <4> QED
        BY <2>1, <3>2, <4>3
    <3> QED
      BY <2>1, <3>1, <3>2 DEF Write
  <2> QED
    BY <1>1, <1>2, <1>4, <2>1, <2>2, <2>3 DEF OnWire
<1>6. CASE BindHeader \/ BindBody
  <2>1. inbox' = inbox
    BY <1>6 DEF BindHeader, BindBody
  <2>2. CASE cpc' = "exit1" /\ stream' = stream
    BY <1>1, <1>2, <1>4, <2>1, <2>2 DEF OnWire, Low, Position
  <2>3. CASE stream # <<>> /\ stream' = Tail(stream)
    <3>1. /\ Ordered(stream', inbox') /\ (up' => Whole(stream'))
          /\ Within(stream', inbox', 0, 0)
          /\ Head(stream).of \in Nat /\ Head(stream).of <= 0
          /\ Head(stream).part = "hdr" =>
               /\ up => stream' # <<>>
               /\ stream' # <<>> => Head(stream').part = "body"
          /\ Head(stream).part = "body" =>
               /\ stream' # <<>> => Head(stream').part = "hdr"
               /\ Within(stream', inbox', Head(stream).of + 1, 0)
      BY <1>1, <1>2, <2>1, <2>3, PopKeeps
    <3>2. CASE cpc' = "exit1"
      BY <1>1, <1>2, <1>4, <3>1, <3>2 DEF OnWire, Low, Position
    <3>3. CASE cpc = "bind_hdr" /\ cpc' = "bind_body"
      <4>1. Position' /\ Low' = 0
        BY <1>1, <1>2, <2>3, <3>1, <3>3 DEF Position, Low
      <4> QED
        BY <1>1, <1>2, <1>4, <3>1, <4>1 DEF OnWire
    <3>4. CASE cpc = "bind_body" /\ cpc' = "send"
      <4>1. Position' /\ Low' = 1 /\ Head(stream).of + 1 = 1 /\ Head(stream).part = "body"
        BY <1>1, <1>2, <2>3, <3>1, <3>4 DEF Position, Low
      <4> QED
        BY <1>1, <1>2, <1>4, <3>1, <4>1 DEF OnWire
    <3> QED
      BY <1>6, <2>3, <3>2, <3>3, <3>4 DEF BindHeader, BindBody
  <2> QED
    BY <1>6, <2>2, <2>3 DEF BindHeader, BindBody
<1> QED
  BY <1>5, <1>6

\* A result is added that no later answer can equal.
LEMMA UsedAppend ==
  ASSUME WireInv, NEW r \in Failed..cur', results' = Append(results, r),
         Within(stream', inbox', r + 1, cur'),
         \A i \in 1..Len(results) : /\ results[i] \in Failed..cur'
                                    /\ Within(stream', inbox', results[i] + 1, cur')
  PROVE  Used'
<1>1. /\ Len(results) \in Nat /\ Len(results') = Len(results) + 1
      /\ \A i \in 1..Len(results) : results'[i] = results[i]
      /\ results'[Len(results) + 1] = r
  <2>1. results \in Seq(Failed..Garbage) /\ r \in Int /\ results \in Seq(Int)
    BY TypeFacts DEF WireInv
  <2> QED
    BY <2>1, Put
<1>2. \A i \in 1..Len(results') : i \in 1..Len(results) \/ i = Len(results) + 1
  BY <1>1
<1> QED
  BY <1>1, <1>2 DEF Used

LEMMA SendKeeps ==
  ASSUME WireInv, OnWire, SendRequest
  PROVE  OnWire'
<1>1. /\ cpc = "send" /\ cur < n /\ cur' = cur + 1 /\ n' = n /\ up' = up
      /\ stream' = stream /\ Write(cur + 1)
  BY DEF SendRequest
<1>2. /\ Ordered(stream, inbox) /\ (up => Whole(stream)) /\ TypeOK /\ Position /\ Used
      /\ Within(stream, inbox, 1, cur)
  BY <1>1 DEF OnWire, WireInv, Low
<1>3. /\ stream \in Seq(Chunks) /\ inbox \in Seq(0..n) /\ cur \in Nat /\ cur + 1 \in 0..n
      /\ cur + 1 \in Nat /\ cur + 1 > cur /\ Failed = -1
  BY <1>1, WireFacts
<1>4. \A low \in Nat : (Within(stream, inbox, low, cur) /\ low <= cur + 1) =>
        Ordered(stream', inbox') /\ Within(stream', inbox', low, cur')
  <2> SUFFICES ASSUME NEW low \in Nat, Within(stream, inbox, low, cur), low <= cur + 1
               PROVE  Ordered(stream', inbox') /\ Within(stream', inbox', low, cur')
    OBVIOUS
  <2>1. CASE inbox' = inbox
    <3>1. Within(stream, inbox, low, cur + 1)
      BY <1>2, <1>3, Widen
    <3> QED
      BY <1>1, <1>2, <2>1, <3>1
  <2>2. CASE inbox' = Append(inbox, cur + 1)
    <3>1. /\ Ordered(stream, Append(inbox, cur + 1))
          /\ Within(stream, Append(inbox, cur + 1), low, cur + 1)
      BY <1>2, <1>3, OrderedWrite
    <3> QED
      BY <1>1, <2>2, <3>1
  <2> QED
    BY <1>1, <2>1, <2>2 DEF Write
<1>5. Ordered(stream', inbox') /\ Within(stream', inbox', 1, cur') /\ Within(stream', inbox', 0, cur')
  <2>1. Within(stream, inbox, 0, cur)
    BY <1>2, <1>3, Widen
  <2> QED
    BY <1>2, <1>3, <1>4, <2>1
<1>6. \A i \in 1..Len(results) : /\ results[i] \in Failed..cur'
                                 /\ Within(stream', inbox', results[i] + 1, cur')
  <2> SUFFICES ASSUME NEW i \in 1..Len(results)
               PROVE  results[i] \in Failed..cur' /\ Within(stream', inbox', results[i] + 1, cur')
    OBVIOUS
  <2>1. /\ results[i] \in Int /\ results[i] <= cur /\ results[i] + 1 \in Nat
        /\ Within(stream, inbox, results[i] + 1, cur)
    BY <1>2, UsedFacts
  <2>2. results[i] + 1 <= cur + 1 /\ results[i] \in Failed..cur'
    BY <1>1, <1>3, <2>1
  <2> QED
    BY <1>4, <2>1, <2>2
<1>7. CASE cpc' = "hdr" /\ results' = results
  <2>1. Low' = 1 /\ Position' /\ InHand'
    BY <1>1, <1>2, <1>7 DEF Low, Position, InHand
  <2>2. Used'
    BY <1>6, <1>7 DEF Used
  <2> QED
    BY <1>1, <1>2, <1>5, <2>1, <2>2 DEF OnWire
<1>8. CASE FailRequest
  <2>1. Low' \in {0, 1} /\ Position' /\ InHand'
    BY <1>1, <1>2, <1>8, FailFacts DEF Low, Position, InHand
  <2>2. Failed \in Failed..cur' /\ Failed + 1 = 0
    BY <1>1, <1>3
  <2>3. Used'
    BY <1>5, <1>6, <1>8, <2>2, FailFacts, UsedAppend
  <2> QED
    BY <1>1, <1>2, <1>5, <2>1, <2>3 DEF OnWire
<1> QED
  BY <1>7, <1>8 DEF SendRequest

LEMMA LeaveKeeps ==
  ASSUME WireInv, OnWire, Exit \/ (Timeout /\ in_step')
  PROVE  OnWire'
<1>1. /\ n' = n /\ cur' = cur /\ got' = got /\ up' = up /\ inbox' = inbox /\ stream' = stream
      /\ cpc' \in {"done", "exit1", "send"}
  BY FailFacts DEF Exit, Timeout
<1>2. /\ Ordered(stream, inbox) /\ (up => Whole(stream)) /\ TypeOK /\ Position /\ Used
      /\ Within(stream, inbox, Low, cur)
  BY DEF OnWire, WireInv
<1>3. Within(stream, inbox, 0, cur)
  BY <1>2, Widen, WireFacts
<1>4. CASE results' = results /\ cpc' # "send"
  <2>1. Low' = 0 /\ Position' /\ InHand' /\ Used'
    BY <1>1, <1>2, <1>4 DEF Low, Position, InHand, Used
  <2> QED
    BY <1>1, <1>2, <1>3, <2>1 DEF OnWire
<1>5. CASE FailRequest /\ cpc = "hdr"
  <2>1. Position' /\ InHand' /\ Low = 1 /\ Low' \in {0, 1}
    BY <1>1, <1>2, <1>5 DEF Position, InHand, Low
  <2>2. Failed \in Failed..cur' /\ Failed + 1 = 0
    BY <1>1, WireFacts
  <2>3. \A i \in 1..Len(results) : /\ results[i] \in Failed..cur'
                                   /\ Within(stream', inbox', results[i] + 1, cur')
    BY <1>1, <1>2 DEF Used
  <2>4. Used'
    BY <1>1, <1>3, <1>5, <2>2, <2>3, FailFacts, UsedAppend
  <2> QED
    BY <1>1, <1>2, <1>3, <2>1, <2>4 DEF OnWire
<1> QED
  BY <1>1, <1>4, <1>5 DEF Exit, Timeout

\* The client stops waiting where it stands.
LEMMA EndKeeps ==
  ASSUME WireInv, OnWire, cpc \in {"hdr", "body"}, EndOfStream, FailRequest,
         UNCHANGED <<n, cur, got, inbox, stream, up>>
  PROVE  OnWire'
<1>1. /\ n' = n /\ cur' = cur /\ up' = up /\ inbox' = inbox /\ stream' = stream
      /\ stream = <<>> /\ ~up /\ Low = 1 /\ cpc' \in {"send", "exit1"}
  BY FailFacts DEF EndOfStream, Low
<1>2. /\ Ordered(stream, inbox) /\ TypeOK /\ Used /\ Within(stream, inbox, 1, cur)
  BY <1>1 DEF OnWire, WireInv
<1>3. Within(stream, inbox, 0, cur)
  BY <1>2, Widen, WireFacts
<1>4. Position' /\ InHand' /\ Low' \in {0, 1}
  BY <1>1 DEF Position, InHand, Low
<1>5. Failed \in Failed..cur' /\ Failed + 1 = 0
  BY <1>1, WireFacts
<1>6. \A i \in 1..Len(results) : /\ results[i] \in Failed..cur'
                                 /\ Within(stream', inbox', results[i] + 1, cur')
  BY <1>1, <1>2 DEF Used
<1>7. Used'
  BY <1>1, <1>3, <1>5, <1>6, FailFacts, UsedAppend
<1> QED
  BY <1>1, <1>2, <1>3, <1>4, <1>7 DEF OnWire

LEMMA HeaderKeeps ==
  ASSUME WireInv, OnWire, ReadHeader, in_step'
  PROVE  OnWire'
<1>1. /\ n' = n /\ cur' = cur /\ up' = up /\ inbox' = inbox /\ Low = 1 /\ cpc = "hdr"
  BY DEF ReadHeader, Low
<1>2. /\ TypeOK /\ Position /\ Used /\ Within(stream, inbox, 1, cur)
  BY <1>1 DEF OnWire, WireInv
<1>3. CASE EndOfStream /\ FailRequest /\ UNCHANGED <<got, in_step, stream>>
  BY <1>1, <1>3, EndKeeps
<1>4. CASE /\ stream # <<>> /\ stream' = Tail(stream) /\ got' = Head(stream).of
           /\ cpc' = "body" /\ results' = results
  <2>1. Head(stream).part = "hdr"
    BY <1>1, <1>2, <1>4 DEF Position
  <2>2. /\ Ordered(stream', inbox') /\ (up' => Whole(stream'))
        /\ \A low : Within(stream, inbox, low, cur) => Within(stream', inbox', low, cur)
        /\ Head(stream).of \in Nat /\ 1 <= Head(stream).of /\ Head(stream).of <= cur
        /\ \A low : Within(stream, inbox, low, cur) => low <= Head(stream).of
        /\ up => stream' # <<>>
        /\ stream' # <<>> => Head(stream').part = "body" /\ Head(stream').of = Head(stream).of
    BY <1>1, <1>4, <2>1, PopKeeps
  <2>3. \A i \in 1..Len(results) :
          /\ results[i] \in Int /\ results[i] + 1 <= Head(stream).of
          /\ results[i] \in Failed..cur /\ Within(stream', inbox', results[i] + 1, cur)
    BY <1>2, <2>2, UsedFacts DEF Used
  <2>4. Position' /\ Low' = 1
    BY <1>1, <1>4, <2>2 DEF Position, Low
  <2>5. Used'
    BY <1>1, <1>4, <2>3 DEF Used
  <2>6. InHand'
    <3>1. \A i \in 1..Len(results) : results[i] < got'
      BY <1>4, <2>2, <2>3
    <3>2. got' \in 1..cur'
      BY <1>1, <1>4, <2>2, WireFacts
    <3> QED
      BY <1>4, <2>2, <3>1, <3>2 DEF InHand
  <2> QED
    BY <1>1, <1>2, <2>2, <2>4, <2>5, <2>6 DEF OnWire
<1> QED
  BY <1>3, <1>4 DEF ReadHeader

LEMMA BodyKeeps ==
  ASSUME WireInv, OnWire, ReadBody
  PROVE  OnWire'
<1>1. /\ n' = n /\ cur' = cur /\ got' = got /\ up' = up /\ inbox' = inbox /\ Low = 1
      /\ cpc = "body"
  BY DEF ReadBody, Low
<1>2. /\ TypeOK /\ Position /\ Used /\ InHand /\ Within(stream, inbox, 1, cur)
  BY <1>1 DEF OnWire, WireInv
<1>3. CASE EndOfStream /\ FailRequest /\ stream' = stream
  BY <1>1, <1>3, EndKeeps
<1>4. ASSUME stream # <<>>, stream' = Tail(stream), NEW r \in {got, Failed},
             results' = Append(results, r), cpc' \in {"send", "exit1"}
      PROVE  OnWire'
  <2>1. Head(stream).part = "body" /\ Head(stream).of = got
    BY <1>1, <1>2, <1>4 DEF Position, InHand
  <2>2. /\ Ordered(stream', inbox') /\ (up' => Whole(stream'))
        /\ \A low : Within(stream, inbox, low, cur) => Within(stream', inbox', low, cur)
        /\ stream' # <<>> => Head(stream').part = "hdr"
        /\ Within(stream', inbox', got + 1, cur)
    BY <1>1, <1>4, <2>1, PopKeeps
  <2>3. Within(stream, inbox, 0, cur)
    BY <1>2, Widen, WireFacts
  <2>4. Within(stream', inbox', 1, cur) /\ Within(stream', inbox', 0, cur)
    BY <1>2, <2>2, <2>3
  <2>5. Position' /\ InHand' /\ Low' \in {0, 1}
    BY <1>4, <2>2 DEF Position, InHand, Low
  <2>6. r \in Failed..cur' /\ Within(stream', inbox', r + 1, cur')
    <3>1. CASE r = got
      <4>1. got \in 1..cur /\ Failed = -1 /\ cur \in Nat
        BY <1>1, <1>2, WireFacts DEF InHand
      <4>2. got \in Failed..cur
        BY <4>1
      <4> QED
        BY <1>1, <2>2, <3>1, <4>2
    <3>2. CASE r = Failed
      <4>1. Failed \in Failed..cur' /\ Failed + 1 = 0
        BY <1>1, WireFacts
      <4> QED
        BY <1>1, <2>4, <3>2, <4>1
    <3> QED
      BY <1>4, <3>1, <3>2
  <2>7. \A i \in 1..Len(results) : /\ results[i] \in Failed..cur'
                                   /\ Within(stream', inbox', results[i] + 1, cur')
    BY <1>1, <1>2, <2>2 DEF Used
  <2>8. Used'
    BY <1>4, <2>6, <2>7, UsedAppend
  <2> QED
    BY <1>1, <2>2, <2>4, <2>5, <2>8 DEF OnWire
<1> QED
  BY <1>3, <1>4, FailFacts DEF ReadBody

LEMMA WireInit == Init => WireInv
<1> SUFFICES ASSUME Init PROVE WireInv
  OBVIOUS
<1>1. /\ TypeOK /\ cpc = "bind" /\ cur = 0 /\ in_step = TRUE /\ results = <<>>
      /\ inbox = <<>> /\ stream = <<>>
  BY TypeInit DEF Init
<1>2. Len(stream) = 0 /\ Len(inbox) = 0 /\ Len(results) = 0
  BY <1>1
<1>3. Ordered(stream, inbox) /\ Within(stream, inbox, Low, cur)
  BY <1>2 DEF Ordered, Within
<1>4. Whole(stream) /\ Position /\ Used /\ InHand
  BY <1>1, <1>2 DEF Whole, Position, Used, InHand
<1> QED
  BY <1>1, <1>3, <1>4 DEF WireInv, OnWire

\* While in step the client never reads garbage.
LEMMA NoGarbage ==
  ASSUME WireInv, in_step
  PROVE  ~ReadGarbage
<1>1. cpc = "body" => got # Garbage
  BY WireFacts DEF WireInv, OnWire, InHand
<1> QED
  BY <1>1 DEF ReadGarbage

LEMMA NothingKeeps ==
  ASSUME WireInv, UNCHANGED vars
  PROVE  WireInv'
<1>1. /\ n' = n /\ cpc' = cpc /\ cur' = cur /\ got' = got /\ in_step' = in_step
      /\ results' = results /\ inbox' = inbox /\ stream' = stream /\ up' = up
  BY DEF vars
<1>2. TypeOK'
  BY TypeKept DEF WireInv
<1>3. OnWire => OnWire'
  BY <1>1 DEF OnWire, Low, Position, Used, InHand
<1> QED
  BY <1>1, <1>2, <1>3 DEF WireInv

\* A stream that was left inside an answer is never found again.
LEMMA StepLost ==
  ASSUME TypeOK, [Next]_vars, in_step'
  PROVE  in_step
BY TypeFacts DEF Next, Client, Finished, ServerAnswer, ServerClose, BindSend, BindHeader,
     BindBody, SendRequest, Exit, ReadHeader, ReadBody, ReadGarbage, Timeout, vars, clientVars

LEMMA WireNext == WireInv /\ [Next]_vars => WireInv'
<1> SUFFICES ASSUME WireInv, [Next]_vars PROVE WireInv'
  OBVIOUS
<1>1. CASE UNCHANGED vars \/ Finished
  BY <1>1, NothingKeeps DEF Finished
<1>2. CASE Next /\ ~Finished
  <2>1. TypeOK /\ TypeOK'
    BY TypeNext DEF WireInv
  <2>2. ~up' => inbox' = <<>>
    BY <1>2 DEF WireInv, Next, Client, ServerAnswer, ServerClose, BindSend, BindHeader,
      BindBody, SendRequest, Exit, ReadHeader, ReadBody, ReadGarbage, Timeout, Write
  <2>3. cpc' \in BindStates => cur' = 0 /\ in_step'
    BY <1>2, FailFacts DEF WireInv, BindStates, Next, Client, ServerAnswer, ServerClose,
      BindSend, BindHeader, BindBody, SendRequest, Exit, ReadHeader, ReadBody, ReadGarbage,
      Timeout, clientVars
  <2>4. (cpc' = "body" /\ ~in_step') => got' = Garbage
    BY <1>2, FailFacts DEF WireInv, Next, Client, ServerAnswer, ServerClose, Garbage,
      BindSend, BindHeader, BindBody, SendRequest, Exit, ReadHeader, ReadBody, ReadGarbage,
      Timeout, clientVars
  <2>5. ASSUME in_step' PROVE OnWire'
    <3>1. in_step /\ OnWire
      BY <2>1, <2>5, StepLost DEF WireInv
    <3> QED
      BY <1>2, <2>5, <3>1, NoGarbage, AnswerKeeps, CloseKeeps, BindKeeps, SendKeeps,
        LeaveKeeps, HeaderKeeps, BodyKeeps DEF Next, Client
  <2> QED
    BY <2>1, <2>2, <2>3, <2>4, <2>5 DEF WireInv
<1> QED
  BY <1>1, <1>2

LEMMA WireAlways == Spec => []WireInv
BY WireInit, WireNext, PTL DEF Spec

-----------------------------------------------------------------------------
(* Results. *)

Answered(r) == r \notin {Failed, Garbage}

LEMMA OrderInit == Init => AnswersInOrder
BY DEF Init, AnswersInOrder

\* What a request may leave: no answer, or one that is later than all before.
LEMMA OrderAppend ==
  ASSUME TypeOK, AnswersInOrder, NEW r \in Failed..Garbage, results' = Append(results, r),
         Answered(r) => /\ r \in 1..(Len(results) + 1)
                        /\ \A j \in 1..Len(results) : results[j] < r
  PROVE  AnswersInOrder'
<1>1. /\ Len(results) \in Nat /\ Len(results') = Len(results) + 1
      /\ \A i \in 1..Len(results) : results'[i] = results[i]
      /\ results'[Len(results) + 1] = r
      /\ DOMAIN results = 1..Len(results) /\ DOMAIN results' = 1..Len(results')
  BY Put, TypeFacts
<1> SUFFICES ASSUME NEW i \in 1..Len(results'), Answered(results'[i])
             PROVE  /\ results'[i] \in 1..i
                    /\ \A j \in 1..(i - 1) : results'[j] < results'[i]
  BY <1>1 DEF AnswersInOrder, Answered, Failed, Garbage
<1>2. CASE i \in 1..Len(results)
  <2>1. \A j \in 1..(i - 1) : results'[j] = results[j]
    BY <1>1, <1>2
  <2> QED
    BY <1>1, <1>2, <2>1 DEF AnswersInOrder, Answered
<1>3. CASE i = Len(results) + 1
  BY <1>1, <1>3
<1> QED
  BY <1>1, <1>2, <1>3

\* The results that a step leaves, and those it adds.
LEMMA ResultSteps ==
  ASSUME WireInv, [Next]_vars
  PROVE  \/ results' = results
         \/ results' = Append(results, Failed)
         \/ ~in_step /\ results' = Append(results, Garbage)
         \/ /\ in_step /\ cpc = "body" /\ got \in 1..cur /\ cur = Len(results) + 1
            /\ \A j \in 1..Len(results) : results[j] < got
            /\ results' = Append(results, got)
<1>1. CASE ReadBody
  <2>1. cpc = "body" /\ in_step /\ InHand /\ Len(results) = cur - 1
    BY <1>1, TypeFacts DEF WireInv, OnWire, ReadBody, Counted
  <2>2. cur = Len(results) + 1
    BY <2>1, WireFacts
  <2> QED
    BY <1>1, <2>1, <2>2, FailFacts DEF ReadBody, InHand
<1>2. CASE ReadGarbage
  BY <1>2, NoGarbage, FailFacts DEF ReadGarbage
<1> QED
  BY <1>1, <1>2, FailFacts DEF Next, Client, Finished, ServerAnswer, ServerClose, BindSend,
    BindHeader, BindBody, SendRequest, Exit, ReadHeader, Timeout, vars, clientVars

LEMMA OrderNext == WireInv /\ AnswersInOrder /\ [Next]_vars => AnswersInOrder'
<1> SUFFICES ASSUME WireInv, AnswersInOrder, [Next]_vars PROVE AnswersInOrder'
  OBVIOUS
<1>1. TypeOK /\ Failed \in Failed..Garbage /\ Garbage \in Failed..Garbage
  BY WireFacts DEF WireInv
<1>2. CASE results' = results
  BY <1>2 DEF AnswersInOrder, Failed, Garbage
<1>3. ASSUME NEW r \in {Failed, Garbage}, results' = Append(results, r)
      PROVE  AnswersInOrder'
  BY <1>1, <1>3, OrderAppend DEF Answered
<1>4. CASE /\ got \in 1..cur /\ cur = Len(results) + 1
           /\ \A j \in 1..Len(results) : results[j] < got
           /\ results' = Append(results, got)
  <2>1. got \in Failed..Garbage
    BY <1>1, TypeFacts
  <2> QED
    BY <1>1, <1>4, <2>1, OrderAppend
<1> QED
  BY <1>2, <1>3, <1>4, ResultSteps

\* Whatever is late, lost or cut off: no answer is taken twice, none overtakes another
\* and none is taken before its request.
THEOREM AnswersComeInOrder == Spec => []AnswersInOrder
BY WireAlways, OrderInit, OrderNext, PTL DEF Spec

\* The stream is left inside an answer only by a request that has failed.
LostByFailure ==
  ~in_step => \E j \in 1..Len(results) : results[j] = Failed

LEMMA LostInit == Init => LostByFailure
BY DEF Init, LostByFailure

LEMMA LostNext == TypeOK /\ LostByFailure /\ [Next]_vars => LostByFailure'
<1> SUFFICES ASSUME TypeOK, LostByFailure, [Next]_vars PROVE LostByFailure'
  OBVIOUS
<1>1. in_step' = in_step \/ (results' = Append(results, Failed) /\ in_step' = FALSE)
  BY FailFacts DEF Next, Client, Finished, ServerAnswer, ServerClose, BindSend, BindHeader,
    BindBody, SendRequest, Exit, ReadHeader, ReadBody, ReadGarbage, Timeout, vars, clientVars
<1>2. \/ results' = results
      \/ \E r \in Failed..Garbage : results' = Append(results, r)
  <2>1. Failed \in Failed..Garbage /\ Garbage \in Failed..Garbage /\ got \in Failed..Garbage
    BY TypeFacts
  <2> QED
    BY <2>1, FailFacts DEF Next, Client, Finished, ServerAnswer, ServerClose, BindSend,
      BindHeader, BindBody, SendRequest, Exit, ReadHeader, ReadBody, ReadGarbage, Timeout, vars,
      clientVars
<1>3. results \in Seq(Failed..Garbage) /\ Failed \in Failed..Garbage
  BY TypeFacts
<1>4. CASE results' = Append(results, Failed)
  <2>1. Len(results') \in 1..Len(results') /\ results'[Len(results')] = Failed
    BY <1>3, <1>4, Put
  <2> QED
    BY <2>1 DEF LostByFailure
<1>5. CASE in_step' = in_step
  <2>1. \A j \in 1..Len(results) : j \in 1..Len(results') /\ results'[j] = results[j]
    BY <1>2, <1>3, Put
  <2> QED
    BY <1>5, <2>1 DEF LostByFailure
<1> QED
  BY <1>1, <1>4, <1>5

LEMMA OwnInit == Init => OwnUntilFailure
BY DEF Init, OwnUntilFailure

LEMMA OwnNext == WireInv /\ LostByFailure /\ OwnUntilFailure /\ [Next]_vars => OwnUntilFailure'
<1> SUFFICES ASSUME WireInv, LostByFailure, OwnUntilFailure, [Next]_vars PROVE OwnUntilFailure'
  OBVIOUS
<1>1. /\ Len(results) \in Nat /\ results \in Seq(Failed..Garbage) /\ DOMAIN results = 1..Len(results)
      /\ Failed \in Failed..Garbage /\ Garbage \in Failed..Garbage /\ got \in Failed..Garbage
  BY TypeFacts DEF WireInv
<1>2. CASE results' = results
  BY <1>2 DEF OwnUntilFailure, Failed
<1>3. ASSUME NEW r \in Failed..Garbage, results' = Append(results, r),
             (r # Failed /\ \A j \in 1..Len(results) : results[j] # Failed) => r = Len(results) + 1
      PROVE  OwnUntilFailure'
  <2>1. /\ Len(results') = Len(results) + 1 /\ results'[Len(results) + 1] = r
        /\ \A i \in 1..Len(results) : results'[i] = results[i]
        /\ DOMAIN results' = 1..Len(results')
    BY <1>1, <1>3, Put
  <2> SUFFICES ASSUME NEW i \in 1..Len(results'), \A j \in 1..i : results'[j] # Failed
               PROVE  results'[i] = i
    BY <2>1 DEF OwnUntilFailure, Failed
  <2>2. CASE i \in 1..Len(results)
    <3>1. \A j \in 1..i : results[j] # Failed
      BY <1>1, <2>1, <2>2
    <3> QED
      BY <1>1, <2>1, <2>2, <3>1 DEF OwnUntilFailure
  <2>3. CASE i = Len(results) + 1
    <3>1. r # Failed /\ \A j \in 1..Len(results) : results[j] # Failed
      BY <1>1, <2>1, <2>3
    <3> QED
      BY <1>3, <2>1, <2>3, <3>1
  <2> QED
    BY <1>1, <2>1, <2>2, <2>3
<1>4. CASE results' = Append(results, Failed)
  BY <1>1, <1>3, <1>4
<1>5. CASE ~in_step /\ results' = Append(results, Garbage)
  BY <1>1, <1>3, <1>5 DEF LostByFailure
<1>6. CASE /\ got \in 1..cur /\ cur = Len(results) + 1
           /\ \A j \in 1..Len(results) : results[j] < got
           /\ results' = Append(results, got)
  <2>1. ASSUME \A j \in 1..Len(results) : results[j] # Failed
        PROVE  got = Len(results) + 1
    <3>1. CASE Len(results) = 0
      BY <1>6, <3>1
    <3>2. CASE Len(results) > 0
      <4>1. Len(results) \in 1..Len(results)
        BY <1>1, <3>2
      <4>2. results[Len(results)] = Len(results)
        BY <1>1, <2>1, <4>1 DEF OwnUntilFailure
      <4>3. Len(results) < got
        BY <1>6, <4>1, <4>2
      <4> QED
        BY <1>1, <1>6, <4>3
    <3> QED
      BY <1>1, <3>1, <3>2
  <2> QED
    BY <1>1, <1>3, <1>6, <2>1
<1> QED
  BY <1>2, <1>4, <1>5, <1>6, ResultSteps

\* Whatever is late, lost, cut off or left inside an answer: the client takes no answer
\* of another request, and no garbage, for a success before it has printed a failure.
THEOREM AnswersAreOwn == Spec => []OwnUntilFailure
<1>1. WireInv => TypeOK
  BY DEF WireInv
<1> QED
  BY <1>1, WireAlways, LostInit, LostNext, OwnInit, OwnNext, PTL DEF Spec

-----------------------------------------------------------------------------
(* The exit status. *)

\* With a single request every failure ends the run.
Sole ==
  (n = 1 /\ cpc # "exit1") =>
     /\ in_step /\ cpc # "panic"
     /\ \A i \in 1..Len(results) : Answered(results[i])
     /\ cpc = "done" => cur = 1

LEMMA SoleInit == Init => Sole
<1> SUFFICES ASSUME Init PROVE Sole
  OBVIOUS
<1>1. Len(results) = 0 /\ in_step /\ cpc = "bind"
  BY DEF Init
<1> QED
  BY <1>1 DEF Sole

LEMMA SoleNext == WireInv /\ Sole /\ [Next]_vars => Sole'
<1> SUFFICES ASSUME WireInv, Sole, [Next]_vars, n' = 1, cpc' # "exit1"
             PROVE  /\ in_step' /\ cpc' # "panic"
                    /\ \A i \in 1..Len(results') : Answered(results'[i])
                    /\ cpc' = "done" => cur' = 1
  BY DEF Sole, Answered, Failed, Garbage
<1>1. n = 1 /\ cpc # "exit1"
  BY DEF Next, Client, Finished, ServerAnswer, ServerClose, BindSend, BindHeader, BindBody,
    SendRequest, Exit, ReadHeader, ReadBody, ReadGarbage, Timeout, vars, clientVars, Gone
<1>2. /\ in_step /\ cpc # "panic" /\ ~ReadGarbage /\ ~FailRequest
      /\ \A i \in 1..Len(results) : Answered(results[i])
      /\ cpc = "done" => cur = 1
  BY <1>1, NoGarbage, FailFacts DEF Sole
<1>3. in_step' /\ cpc' # "panic" /\ (cpc' = "done" => cur' = 1)
  BY <1>1, <1>2 DEF Next, Client, Finished, ServerAnswer, ServerClose, BindSend, BindHeader,
    BindBody, SendRequest, Exit, ReadHeader, ReadBody, Timeout, vars, clientVars, Gone
<1>4. \A i \in 1..Len(results') : Answered(results'[i])
  <2>1. CASE results' = results
    BY <1>2, <2>1
  <2>2. CASE results' = Append(results, got) /\ got # Garbage /\ got # Failed
    <3>1. /\ Len(results) \in Nat /\ Len(results') = Len(results) + 1
          /\ \A i \in 1..Len(results) : results'[i] = results[i]
          /\ results'[Len(results) + 1] = got
      <4>1. results \in Seq(Failed..Garbage) /\ got \in Failed..Garbage
        BY TypeFacts DEF WireInv
      <4> QED
        BY <2>2, <4>1, Put
    <3>2. \A i \in 1..Len(results') : i \in 1..Len(results) \/ i = Len(results) + 1
      BY <3>1
    <3> QED
      BY <1>2, <2>2, <3>1, <3>2 DEF Answered
  <2>3. got # Failed
    BY TypeFacts DEF WireInv
  <2> QED
    BY <1>1, <1>2, <2>1, <2>2, <2>3 DEF Next, Client, Finished, ServerAnswer, ServerClose,
      BindSend, BindHeader, BindBody, SendRequest, Exit, ReadHeader, ReadBody, Timeout, vars,
      clientVars, Gone
<1> QED
  BY <1>3, <1>4

\* The exit status of a run with one request can be relied on.
THEOREM ExitIsHonest == Spec => []HonestExit
<1>1. WireInv /\ AnswersInOrder /\ Sole => HonestExit
  <2> SUFFICES ASSUME WireInv, AnswersInOrder, Sole, cpc = "done", n = 1
               PROVE  results = <<1>>
    BY DEF HonestExit
  <2>1. cur = 1 /\ Answered(results[1]) /\ Len(results) = 1 /\ results \in Seq(Failed..Garbage)
    <3>1. cur = 1 /\ Len(results) = cur
      BY TypeFacts DEF WireInv, Sole, Counted
    <3> QED
      BY <3>1, TypeFacts DEF WireInv, Sole
  <2>2. results[1] \in 1..1
    BY <2>1 DEF AnswersInOrder, Answered
  <2> QED
    BY <2>1, <2>2
<1> QED
  BY <1>1, WireAlways, AnswersComeInOrder, SoleInit, SoleNext, PTL DEF Spec
=============================================================================

--------------------------- MODULE KmsActivation ---------------------------
(***************************************************************************)
(* From a command line of vlmcs to what it prints, against a vlmcsd that   *)
(* has started: options, choice of the product, the request and its bytes  *)
(* (crates/vlmcsd-client/src/main.rs, crates/vlmcsd-types/src/wire.rs),    *)
(* what the server reads and answers (crates/vlmcsd-protocol/src/lib.rs    *)
(* and v4.rs) and what the client reads of that.                           *)
(*                                                                         *)
(* The transport is taken from KmsExchange and, for V5 and V6, from KmsV6: *)
(* a message arrives as it was sent.                                       *)
(***************************************************************************)
EXTENDS KmsEpid, KmsTime, KmsWire

CONSTANTS
  CommandLines,       \* sequences of tokens
  Number(_),          \* a token as a number, or NotANumber
  Chars(_),           \* a token as UTF-16 units
  NoOption(_),        \* the token does not begin with '-'
  PidLength,                           \* the 64 units of an ePID
  MachineIds, ClientClocks,            \* random_uuid_v4, FileTime::now
  LicenseStatus, BindingExpiration, ActivationInterval, RenewalInterval,
  DefaultPolicy,                       \* 25
  MacSize, Mac(_)                      \* 16, and aes_cmac_v4

NotANumber == -1
ZeroGuid   == 0

Versions  == {"-4", "-5", "-6"}
WithValue == {"-l", "-n", "-w", "-t"}

\* The integers of a message are those of a FILETIME, and a PID's size is one.
ASSUME WidthAssumption ==
  /\ Power[U32] = Half /\ 6 < Power[U16]
  /\ PidLength \in Nat \ {0} /\ U16 * PidLength < Half

\* What the two programs put into a field fits it: each is of the field's type, and
\* the clock shows no year after 30828.
ASSUME FieldAssumption ==
  /\ {LicenseStatus, BindingExpiration, ActivationInterval, RenewalInterval} \subseteq Values(U32)
  /\ DefaultPolicy \in Nat \ {0} /\ 2 * DefaultPolicy < Half
  /\ MachineIds \subseteq Values(GuidSize)
  /\ \A now \in ClientClocks : now \in Nat /\ now * TicksPerSec + EpochDiff <= LastTick

\* An argument is a string; it may be a number, and it is made of UTF-16 units.
ASSUME ArgumentAssumption ==
  /\ Chars("WORKSTATION") \in Seq(Values(U16))
  /\ \A line \in CommandLines :
       /\ line \in Seq(STRING)
       /\ \A i \in DOMAIN line : /\ Number(line[i]) \in Nat \cup {NotANumber}
                                 /\ Chars(line[i]) \in Seq(Values(U16))
                                 /\ line[i] \in Versions \cup {"-v"} \cup WithValue => ~NoOption(line[i])

\* Rows have the types of VlmcsdItem, in which versions, policies, indexes and the
\* smallest number of clients are bytes; an ePID has no NUL.
ASSUME RowAssumption ==
  \A f \in Files :
    /\ f.db.apps \in Seq([guid : Values(GuidSize)])
    /\ f.db.kms \in Seq([guid : Values(GuidSize), epid_index : Nat])
    /\ f.db.skus \in Seq([guid : Values(GuidSize), app_index : Nat, kms_index : Nat,
                          protocol_version : Values(U16),
                          n_count_policy : {n \in Values(U32) : 2 * n < Half}])
    /\ \A i \in DOMAIN f.db.csvlk : /\ f.db.csvlk[i].min_active \in Values(U32)
                                     /\ f.db.csvlk[i].epid \in Seq(Values(U16) \ {0})

\* In the embedded file no row refers to one that is not there, applications
\* excepted, and no GUID is that of two KMS items.
ASSUME ReferenceAssumption ==
  \A f \in Files :
    /\ \A i \in DOMAIN f.db.skus : f.db.skus[i].kms_index < Len(f.db.kms)
    /\ \A i \in DOMAIN f.db.kms : f.db.kms[i].epid_index < Len(f.db.csvlk)
    /\ \A i, j \in DOMAIN f.db.kms : f.db.kms[i].guid = f.db.kms[j].guid => i = j

VARIABLES
  args, at,       \* the command line and the loop of parse_args
  config,
  cpc,            \* where the client stands
  left,           \* requests still to be sent
  clock,          \* history: what the clock showed when the request was built
  request,
  raw_request,    \* the bytes sent
  seen,           \* history: the request as the server has read it
  slot,           \* history: the time slot of the answer's MAC
  response_data,  \* the bytes received
  shown           \* what is printed

clientVars == <<args, at, config, cpc, left, clock, request, raw_request, seen,
                slot, response_data, shown>>
vars == <<startVars, clientVars>>

DefaultConfig ==
  [host |-> {}, product_index |-> {}, force_version |-> {}, n_requests |-> 1,
   name |-> "WORKSTATION", timeout |-> 30]

ClientStates == {"off", "args", "product", "connect", "send", "answer", "show",
                 "exit0", "exit1"}

TypeOK ==
  /\ StartTypeOK
  /\ cpc \in ClientStates
  /\ cpc # "off" => args \in CommandLines /\ at \in 1..(Len(args) + 2)
  /\ left \in Nat
  /\ clock \in ClientClocks \cup {0}
  /\ raw_request \in Bytes /\ response_data \in Bytes
  /\ slot \in 0..(Word - 1)

Init ==
  /\ StartInit
  /\ args = <<>> /\ at = 1 /\ config = DefaultConfig /\ cpc = "off" /\ left = 0
  /\ clock = 0 /\ request = <<>> /\ raw_request = <<>> /\ seen = <<>> /\ slot = 0
  /\ response_data = <<>> /\ shown = <<>>

-----------------------------------------------------------------------------
(* parse_args, one round of its loop per step. *)

\* The client starts when the server serves; the transport says what happens if
\* it does not.
StartClient ==
  /\ cpc = "off" /\ boot = "serving"
  /\ args' \in CommandLines /\ cpc' = "args"
  /\ UNCHANGED <<startVars, at, config, left, clock, request, raw_request, seen, slot,
                 response_data, shown>>

Major(t) == CASE t = "-4" -> 4 [] t = "-5" -> 5 [] t = "-6" -> 6

Option == args[at]
Value  == args[at + 1]

\* -v only makes the client print more
Flag ==
  /\ Option \in Versions \cup {"-v"}
  /\ config' = IF Option = "-v" THEN config
               ELSE [config EXCEPT !.force_version = {Major(Option)}]
  /\ at' = at + 1 /\ cpc' = cpc

Host ==
  /\ NoOption(Option)
  /\ config' = IF config.host = {} THEN [config EXCEPT !.host = {Option}] ELSE config
  /\ at' = at + 1 /\ cpc' = cpc

OrElse(n, default) == IF n = NotANumber THEN default ELSE n

\* Mutant: the value of -w is read as an option once more.
OptionWithValueMut ==
  /\ Option \in WithValue /\ at < Len(args)
  /\ Option = "-l" => Number(Value) # NotANumber
  /\ config' =
       CASE Option = "-l" -> [config EXCEPT !.product_index =
                                {IF Number(Value) > 0 THEN Number(Value) - 1 ELSE 0}]
         [] Option = "-n" -> [config EXCEPT !.n_requests = OrElse(Number(Value), 1)]
         [] Option = "-w" -> [config EXCEPT !.name = Value]
         [] Option = "-t" -> [config EXCEPT !.timeout = OrElse(Number(Value), @)]
  /\ at' = IF Option = "-w" THEN at + 1 ELSE at + 2
  /\ cpc' = cpc

\* The next argument is the value, whatever it looks like.
OptionWithValue ==
  /\ Option \in WithValue /\ at < Len(args)
  /\ Option = "-l" => Number(Value) # NotANumber
  /\ config' =
       CASE Option = "-l" -> [config EXCEPT !.product_index =
                                {IF Number(Value) > 0 THEN Number(Value) - 1 ELSE 0}]
         [] Option = "-n" -> [config EXCEPT !.n_requests = OrElse(Number(Value), 1)]
         [] Option = "-w" -> [config EXCEPT !.name = Value]
         [] Option = "-t" -> [config EXCEPT !.timeout = OrElse(Number(Value), @)]
  /\ at' = at + 2
  /\ cpc' = cpc

\* -x, -V, -h, and with the same status an unknown option, a missing value or a
\* product that is no number.
GiveUp ==
  /\ \/ ~NoOption(Option) /\ Option \notin Versions \cup {"-v"} \cup WithValue
     \/ Option \in WithValue /\ at = Len(args)
     \/ Option = "-l" /\ at < Len(args) /\ Number(Value) = NotANumber
  /\ cpc' = "exit0"
  /\ UNCHANGED <<at, config>>

ParseArg ==
  /\ cpc = "args" /\ at <= Len(args)
  /\ Flag \/ Host \/ OptionWithValue \/ GiveUp
  /\ UNCHANGED <<startVars, args, left, clock, request, raw_request, seen, slot,
                 response_data, shown>>

-----------------------------------------------------------------------------
(* resolve_product and build_request. *)

GuidAt(items, index) == IF index < Len(items) THEN items[index + 1].guid ELSE ZeroGuid

\* encode_utf16().take(63) into a buffer of zeros
Name(chars) ==
  [i \in 1..NameLength |-> IF i < NameLength /\ i <= Len(chars) THEN chars[i] ELSE 0]

\* The one element of an Option, or what stands for None.
Unwrap(option, default) == IF option = {} THEN default ELSE CHOOSE x \in option : TRUE

Request(sku, cmid, now) ==
  [minor_ver |-> 0,
   major_ver |-> Unwrap(config.force_version,
                        IF sku.protocol_version = 0 THEN 6 ELSE sku.protocol_version),
   vm_info |-> 0, license_status |-> LicenseStatus,
   binding_expiration |-> BindingExpiration,
   app_id |-> GuidAt(db.apps, sku.app_index), act_id |-> sku.guid,
   kms_id |-> GuidAt(db.kms, sku.kms_index), cmid |-> cmid,
   n_policy |-> IF sku.n_count_policy = 0 THEN DefaultPolicy ELSE sku.n_count_policy,
   time_low |-> FromUnixSecs(now).low, time_high |-> FromUnixSecs(now).high,
   cmid_prev |-> ZeroGuid,
   workstation_name |-> Name(Chars(config.name))]

BuildRequest ==
  /\ cpc = "args" /\ at > Len(args)
  /\ LET index == Unwrap(config.product_index, 0)
     IN  IF index >= Len(db.skus)
         THEN cpc' = "exit1" /\ UNCHANGED <<request, clock, left>>
         ELSE \E cmid \in MachineIds, now \in ClientClocks :
                /\ request' = Request(db.skus[index + 1], cmid, now)
                /\ clock' = now /\ left' = config.n_requests /\ cpc' = "connect"
  /\ UNCHANGED <<startVars, args, at, config, raw_request, seen, slot, response_data, shown>>

\* connect and bind; any failure is fatal
Connect ==
  /\ cpc = "connect"
  /\ cpc' \in {"send", "exit1"}
  /\ UNCHANGED <<startVars, args, at, config, left, clock, request, raw_request, seen, slot,
                 response_data, shown>>

-----------------------------------------------------------------------------
(* The requests. *)

\* create_request_v4 adds its MAC, V5 and V6 are opened again by the other side
SendRequest ==
  /\ cpc = "send" /\ left > 0
  /\ left' = left - 1 /\ cpc' = "answer"
  /\ raw_request' = LET base == RequestToBytes(request)
                    IN  IF request.major_ver < 5 THEN base \o Mac(base) ELSE base
  /\ UNCHANGED <<startVars, args, at, config, clock, request, seen, slot, response_data, shown>>

-----------------------------------------------------------------------------
(* The server: create_response_base and response_to_wire. *)

\* Mutant: the index of a product's KMS item is taken for that of its ePID.
EpidIndexMut(kms_id) ==
  LET hits == {i \in DOMAIN db.kms : db.kms[i].guid = kms_id}
  IN  IF hits = {} THEN 0 ELSE LastOf(hits) - 1

EpidIndex(kms_id) ==
  Unwrap({item.epid_index : item \in Find(db.kms, kms_id)}, 0)

UpTo(s, n) == SubSeq(s, 1, IF Len(s) < n THEN Len(s) ELSE n)

\* the ePID and a NUL, or what fits of them
PidUnits(chars) == UpTo(Append(chars, 0), PidLength)

Response(r) ==
  LET required == IF r.n_policy < 1 THEN 1 ELSE (r.n_policy * 2) % Half
      index    == EpidIndex(r.kms_id)
      minimum  == IF index < Len(db.csvlk) THEN db.csvlk[index + 1].min_active ELSE 25
  IN  [minor_ver |-> r.minor_ver, major_ver |-> r.major_ver,
       pid |-> PidUnits(GetEpid(db, index)),
       cmid |-> r.cmid, time_low |-> r.time_low, time_high |-> r.time_high,
       count |-> Later(required, minimum),
       vl_activation_interval |-> ActivationInterval,
       vl_renewal_interval |-> RenewalInterval]

ResponseToWire(resp) ==
  Le(resp.minor_ver, U16) \o Le(resp.major_ver, U16) \o Le(U16 * Len(resp.pid), U32)
    \o Units(resp.pid) \o Encode(TailFields, resp)

\* create_response_v4, and of create_response_v6 what KmsV6 leaves open.  A
\* shorter request, or a V4 one without its MAC, would be refused; the client sends
\* none.
Answer ==
  /\ cpc = "answer"
  /\ seen' = RequestFromBytes(raw_request)
  /\ Len(raw_request) >= SizeOf(RequestFields) + U16 * NameLength
                            + (IF seen'.major_ver < 5 THEN MacSize ELSE 0)
  /\ LET wire == ResponseToWire(Response(seen'))
     IN  response_data' = IF seen'.major_ver < 5 THEN wire \o Mac(wire) ELSE wire
  /\ slot' = IF seen'.major_ver > 5
             THEN TimeSlot([low |-> seen'.time_low, high |-> seen'.time_high]) ELSE 0
  /\ cpc' = "show"
  /\ UNCHANGED <<startVars, args, at, config, left, clock, request, raw_request, shown>>

-----------------------------------------------------------------------------
(* process_response and parse_and_display_response, and the end of main. *)

UpToNul(units) ==
  LET nuls == {k \in DOMAIN units : units[k] = 0}
  IN  IF nuls = {} THEN units ELSE SubSeq(units, 1, FirstOf(nuls) - 1)

\* What follows the fields, the MAC of a V4 answer, is not looked at.  A shorter
\* answer would be a warning; the server sends none.
Show ==
  /\ cpc = "show"
  /\ LET head == 2 * U16 + U32
         size == FromLe(SubSeq(response_data, 2 * U16 + 1, head))
     IN  /\ Len(response_data) >= head + size + SizeOf(TailFields)
         /\ shown' = [epid |-> UpToNul(UnitsAt(response_data, head, size \div U16)),
                      tail |-> Decode(TailFields, response_data, head + size)]
  /\ cpc' = "send"
  /\ UNCHANGED <<startVars, args, at, config, left, clock, request, raw_request, seen, slot,
                 response_data>>

Exit ==
  /\ cpc = "send" /\ left = 0
  /\ cpc' = "exit0"
  /\ UNCHANGED <<startVars, args, at, config, left, clock, request, raw_request, seen, slot,
                 response_data, shown>>

Client == \/ StartClient \/ ParseArg \/ BuildRequest \/ Connect
          \/ SendRequest \/ Answer \/ Show \/ Exit

Finished == (boot = "failed" \/ cpc \in {"exit0", "exit1"}) /\ UNCHANGED vars

Next == (Start /\ UNCHANGED clientVars) \/ Client \/ Finished

Spec == Init /\ [][Next]_vars

\* The daemon's main thread runs; nothing it waits for is outside it.
FairSpec == Spec /\ WF_vars(Start /\ UNCHANGED clientVars)

-----------------------------------------------------------------------------
(* Properties. *)

\* The server reads the request the client built, field by field.
RequestArrives == cpc = "show" => seen = request

\* An argument behind an option that takes a value is its value, whatever it looks
\* like; every other one speaks for itself.
OwnArguments(line) ==
  LET value[i \in 0..Len(line)] ==
        i > 1 /\ line[i - 1] \in WithValue /\ ~value[i - 1]
  IN  {i \in 1..Len(line) : ~value[i]}

\* What the arguments at some positions mean: of several versions, products, names
\* and counts the last one counts and of several hosts the first.
MeantBy(line, own) ==
  LET given(options) == {i \in own : line[i] \in options}
      hosts == {i \in own : NoOption(line[i])}
      value(option) == line[LastOf(given({option})) + 1]
  IN  [force_version |-> IF given(Versions) = {} THEN {}
                         ELSE {Major(line[LastOf(given(Versions))])},
       host |-> IF hosts = {} THEN {} ELSE {line[FirstOf(hosts)]},
       name |-> IF given({"-w"}) = {} THEN "WORKSTATION" ELSE value("-w"),
       \* products are numbered from 1, and 0 is taken for 1
       product_index |-> IF given({"-l"}) = {} THEN {}
                         ELSE {IF Number(value("-l")) <= 1 THEN 0
                               ELSE Number(value("-l")) - 1},
       n_requests |-> IF given({"-n"}) = {} THEN 1 ELSE OrElse(Number(value("-n")), 1)]

Meant == MeantBy(args, OwnArguments(args))

\* What the client goes by is what the command line means.
CommandLineRead ==
  cpc \notin {"off", "args", "exit0", "exit1"} =>
    \A field \in DOMAIN Meant : config[field] = Meant[field]

\* The ePID printed is the one of the CSVLK that the chosen product's KMS item
\* names, cut to what a PID buffer holds, and the count satisfies the product.
ShownIsProduct ==
  (cpc = "send" /\ shown # <<>>) =>
    LET sku  == db.skus[Unwrap(config.product_index, 0) + 1]
        epid_of == db.csvlk[db.kms[sku.kms_index + 1].epid_index + 1].epid
    IN  /\ shown.epid = UpTo(epid_of, PidLength)
        /\ shown.tail.count >= 2 * request.n_policy /\ shown.tail.count > 0
        /\ shown.tail.cmid = request.cmid
        /\ shown.tail.vl_renewal_interval = RenewalInterval

\* The server has the second in which the request was built, and the slot of the MAC
\* is computed from it without losing a carry.
TimeArrives ==
  cpc = "show" =>
    LET ft == [low |-> seen.time_low, high |-> seen.time_high]
    IN  /\ ToUnixSecs(ft) = clock
        /\ seen.major_ver > 5 =>
             slot = ((clock * TicksPerSec + EpochDiff) \div TimeC1) * TimeC2 + TimeC3
=============================================================================

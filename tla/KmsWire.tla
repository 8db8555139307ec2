------------------------------ MODULE KmsWire ------------------------------
(***************************************************************************)
(* The bytes of a request and of a response                                *)
(* (crates/vlmcsd-types/src/wire.rs): little-endian fields, one behind the *)
(* other.  A byte has Byte values and the integers are a few bytes wide,   *)
(* so that every carry between them happens.                               *)
(***************************************************************************)
EXTENDS Integers, SequencesExt

CONSTANTS
  Byte,                   \* how many values a byte has
  U16, U32, GuidSize,     \* sizes in bytes
  NameLength              \* the 64 units of a workstation name

ASSUME SizeAssumption ==
  /\ Byte \in Nat \ {0, 1}
  /\ {U16, U32, GuidSize, NameLength} \subseteq Nat \ {0}

Bytes == Seq(0..(Byte - 1))

\* How many values some bytes have.
Power[n \in Nat] == IF n = 0 THEN 1 ELSE Byte * Power[n - 1]

\* The values a field of some bytes can carry.
Values(size) == 0..(Power[size] - 1)

Le(v, size) == [j \in 1..size |-> (v \div Power[j - 1]) % Byte]

FromLe(bytes) ==
  LET sum[j \in 0..Len(bytes)] ==
        IF j = 0 THEN 0 ELSE sum[j - 1] + bytes[j] * Power[j - 1]
  IN  sum[Len(bytes)]

\* names and sizes of the fields in front of the workstation name
RequestFields ==
  << <<"minor_ver", U16>>, <<"major_ver", U16>>, <<"vm_info", U32>>,
     <<"license_status", U32>>, <<"binding_expiration", U32>>, <<"app_id", GuidSize>>,
     <<"act_id", GuidSize>>, <<"kms_id", GuidSize>>, <<"cmid", GuidSize>>,
     <<"n_policy", U32>>, <<"time_low", U32>>, <<"time_high", U32>>,
     <<"cmid_prev", GuidSize>> >>

\* the fields of a response behind the ePID
TailFields ==
  << <<"cmid", GuidSize>>, <<"time_low", U32>>, <<"time_high", U32>>, <<"count", U32>>,
     <<"vl_activation_interval", U32>>, <<"vl_renewal_interval", U32>> >>

\* what the first k fields take
SizeUpTo(fields, k) ==
  LET sum[j \in 0..Len(fields)] == IF j = 0 THEN 0 ELSE sum[j - 1] + fields[j][2]
  IN  sum[k]

SizeOf(fields) == SizeUpTo(fields, Len(fields))

Encode(fields, r) == FlattenSeq([k \in 1..Len(fields) |-> Le(r[fields[k][1]], fields[k][2])])
Units(units)      == FlattenSeq([k \in 1..Len(units) |-> Le(units[k], U16)])

Decode(fields, bytes, offset) ==
  [name \in {fields[k][1] : k \in DOMAIN fields} |->
     LET k == CHOOSE k \in DOMAIN fields : fields[k][1] = name
         o == offset + SizeUpTo(fields, k - 1)
     IN  FromLe(SubSeq(bytes, o + 1, o + fields[k][2]))]

UnitsAt(bytes, offset, n) ==
  [k \in 1..n |-> FromLe(SubSeq(bytes, offset + (k - 1) * U16 + 1, offset + k * U16))]

\* Request::to_le_bytes
RequestToBytes(r) == Encode(RequestFields, r) \o Units(r.workstation_name)

\* what the fields in front say, and the name behind them
WithName(front, bytes) ==
  [name \in DOMAIN front \cup {"workstation_name"} |->
     IF name \in DOMAIN front THEN front[name]
     ELSE UnitsAt(bytes, SizeOf(RequestFields), NameLength)]

\* Mutant: version numbers in the order in which they are spoken.
RequestFromBytesMut(bytes) ==
  WithName(Decode(<<RequestFields[2], RequestFields[1]>>
                    \o SubSeq(RequestFields, 3, Len(RequestFields)), bytes, 0), bytes)

\* Request::from_le_bytes
RequestFromBytes(bytes) == WithName(Decode(RequestFields, bytes, 0), bytes)

=============================================================================

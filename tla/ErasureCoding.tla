---------------------------- MODULE ErasureCoding ----------------------------
(***************************************************************************)
(* How an object becomes shards and shards become an object again:         *)
(* encode_erasure, decode_erasure and the parts of put_chunks and          *)
(* get_chunks around them (storage/chunks.rs), the policy tables           *)
(* (storage/mod.rs) and is_recoverable (storage/placement.rs).             *)
(*                                                                         *)
(* Bytes are numbers below Base, and the length prefix has PrefixLen of    *)
(* them (256 and 8 in the code).  zstd is external: what it returns is     *)
(* some other sequence that only a decompression takes back.  A hash is    *)
(* the data it was taken of.                                               *)
(***************************************************************************)
EXTENDS Integers, Sequences, FiniteSets

CONSTANTS
    Base,       \* number of byte values
    PrefixLen,  \* bytes of the length prefix
    Byte,       \* the byte values objects are made of
    MaxLen,     \* bound on the length of objects
    MaxLost     \* bound on the shards that are lost

ASSUME BaseAssumption == /\ {Base, PrefixLen, MaxLen, MaxLost} \subseteq Nat
                         /\ 1 < Base /\ 0 < PrefixLen /\ Byte \subseteq 0..(Base - 1)

\* How many numbers the first i bytes of the prefix can hold: a u64 has room for the
\* length of every object and of its compressed form.
Capacity[i \in 0..PrefixLen] == IF i = 0 THEN 1 ELSE Base * Capacity[i - 1]
ASSUME PrefixAssumption == MaxLen + 1 < Capacity[PrefixLen]

VARIABLES
    data,       \* the object
    policy,     \* its StoragePolicy
    shards,     \* the shard files: bytes, or Missing
    lost,       \* history: the shards lost
    result      \* what get_chunks returned

vars == <<data, policy, shards, lost, result>>

Policy  == {"hot", "warm", "cold", "archive"}
Objects == UNION {[1..n -> Byte] : n \in 0..MaxLen}
Missing == <<-1>>
Error   == <<-2>>
NotRead == <<-3>>

-----------------------------------------------------------------------------
(* Policies *)

\* StoragePolicy::erasure_coding().unwrap_or((1, 0)), and zstd_level.
erasure_coding(p) ==
    CASE p = "hot"     -> [data |-> 1, parity |-> 0, level |-> 0]
      [] p = "warm"    -> [data |-> 4, parity |-> 2, level |-> 3]
      [] p = "cold"    -> [data |-> 6, parity |-> 3, level |-> 19]
      [] p = "archive" -> [data |-> 8, parity |-> 4, level |-> 22]

\* The table get_chunks keeps for the policy's name in the index.
get_chunks_policy(p) ==
    CASE p = "warm"    -> [data |-> 4, parity |-> 2, level |-> 3]
      [] p = "cold"    -> [data |-> 6, parity |-> 3, level |-> 19]
      [] p = "archive" -> [data |-> 8, parity |-> 4, level |-> 22]
      [] OTHER         -> [data |-> 1, parity |-> 0, level |-> 0]

\* is_recoverable: of the nodes that hold one shard each, enough have not failed.
Needed(p) == CASE p = "hot" -> 1 [] p = "warm" -> 4 [] p = "cold" -> 6 [] p = "archive" -> 8
is_recoverable_Strict(placement, p, failed) == Cardinality(placement \ failed) > Needed(p)
is_recoverable(placement, p, failed) == Cardinality(placement \ failed) >= Needed(p)

-----------------------------------------------------------------------------
(* Encoding and decoding *)

\* to_le_bytes and from_le_bytes: the lowest digit first.
to_le_bytes(n) ==
    LET rest[i \in 0..PrefixLen] == IF i = 0 THEN n ELSE rest[i - 1] \div Base
    IN  [i \in 1..PrefixLen |-> rest[i - 1] % Base]
from_le_bytes(b) ==
    LET value[i \in 0..PrefixLen] ==
            IF i = 0 THEN 0 ELSE b[PrefixLen + 1 - i] + Base * value[i - 1]
    IN  value[PrefixLen]

div_ceil(a, b) == (a + b - 1) \div b

\* compress and decompress at a level: level 0 copies.
Frame == 1
compress(bytes, level) == IF level = 0 THEN bytes ELSE <<Frame>> \o bytes
decompress(bytes, level) ==
    IF level = 0 THEN bytes
      ELSE IF bytes # <<>> /\ Head(bytes) = Frame THEN Tail(bytes) ELSE Error

\* encode_erasure: the length and the bytes, cut into k shards of equal size,
\* the last ones padded with zeros, and m shards of zeros.
shard_size_Floor(len, k) == len \div k
shard_size(len, k) == div_ceil(len, k)

encode_erasure(bytes, k, m) ==
    LET prefixed == to_le_bytes(Len(bytes)) \o bytes
        size     == shard_size(Len(prefixed), k)
        ByteAt(i, j) == IF i < k /\ i * size + j <= Len(prefixed)
                          THEN prefixed[i * size + j] ELSE 0
    IN  [i \in 0..(k + m - 1) |-> [j \in 1..size |-> ByteAt(i, j)]]

\* decode_erasure: the first k shards there are, one after the other, without
\* the prefix and without what follows the length it names.
Concat(s, k) ==
    LET all[i \in 0..k] == IF i = 0 THEN <<>>
                             ELSE IF i <= Len(s) THEN all[i - 1] \o s[i] ELSE all[i - 1]
    IN  all[k]

decode_erasure(s, k) ==
    LET combined == Concat(s, k)
        length   == from_le_bytes(SubSeq(combined, 1, PrefixLen))
    IN  IF Len(combined) < PrefixLen THEN Error
          ELSE IF PrefixLen + length > Len(combined) THEN Error
          ELSE SubSeq(combined, PrefixLen + 1, PrefixLen + length)

\* get_chunks: every data shard must be there, parity shards may be missing;
\* the shards that are there, in order, are decoded, decompressed and verified.
Found(s, total) ==
    LET upto[i \in 0..total] == IF i = 0 THEN <<>>
                                ELSE IF s[i - 1] = Missing THEN upto[i - 1]
                                ELSE Append(upto[i - 1], s[i - 1])
    IN  upto[total]

get_chunks(s, p, etag) ==
    LET e     == get_chunks_policy(p)
        plain == decompress(decode_erasure(Found(s, e.data + e.parity), e.data), e.level)
    IN  IF \E i \in 0..(e.data - 1) : s[i] = Missing THEN Error
          ELSE IF plain # etag THEN Error ELSE plain

-----------------------------------------------------------------------------

\* put_chunks has stored the object.
Init ==
    /\ data \in Objects
    /\ policy \in Policy
    /\ LET e == erasure_coding(policy)
       IN  shards = encode_erasure(compress(data, e.level), e.data, e.parity)
    /\ lost = {}
    /\ result = NotRead

\* A shard file is lost.
Lose(i) ==
    /\ result = NotRead
    /\ Cardinality(lost) < MaxLost
    /\ i \notin lost
    /\ shards' = [shards EXCEPT ![i] = Missing]
    /\ lost' = lost \cup {i}
    /\ UNCHANGED <<data, policy, result>>

Get ==
    /\ result = NotRead
    /\ result' = get_chunks(shards, policy, data)
    /\ UNCHANGED <<data, policy, shards, lost>>

Next == (\E i \in DOMAIN shards : Lose(i)) \/ Get

Spec == Init /\ [][Next]_vars

-----------------------------------------------------------------------------
(* Properties *)

\* put_chunks and get_chunks agree: an object of any length under any policy
\* comes back byte for byte when its data shards are there, whichever parity
\* shards are lost, and is an error when one of them is missing.
RoundTrip ==
    result # NotRead =>
        result = IF lost \cap 0..(erasure_coding(policy).data - 1) = {} THEN data ELSE Error

\* What is_recoverable gives up, shard i being on node i, is never served.  (The
\* converse fails: parity shards hold zeros, so four shards of six are not enough
\* unless they are the data shards.)
GivenUpNotServed ==
    ~is_recoverable(DOMAIN shards, policy, lost) => result \in {NotRead, Error}
=============================================================================

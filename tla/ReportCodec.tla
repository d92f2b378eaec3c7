----------------------------- MODULE ReportCodec -----------------------------
(***************************************************************************)
(* ReportEncoder: reports as bits on the chain, with a field of a fixed    *)
(* size for each number, and back.                                         *)
(*                                                                         *)
(* Types of vulnerabilities are their numbers in vulnerability_types.json. *)
(* A report is reduced to what the encoder looks at; end is 0 in instances *)
(* without end_line.                                                       *)
(***************************************************************************)
EXTENDS Integers, SequencesExt

CONSTANTS
    VersionSizes,  \* of the major, the minor and the patch version
    HashSize,      \* CONTRACT_HASH_SIZE
    TypeSize,      \* VULNERABILITY_TYPE_SIZE
    LineSize,      \* START_LINE_SIZE without its flag
    EndSize,       \* END_LINE_SIZE
    HexBits        \* HEX_BITS

(* Every field has a bit at least.                                          *)
ASSUME CodecAssumption ==
    /\ VersionSizes \in [1 .. 3 -> Nat \ {0}]
    /\ {HashSize, TypeSize, LineSize, EndSize, HexBits} \subseteq Nat \ {0}

(* audit_state                                                              *)
StateSuccess == 4
StateError   == 5

-----------------------------------------------------------------------------
(* Numbers.                                                                 *)

PowerOf2[k \in Nat] == IF k = 0 THEN 1 ELSE 2 * PowerOf2[k - 1]

(* A wrong variant: log2 of the number, and not of the next one. *)
Fits_OffByOne(n, size) == n >= 0 /\ n <= PowerOf2[size]

(* __to_bitstring raises if this is false: log2 of n + 1 exceeds the size,  *)
(* or there is none.                                                        *)
Fits(n, size) == n >= 0 /\ n < PowerOf2[size]

(* It pads a number to the size, which a number may still exceed.           *)
Width(n, size) ==
    CHOOSE w \in size .. size + n :
        n < PowerOf2[w] /\ \A shorter \in size .. w - 1 : n >= PowerOf2[shorter]

ToBits(n, size) ==
    LET width == Width(n, size)
    IN  [k \in 1 .. width |-> (n \div PowerOf2[width - k]) % 2]

FromBits(bits) ==
    LET number[k \in 0 .. Len(bits)] == IF k = 0 THEN 0 ELSE 2 * number[k - 1] + bits[k]
    IN  number[Len(bits)]

(* bits[first : first + size], which may come out shorter.                  *)
Slice(bits, first, size) ==
    SubSeq(bits, first, IF first + size - 1 < Len(bits) THEN first + size - 1 ELSE Len(bits))

Instances == [type : Nat, start : Int, end : Int]

Reports ==
    [version     : [1 .. 3 -> Nat],
     audit_state : {StateSuccess, StateError},
     status      : {"success", "error"},
     hash        : [digits : 0 .. PowerOf2[HashSize] - 1, case : {"lower", "upper"}],
     found       : Seq(Instances)]

-----------------------------------------------------------------------------
(* compress_report.                                                         *)

(* The end line is another than the start line.                             *)
HasEnd(v) == v.end # 0 /\ v.end # v.start

InstanceFits(v, types) ==
    /\ v.type \in types
    /\ Fits(v.start, LineSize)
    /\ HasEnd(v) => Fits(v.end - v.start, EndSize)

EncodeInstance(v) ==
    ToBits(v.type, TypeSize) \o <<IF HasEnd(v) THEN 1 ELSE 0>> \o ToBits(v.start, LineSize)
        \o (IF HasEnd(v) THEN ToBits(v.end - v.start, EndSize) ELSE <<>>)

IsFirst(seq, k) == \A j \in 1 .. k - 1 : seq[j] # seq[k]

(* OrderedDict.fromkeys keeps the first of those that are equal.            *)
EncodeVulnerabilities(found) ==
    LET codes == [k \in DOMAIN found |-> EncodeInstance(found[k])]
    IN  FlattenSeq([k \in DOMAIN found |-> IF IsFirst(codes, k) THEN codes[k] ELSE <<>>])

EncodeHeader(r) ==
    ToBits(r.version[1], VersionSizes[1]) \o ToBits(r.version[2], VersionSizes[2])
        \o ToBits(r.version[3], VersionSizes[3])
        \o <<IF r.audit_state = StateSuccess THEN 1 ELSE 0, IF r.status = "success" THEN 1 ELSE 0>>

Compress(r) ==
    EncodeHeader(r) \o ToBits(r.hash.digits, HashSize) \o EncodeVulnerabilities(r.found)

(* Anything else raises.                                                    *)
Compresses(r, types) ==
    /\ \A k \in 1 .. 3 : Fits(r.version[k], VersionSizes[k])
    /\ \A k \in DOMAIN r.found : InstanceFits(r.found[k], types)
    /\ Len(Compress(r)) % HexBits = 0

-----------------------------------------------------------------------------
(* decode_report.                                                           *)

HeaderSize == VersionSizes[1] + VersionSizes[2] + VersionSizes[3] + 2

VersionStart(k) == 1 + (IF k > 1 THEN VersionSizes[1] ELSE 0) + (IF k > 2 THEN VersionSizes[2] ELSE 0)

(* A wrong variant: the flag is taken for a bit of the start line. *)
StartAt_WithFlag(bits, p) == Slice(bits, p + TypeSize, LineSize + 1)

TypeAt(bits, p)  == Slice(bits, p, TypeSize)
FlagAt(bits, p)  == Slice(bits, p + TypeSize, 1)
StartAt(bits, p) == Slice(bits, p + TypeSize + 1, LineSize)
EndAt(bits, p)   == Slice(bits, p + TypeSize + 1 + LineSize, EndSize)

(* A wrong variant: the end line itself is in the field. *)
DecodeInstance_End(bits, p) ==
    [type  |-> FromBits(TypeAt(bits, p)),
     start |-> FromBits(StartAt(bits, p)),
     end   |-> FromBits(IF FlagAt(bits, p) = <<1>> THEN EndAt(bits, p) ELSE StartAt(bits, p))]

DecodeInstance(bits, p) ==
    [type  |-> FromBits(TypeAt(bits, p)),
     start |-> FromBits(StartAt(bits, p)),
     end   |-> FromBits(StartAt(bits, p)) +
                   (IF FlagAt(bits, p) = <<1>> THEN FromBits(EndAt(bits, p)) ELSE 0)]

(* An unknown type, or bits that are missing, raise.                        *)
InstanceIsSound(bits, p, types) ==
    /\ Len(TypeAt(bits, p)) = TypeSize /\ FromBits(TypeAt(bits, p)) \in types
    /\ FlagAt(bits, p) # <<>> /\ StartAt(bits, p) # <<>>
    /\ FlagAt(bits, p) = <<1>> => EndAt(bits, p) # <<>>

Consumed(bits, p) ==
    TypeSize + 1 + LineSize + (IF FlagAt(bits, p) = <<1>> THEN EndSize ELSE 0)

(* Where the loop that consumes the bits finds a vulnerability, until no    *)
(* bits are left.                                                           *)
Places(bits) ==
    LET place[k \in 0 .. Len(bits)] ==
            IF k = 0 THEN HeaderSize + HashSize + 1
            ELSE LET last == place[k - 1] IN last + Consumed(bits, last)
    IN  [k \in {n \in 1 .. Len(bits) : place[n - 1] <= Len(bits)} |-> place[k - 1]]

(* The instances of one type.                                               *)
Group(found, type) ==
    FlattenSeq([k \in DOMAIN found |-> IF found[k].type = type THEN <<found[k]>> ELSE <<>>])

(* A wrong variant: one group for each vulnerability type, but only the last instance in it. *)
Grouped_LastOnly(found) ==
    LET types == [k \in DOMAIN found |-> found[k].type]
    IN  FlattenSeq([k \in DOMAIN found |->
            IF IsFirst(types, k) THEN <<Last(Group(found, types[k]))>> ELSE <<>>])

(* __produce_json: one vulnerability for each type, with its instances.     *)
Grouped(found) ==
    LET types == [k \in DOMAIN found |-> found[k].type]
    IN  FlattenSeq([k \in DOMAIN found |->
            IF IsFirst(types, k) THEN Group(found, types[k]) ELSE <<>>])

Decodes(bits, types) ==
    LET places == Places(bits)
    IN  \A k \in DOMAIN places : InstanceIsSound(bits, places[k], types)

DecodeVulnerabilities(bits) ==
    LET places == Places(bits)
    IN  [k \in DOMAIN places |-> DecodeInstance(bits, places[k])]

(* The digits of the hash come out in upper case.                           *)
Decode(bits) ==
    [version     |-> [k \in 1 .. 3 |-> FromBits(Slice(bits, VersionStart(k), VersionSizes[k]))],
     audit_state |-> IF bits[HeaderSize - 1] = 1 THEN StateSuccess ELSE StateError,
     status      |-> IF bits[HeaderSize] = 1 THEN "success" ELSE "error",
     hash        |-> [digits |-> FromBits(Slice(bits, HeaderSize + 1, HashSize)), case |-> "upper"],
     found       |-> Grouped(DecodeVulnerabilities(bits))]
=============================================================================

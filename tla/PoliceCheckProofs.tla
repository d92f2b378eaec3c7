-------------------------- MODULE PoliceCheckProofs --------------------------
(***************************************************************************)
(* The police reads what the auditor found, and judges the full reports,   *)
(* whatever the reports, the types of the two nodes and the sizes of the   *)
(* fields are.                                                             *)
(***************************************************************************)
EXTENDS PoliceCheck, ReportCodecProofs

-----------------------------------------------------------------------------
(* The inductive invariant.                                                 *)

Judges(r) == SameHash(r, own) /\ IsSimilar(r, own)

StateInv ==
    /\ auditor \in {"audited", "submitted", "failed"}
    /\ police \in {"audited", "check", "compare", "failed", "done"}
    /\ audit \in AuditReports /\ own \in PoliceReports
    /\ verdict \in {"none", "correct", "incorrect"}

(* Only a report that compresses is in the contract.                        *)
ChainInv ==
    chain # <<>> => auditor = "submitted" /\ Compresses(audit, AuditorTypes) /\ chain = Compress(audit)

DecodedInv ==
    \/ decoded = NoReport
    \/ chain # <<>> /\ Decodes(chain, PoliceTypes) /\ decoded = Decode(chain)

PoliceInv ==
    /\ police = "compare" => chain # <<>> /\ Decodes(chain, PoliceTypes) /\ decoded = Decode(chain)
    /\ police = "done" =>
          /\ chain # <<>>
          /\ verdict = "correct" <=> Decodes(chain, PoliceTypes) /\ Judges(Decode(chain))
          /\ verdict \in {"correct", "incorrect"}

CheckInv == StateInv /\ ChainInv /\ DecodedInv /\ PoliceInv

LEMMA Assumed ==
    /\ TypesFit(AuditorTypes) /\ TypesFit(PoliceTypes)
    /\ AuditReports \subseteq Reports /\ PoliceReports \subseteq Reports
    BY PoliceAssumption DEF TypesFit

LEMMA CompressedIsNotEmpty ==
    ASSUME NEW r \in AuditReports, Compresses(r, AuditorTypes)
    PROVE  Compress(r) # <<>>
<1>1. r \in Reports
    BY Assumed
<1> QED
    BY <1>1, Assumed, CodecIsFaithful

LEMMA CheckInvInit ==
    ASSUME Init
    PROVE  CheckInv
    BY DEF Init, CheckInv, StateInv, ChainInv, DecodedInv, PoliceInv

LEMMA CheckInvStep ==
    ASSUME CheckInv, [Next]_vars
    PROVE  CheckInv'
<1> USE DEF CheckInv, StateInv, ChainInv, DecodedInv, PoliceInv
<1>1. CASE Submits
  <2>1. chain = <<>> /\ chain' = Compress(audit) /\ Compresses(audit, AuditorTypes)
      BY <1>1 DEF Submits
  <2>2. decoded = NoReport /\ police \notin {"compare", "done"}
      BY <2>1
  <2> QED
      BY <1>1, <2>1, <2>2 DEF Submits
<1>2. CASE SubmitFails
  <2>1. chain = <<>>
      BY <1>2 DEF SubmitFails
  <2> QED
      BY <1>2, <2>1 DEF SubmitFails
<1>3. CASE Compares
    BY <1>3 DEF Compares
<1>4. CASE FindsNone
    BY <1>4 DEF FindsNone
<1>5. CASE Decompresses
  <2>1. CASE Decodes(chain, PoliceTypes)
      BY <1>5, <2>1 DEF Decompresses
  <2>2. CASE ~Decodes(chain, PoliceTypes)
      BY <1>5, <2>2 DEF Decompresses
  <2> QED
      BY <2>1, <2>2
<1>6. CASE Deems
  <2>1. /\ chain # <<>> /\ Decodes(chain, PoliceTypes) /\ decoded = Decode(chain)
        /\ chain' = chain /\ decoded' = decoded /\ own' = own /\ audit' = audit /\ auditor' = auditor
        /\ police' = "done"
        /\ verdict' = IF Judges(decoded) THEN "correct" ELSE "incorrect"
      BY <1>6 DEF Deems, Judges
  <2>2. Judges(Decode(chain))' <=> Judges(Decode(chain))
      BY <2>1 DEF Judges, SameHash, IsSimilar
  <2>3. PoliceInv'
      BY <2>1, <2>2
  <2> QED
      BY <2>1, <2>3
<1>7. CASE UNCHANGED vars
    BY <1>7 DEF vars, Judges
<1> QED
    BY <1>1, <1>2, <1>3, <1>4, <1>5, <1>6, <1>7 DEF Next

THEOREM CheckInvHolds == Spec => []CheckInv
<1>1. Init => CheckInv
    BY CheckInvInit
<1>2. CheckInv /\ [Next]_vars => CheckInv'
    BY CheckInvStep
<1> QED
    BY <1>1, <1>2, PTL DEF Spec

-----------------------------------------------------------------------------
(* What the police reads.                                                   *)

LEMMA ChainDecodes ==
    ASSUME CheckInv, chain # <<>>
    PROVE  /\ chain \in Bits /\ Len(chain) % HexBits = 0
           /\ Preamble(Decode(chain)) = Preamble(audit)
           /\ Range(Decode(chain).found) = {Read(audit.found[k]) : k \in DOMAIN audit.found}
           /\ Decodes(chain, PoliceTypes) <=> \A k \in DOMAIN audit.found : audit.found[k].type \in PoliceTypes
<1>1. audit \in Reports /\ Compresses(audit, AuditorTypes) /\ chain = Compress(audit)
    BY Assumed DEF CheckInv, StateInv, ChainInv
<1> QED
    BY <1>1, Assumed, CodecIsFaithful DEF Preamble

(* What is read of an instance that fits is one that fits, with an end line *)
(* that is not before its start.                                            *)
LEMMA ReadFits ==
    ASSUME NEW types, TypesFit(types), NEW v \in Instances, InstanceFits(v, types)
    PROVE  /\ Read(v).start \in 0 .. PowerOf2[LineSize] - 1
           /\ Read(v).end - Read(v).start \in 0 .. PowerOf2[EndSize] - 1
<1> DEFINE lines == PowerOf2[LineSize]
           ends == PowerOf2[EndSize]
<1>1. lines \in Nat \ {0} /\ ends \in Nat \ {0}
    BY Sizes, PowerPositive
<1>2. v.start \in Int /\ v.end \in Int
    BY DEF Instances
<1>3. v.start >= 0 /\ v.start < lines /\ (HasEnd(v) => v.end - v.start >= 0 /\ v.end - v.start < ends)
    BY DEF InstanceFits, Fits
<1>4. Read(v).start = v.start /\ Read(v).end = IF HasEnd(v) THEN v.end ELSE v.start
    BY DEF Read
<1> HIDE DEF lines, ends
<1>5. v.start \in 0 .. lines - 1
    BY <1>1, <1>2, <1>3
<1>6. Read(v).end - Read(v).start \in 0 .. ends - 1
  <2>1. CASE HasEnd(v)
      BY <2>1, <1>1, <1>2, <1>3, <1>4
  <2>2. CASE ~HasEnd(v)
    <3>1. v.start - v.start = 0
        BY <1>2
    <3> QED
        BY <2>2, <3>1, <1>1, <1>4
  <2> QED
      BY <2>1, <2>2
<1> QED
    BY <1>4, <1>5, <1>6 DEF lines, ends

LEMMA AuditFits ==
    ASSUME CheckInv, chain # <<>>, NEW k \in DOMAIN audit.found
    PROVE  audit.found[k] \in Instances /\ InstanceFits(audit.found[k], AuditorTypes)
<1>1. audit \in Reports /\ Compresses(audit, AuditorTypes)
    BY Assumed DEF CheckInv, StateInv, ChainInv
<1>2. audit.found \in Seq(Instances)
    BY <1>1 DEF Reports
<1> QED
    BY <1>1, <1>2 DEF Compresses

LEMMA CheckInvTypes ==
    ASSUME CheckInv
    PROVE  TypeOK
<1>1. chain \in Seq({0, 1}) /\ Len(chain) % HexBits = 0
  <2>1. CASE chain = <<>>
    <3>1. Len(chain) = 0 /\ 0 % HexBits = 0 /\ chain \in Seq({0, 1})
        BY <2>1, Sizes
    <3> QED
        BY <3>1
  <2>2. CASE chain # <<>>
      BY <2>2, ChainDecodes DEF Bits
  <2> QED
      BY <2>1, <2>2
<1>2. ASSUME NEW k \in DOMAIN decoded.found
      PROVE  /\ decoded.found[k].type \in PoliceTypes
             /\ decoded.found[k].start \in 0 .. PowerOf2[LineSize] - 1
             /\ decoded.found[k].end - decoded.found[k].start \in 0 .. PowerOf2[EndSize] - 1
  <2>1. decoded # NoReport
    <3>1. DOMAIN NoReport.found = {}
        BY DEF NoReport
    <3> QED
        BY <3>1
  <2>2. chain # <<>> /\ Decodes(chain, PoliceTypes) /\ decoded = Decode(chain)
      BY <2>1 DEF CheckInv, DecodedInv
  <2>3. decoded.found[k] \in {Read(audit.found[i]) : i \in DOMAIN audit.found}
      BY <2>2, ChainDecodes DEF Range
  <2>4. PICK i \in DOMAIN audit.found : decoded.found[k] = Read(audit.found[i])
      BY <2>3
  <2>5. audit.found[i].type \in PoliceTypes
      BY <2>2, ChainDecodes
  <2>6. audit.found[i] \in Instances /\ InstanceFits(audit.found[i], AuditorTypes)
      BY <2>2, AuditFits
  <2>7. /\ Read(audit.found[i]).start \in 0 .. PowerOf2[LineSize] - 1
        /\ Read(audit.found[i]).end - Read(audit.found[i]).start \in 0 .. PowerOf2[EndSize] - 1
      BY <2>6, Assumed, ReadFits
  <2>8. Read(audit.found[i]).type = audit.found[i].type
      BY DEF Read
  <2> QED
      BY <2>4, <2>5, <2>7, <2>8
<1> QED
    BY <1>1, <1>2 DEF TypeOK, CheckInv, StateInv

(* The chain holds whole digits of hexadecimal numbers, and what the police *)
(* has decoded fits the fields that it came out of.                         *)
THEOREM TypeOKHolds == Spec => []TypeOK
<1>1. CheckInv => TypeOK
    BY CheckInvTypes
<1> QED
    BY <1>1, CheckInvHolds, PTL

LEMMA CheckInvLosesNothing ==
    ASSUME CheckInv
    PROVE  NothingIsLost
<1> SUFFICES ASSUME police = "compare"
             PROVE  Preamble(decoded) = Preamble(audit) /\ Lines(decoded) = Lines(audit)
    BY DEF NothingIsLost
<1>1. chain # <<>> /\ decoded = Decode(chain)
    BY DEF CheckInv, PoliceInv
<1> DEFINE line(v) == <<v.type, v.start, IF v.end = 0 THEN v.start ELSE v.end>>
<1>2. Lines(decoded) = {line(v) : v \in Range(decoded.found)}
    BY DEF Lines, Range
<1>3. Range(decoded.found) = {Read(audit.found[k]) : k \in DOMAIN audit.found}
    BY <1>1, ChainDecodes
<1>4. ASSUME NEW k \in DOMAIN audit.found
      PROVE  line(Read(audit.found[k])) = line(audit.found[k])
  <2> DEFINE v == audit.found[k]
  <2>1. /\ Read(v).type = v.type /\ Read(v).start = v.start
        /\ Read(v).end = IF HasEnd(v) THEN v.end ELSE v.start
      BY DEF Read
  <2>2. CASE HasEnd(v)
      BY <2>1, <2>2
  <2>3. CASE ~HasEnd(v)
      BY <2>1, <2>3 DEF HasEnd
  <2> QED
      BY <2>2, <2>3
<1>5. Lines(audit) = {line(audit.found[k]) : k \in DOMAIN audit.found}
    BY DEF Lines
<1> HIDE DEF line
<1>6. Lines(decoded) = Lines(audit)
    BY <1>2, <1>3, <1>4, <1>5
<1> QED
    BY <1>1, <1>6, ChainDecodes

(* The police compares what the auditor wrote, for all reports, types and   *)
(* sizes of fields.                                                         *)
THEOREM NothingIsEverLost == Spec => []NothingIsLost
<1>1. CheckInv => NothingIsLost
    BY CheckInvLosesNothing
<1> QED
    BY <1>1, CheckInvHolds, PTL

-----------------------------------------------------------------------------
(* What the police judges.                                                  *)

LEMMA JudgesAsReference ==
    ASSUME CheckInv, chain # <<>>
    PROVE  Judges(Decode(chain)) <=> ReferenceVerdict
<1> DEFINE read == Decode(chain)
           ofPolice == {<<own.found[k].type, own.found[k].start>> : k \in DOMAIN own.found}
           seen == {v \in ofPolice : \E k \in DOMAIN audit.found :
                        audit.found[k].type = v[1] /\ audit.found[k].start = v[2]}
           place(v) == <<v.type, v.start>>
<1>1. SameHash(read, own) <=> audit.hash.digits = own.hash.digits
    BY ChainDecodes DEF SameHash, Preamble
<1>2. VulnerabilitiesSet(read) = {place(audit.found[k]) : k \in DOMAIN audit.found}
  <2>1. VulnerabilitiesSet(read) = {place(v) : v \in Range(read.found)}
      BY DEF VulnerabilitiesSet, Range
  <2>2. Range(read.found) = {Read(audit.found[k]) : k \in DOMAIN audit.found}
      BY ChainDecodes
  <2>3. \A v : place(Read(v)) = place(v)
      BY DEF Read
  <2> HIDE DEF place, read
  <2> QED
      BY <2>1, <2>2, <2>3
<1>3. VulnerabilitiesSet(own) = ofPolice
    BY DEF VulnerabilitiesSet
<1>4. VulnerabilitiesSet(read) \cap VulnerabilitiesSet(own) = seen
  <2>1. \A v \in ofPolice : v = <<v[1], v[2]>>
      OBVIOUS
  <2>2. ASSUME NEW v \in ofPolice
        PROVE  v \in VulnerabilitiesSet(read) <=>
                   \E k \in DOMAIN audit.found : audit.found[k].type = v[1] /\ audit.found[k].start = v[2]
    <3>1. v \in VulnerabilitiesSet(read) <=> \E k \in DOMAIN audit.found : v = place(audit.found[k])
        BY <1>2
    <3>2. \A w : v = place(w) <=> w.type = v[1] /\ w.start = v[2]
        BY <2>1
    <3> QED
        BY <3>1, <3>2
  <2> QED
      BY <2>2, <1>3
<1>5. IsSimilar(read, own) <=> 10 * Cardinality(seen) >= Threshold * Cardinality(ofPolice)
    BY <1>3, <1>4 DEF IsSimilar
<1> QED
    BY <1>1, <1>5 DEF Judges, ReferenceVerdict

LEMMA CheckInvJudges ==
    ASSUME CheckInv
    PROVE  VerdictIsOfFullReports
<1> SUFFICES ASSUME police = "done"
             PROVE  IF \A k \in DOMAIN audit.found : audit.found[k].type \in PoliceTypes
                    THEN verdict = "correct" <=> ReferenceVerdict
                    ELSE verdict = "incorrect"
    BY DEF VerdictIsOfFullReports
<1>1. /\ chain # <<>> /\ verdict \in {"correct", "incorrect"}
      /\ verdict = "correct" <=> Decodes(chain, PoliceTypes) /\ Judges(Decode(chain))
    BY DEF CheckInv, PoliceInv
<1>2. Decodes(chain, PoliceTypes) <=> \A k \in DOMAIN audit.found : audit.found[k].type \in PoliceTypes
    BY <1>1, ChainDecodes
<1>3. Judges(Decode(chain)) <=> ReferenceVerdict
    BY <1>1, JudgesAsReference
<1> QED
    BY <1>1, <1>2, <1>3

(* Neither the encoding, nor its dropping of equal codes, nor the grouping  *)
(* changes a verdict: it is the one on the full reports.                    *)
THEOREM VerdictsAreOfFullReports == Spec => []VerdictIsOfFullReports
<1>1. CheckInv => VerdictIsOfFullReports
    BY CheckInvJudges
<1> QED
    BY <1>1, CheckInvHolds, PTL

-----------------------------------------------------------------------------
(* What was decoded is encoded again.                                       *)

LEMMA CheckInvRecodes ==
    ASSUME CheckInv
    PROVE  RecodesTheSame
<1> SUFFICES ASSUME police = "compare"
             PROVE  Compresses(decoded, PoliceTypes) /\ Decode(Compress(decoded)) = decoded
    BY DEF RecodesTheSame
<1>1. chain # <<>> /\ Decodes(chain, PoliceTypes) /\ decoded = Decode(chain)
    BY DEF CheckInv, PoliceInv
<1>2. audit \in Reports /\ Compresses(audit, AuditorTypes) /\ chain = Compress(audit)
    BY <1>1, Assumed DEF CheckInv, StateInv, ChainInv
<1>3. \A k \in DOMAIN audit.found : audit.found[k].type \in PoliceTypes
    BY <1>1, ChainDecodes
<1> QED
    BY <1>1, <1>2, <1>3, Assumed, CodecIsIdempotent

(* A police that encodes what it has decoded never fails to, even if it     *)
(* knows other types than the auditor, and decodes the same report again.   *)
THEOREM DecodedRecodesTheSame == Spec => []RecodesTheSame
<1>1. CheckInv => RecodesTheSame
    BY CheckInvRecodes
<1> QED
    BY <1>1, CheckInvHolds, PTL
=============================================================================

----------------------------- MODULE PoliceCheck -----------------------------
(***************************************************************************)
(* A report on its way from the node that audits, through the contract, to *)
(* a police node, which compares it with a report of its own.  The two may *)
(* know other types of vulnerabilities, and run other analyzers.           *)
(***************************************************************************)
EXTENDS ReportCodec

CONSTANTS
    AuditReports,   \* of the auditor's analyzers
    PoliceReports,  \* of the police's
    AuditorTypes,   \* numbers of the auditor's vulnerability_types.json
    PoliceTypes,
    Threshold       \* SIMILARITY_THRESHOLD, in tenths

(* The hash is one of HashSize bits, and no file of types that outgrew its  *)
(* field is ever loaded (__initialize_vulnerability_types raises).          *)
ASSUME PoliceAssumption ==
    /\ AuditReports \subseteq Reports /\ PoliceReports \subseteq Reports
    /\ AuditorTypes \subseteq 0 .. PowerOf2[TypeSize] - 1
    /\ PoliceTypes \subseteq 0 .. PowerOf2[TypeSize] - 1
    /\ Threshold \in Nat

VARIABLES
    auditor,  \* where the auditor is, and
    police,   \* where the police is
    audit,    \* full_report of the auditor
    own,      \* full_report of the police
    chain,    \* getReport (external)
    decoded,  \* decompressed_audit_report
    verdict   \* police_check_result

vars == <<auditor, police, audit, own, chain, decoded, verdict>>

NoReport == [found |-> <<>>]

Init ==
    /\ auditor = "audited" /\ police = "audited"
    /\ audit \in AuditReports
    /\ own \in PoliceReports
    /\ chain = <<>>
    /\ decoded = NoReport
    /\ verdict = "none"

(* compress_report and __submit_audit_report.                               *)
Submits ==
    /\ auditor = "audited"
    /\ Compresses(audit, AuditorTypes)
    /\ chain' = Compress(audit)
    /\ auditor' = "submitted"
    /\ UNCHANGED <<police, audit, own, decoded, verdict>>

(* The audit ends with an error, and there is no report.                    *)
SubmitFails ==
    /\ auditor = "audited"
    /\ ~Compresses(audit, AuditorTypes)
    /\ auditor' = "failed"
    /\ UNCHANGED <<police, audit, own, chain, decoded, verdict>>

(* The police's own report needs to be compressed, too.                     *)
Compares ==
    /\ police = "audited"
    /\ police' = IF Compresses(own, PoliceTypes) THEN "check" ELSE "failed"
    /\ UNCHANGED <<auditor, audit, own, chain, decoded, verdict>>

(* There is no report in the contract: the check is an error.               *)
FindsNone ==
    /\ police = "check"
    /\ chain = <<>>
    /\ police' = "failed"
    /\ UNCHANGED <<auditor, audit, own, chain, decoded, verdict>>

Decompresses ==
    /\ police = "check"
    /\ chain # <<>>
    /\ IF Decodes(chain, PoliceTypes)
       THEN police' = "compare" /\ decoded' = Decode(chain) /\ UNCHANGED verdict
       ELSE police' = "done" /\ verdict' = "incorrect" /\ UNCHANGED decoded
    /\ UNCHANGED <<auditor, audit, own, chain>>

(* from_uncompressed_report                                                 *)
VulnerabilitiesSet(r) == {<<r.found[k].type, r.found[k].start>> : k \in DOMAIN r.found}

(* A wrong variant: hashes are compared as they are. *)
SameHash_Case(r, s) == r.hash = s.hash

(* Both are brought to lower case.                                          *)
SameHash(r, s) == r.hash.digits = s.hash.digits

(* The share of the police's vulnerabilities that r has; all of none.       *)
IsSimilar(r, s) ==
    10 * Cardinality(VulnerabilitiesSet(r) \cap VulnerabilitiesSet(s))
        >= Threshold * Cardinality(VulnerabilitiesSet(s))

(* The rest of __is_report_deemed_correct.                                  *)
Deems ==
    /\ police = "compare"
    /\ police' = "done"
    /\ verdict' = IF SameHash(decoded, own) /\ IsSimilar(decoded, own) THEN "correct" ELSE "incorrect"
    /\ UNCHANGED <<auditor, audit, own, chain, decoded>>

Next == Submits \/ SubmitFails \/ Compares \/ FindsNone \/ Decompresses \/ Deems

Spec == Init /\ [][Next]_vars

-----------------------------------------------------------------------------
(* Types of the variables of a police check.                                *)
TypeOK ==
    /\ auditor \in {"audited", "submitted", "failed"}
    /\ police \in {"audited", "check", "compare", "failed", "done"}
    /\ audit \in AuditReports /\ own \in PoliceReports
    /\ chain \in Seq({0, 1}) /\ Len(chain) % HexBits = 0
    /\ \A k \in DOMAIN decoded.found :
         /\ decoded.found[k].type \in PoliceTypes
         /\ decoded.found[k].start \in 0 .. PowerOf2[LineSize] - 1
         /\ decoded.found[k].end - decoded.found[k].start \in 0 .. PowerOf2[EndSize] - 1
    /\ verdict \in {"none", "correct", "incorrect"}

(* What a report says: the lines of each instance, and the rest.            *)
Lines(r) ==
    {<<r.found[k].type, r.found[k].start,
       IF r.found[k].end = 0 THEN r.found[k].start ELSE r.found[k].end>> : k \in DOMAIN r.found}
Preamble(r) == <<r.version, r.audit_state, r.status, r.hash.digits>>

(* The police reads what the auditor wrote, at every limit of the fields:   *)
(* the same header and hash, and the same lines of the same types, neither  *)
(* more nor less.                                                           *)
NothingIsLost ==
    police = "compare" => Preamble(decoded) = Preamble(audit) /\ Lines(decoded) = Lines(audit)

(* "encode(decode(report)) == encode(decode(encode(decode(report))))": what *)
(* was decoded fits all fields, and comes out of them in the same order.    *)
RecodesTheSame ==
    police = "compare" =>
        Compresses(decoded, PoliceTypes) /\ Decode(Compress(decoded)) = decoded

(* The verdict is that of the full reports, before one of them was          *)
(* compressed, unless it has a type that the police does not know.          *)
ReferenceVerdict ==
    /\ audit.hash.digits = own.hash.digits
    /\ LET ofPolice == {<<own.found[k].type, own.found[k].start>> : k \in DOMAIN own.found}
           seen     == {v \in ofPolice : \E k \in DOMAIN audit.found :
                            audit.found[k].type = v[1] /\ audit.found[k].start = v[2]}
       IN  10 * Cardinality(seen) >= Threshold * Cardinality(ofPolice)

VerdictIsOfFullReports ==
    police = "done" =>
        IF \A k \in DOMAIN audit.found : audit.found[k].type \in PoliceTypes
        THEN verdict = "correct" <=> ReferenceVerdict
        ELSE verdict = "incorrect"
=============================================================================

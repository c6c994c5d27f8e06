-------------------------------- MODULE Sender --------------------------------
(***************************************************************************)
(* One sending domain of a workspace and the addresses on it: adding and   *)
(* provisioning the domain, the checks that verify it, the addresses, and  *)
(* the verdict on whether one of them may send.                            *)
(*                                                                         *)
(* A check reads the row, asks the provider and the DNS, writes the row    *)
(* and then stamps the addresses; other requests run between these steps.  *)
(* A lookup touches nothing, so what it answers is chosen with the write   *)
(* it leads to.  The audit trail is left out.                              *)
(***************************************************************************)
EXTENDS Naturals, Sequences, FiniteSets, SequencesExt

CONSTANTS Sessions,      \* requests and sweeps at work at the same time
          Senders,       \* addresses under the domain
          SaysStates,    \* the provider's states of DKIM and MAIL FROM
          SpfAnswers,    \* verdicts on the SPF record
          DmarcAnswers,  \* verdicts on the DMARC record
          MaxDomainRows, \* bound: times the domain is added
          MaxTasks       \* bound: tasks the sessions take up

VARIABLES domain,  \* the sender_domains row, or NoDomain
          stamped, \* address -> "none", or whether verified_at is set
          named,   \* addresses a campaign names
          session, \* session -> what it is doing
          rowsAdded,
          proved,  \* history: required checks the authorities once confirmed for this row
          tasks

senderVars == <<domain, stamped, named, session, rowsAdded, proved, tasks>>

-----------------------------------------------------------------------------
(* dns/spf.ts, dns/dmarc.ts.  A TXT answer is its records, or why it       *)
(* failed.  An SPF record is its terms, a DMARC record its tags in order.  *)
Answered(records) == [reason |-> "", records |-> records]
Unanswered(reason) == [reason |-> reason, records |-> <<>>]
NoSuchName(answer) == answer.reason \in {"no_data", "nxdomain"}

SpfOf(answer) == SelectSeq(answer.records, LAMBDA r : r[1] = "v=spf1")
DmarcOf(answer) == SelectSeq(answer.records, LAMBDA r : r[1] = "v=DMARC1")

AllTerms == {"all", "+all", "-all", "~all", "?all"}
AllowsAnyone(record) ==
  LET alls == {k \in DOMAIN record : record[k] \in AllTerms} IN
  alls # {} /\ record[Min(alls)] \in {"all", "+all"}

EvaluateSpf(answer) ==
  LET found == SpfOf(answer) IN
  IF answer.reason # "" /\ ~NoSuchName(answer) THEN "lookup_failed"
  ELSE IF found = <<>> THEN "missing"
  ELSE IF Len(found) > 1 THEN "multiple_records"
  ELSE IF Len(found[1]) = 1 \/ AllowsAnyone(found[1]) THEN "malformed"
  ELSE IF "include:amazonses.com" \in ToSet(found[1]) THEN "authorized" ELSE "not_authorized"

Policies == {"none", "quarantine", "reject"}

(* The first p tag counts.                                                 *)
PolicyOf(record) ==
  LET ps == {k \in 2..Len(record) : record[k][1] = "p"} IN
  IF ps = {} THEN "" ELSE record[Min(ps)][2]

EvaluateDmarc(answer) ==
  LET found == DmarcOf(answer) IN
  IF answer.reason # "" /\ ~NoSuchName(answer) THEN "lookup_failed"
  ELSE IF found = <<>> THEN "missing"
  ELSE IF Len(found) > 1 THEN "multiple_records"
  ELSE IF PolicyOf(found[1]) \notin Policies THEN "malformed"
  ELSE IF PolicyOf(found[1]) = "none" THEN "monitoring_only" ELSE "enforcing"

-----------------------------------------------------------------------------
(* domain-name.ts.  A name is its labels; a label stands for its class.    *)
LetterLabels == {"com", "shop", "bounce", "test"}
PlainLabels == LetterLabels \cup {"a1", "1", "xn--tld"}

NormalizeDomainName(name) ==
  LET tld == name[Len(name)] IN
  IF name = <<>> THEN "empty"
  ELSE IF \A k \in DOMAIN name : name[k] = "1" THEN "ip_address"
  ELSE IF Len(name) < 2 THEN "single_label"
  ELSE IF ~ToSet(name) \subseteq PlainLabels THEN "invalid_label"
  ELSE IF tld \notin LetterLabels \cup {"xn--tld"} THEN "invalid_tld"
  ELSE IF tld = "test" THEN "reserved_tld" ELSE "ok"

MailFromDomainFor(name) ==
  IF name[1] = "bounce" \/ NormalizeDomainName(<<"bounce">> \o name) # "ok" THEN <<>>
  ELSE <<"bounce">> \o name

DmarcRecordName(name) == <<"_dmarc">> \o name

(* resolver.ts: the names it is willing to look up.                        *)
IsQueryableName(name) ==
  /\ Len(name) > 1 /\ name[Len(name)] \in LetterLabels
  /\ \A k \in 1..(Len(name) - 1) : name[k] \in PlainLabels \cup {"_dmarc"}

(* records.ts: the SPF and DMARC records the setup page asks for.          *)
MailFromSpfValue == <<"v=spf1", "include:amazonses.com", "~all">>
RecommendedDmarcValue == <<"v=DMARC1", <<"p", "none">>>>

-----------------------------------------------------------------------------
(* verification.ts.  What the provider says of the domain.                 *)
Identity == [known : {"yes"}, dkim : SaysStates, sends : BOOLEAN, mailFrom : SaysStates \cup {"none"}]
NoAnswer == {[known |-> k, dkim |-> "pending", sends |-> FALSE, mailFrom |-> "none"] : k \in {"absent", "error"}}
ProviderSays == Identity \cup NoAnswer

FromProviderState(s) == IF s \in {"verified", "failed"} THEN s ELSE "pending"

SigningIsEnough_Bug(previous, says) ==
  IF says.known # "yes" THEN previous.dkim ELSE FromProviderState(says.dkim)

(* A lookup that failed carries the previous status forward; one that      *)
(* found nothing does not.  An unregistered domain counts as an error.     *)
DkimStatus(previous, says) ==
  IF says.known # "yes" THEN previous.dkim
  ELSE IF says.dkim = "verified" /\ ~says.sends THEN "pending"
  ELSE FromProviderState(says.dkim)

MailFromStatus(previous, says) ==
  IF says.known # "yes" THEN previous.mailFrom
  ELSE IF says.mailFrom = "none" THEN "not_configured" ELSE FromProviderState(says.mailFrom)

SpfStatus(previous, verdict) ==
  CASE verdict = "authorized" -> "verified"
    [] verdict \in {"malformed", "multiple_records"} -> "failed"
    [] verdict = "lookup_failed" -> previous.spf
    [] OTHER -> "pending"

DmarcStatus(previous, verdict) ==
  CASE verdict = "enforcing" -> "verified"
    [] verdict = "monitoring_only" -> "pending"
    [] verdict \in {"malformed", "multiple_records"} -> "failed"
    [] verdict = "lookup_failed" -> previous.dmarc
    [] OTHER -> "not_configured"

ComputeVerification(previous, says, spf, dmarc) ==
  [previous EXCEPT !.dkim = DkimStatus(previous, says), !.mailFrom = MailFromStatus(previous, says),
     !.spf = SpfStatus(previous, spf), !.dmarc = DmarcStatus(previous, dmarc), !.checked = TRUE]

(* status.ts, readiness.ts.  A stored policy other than none goes with a   *)
(* verified DMARC status.                                                  *)
Required(row) == {row.dkim, row.spf, row.mailFrom}
IsDomainUsable(row) == Required(row) = {"verified"}

DomainReadiness(row) ==
  IF "failed" \in Required(row) THEN "FAILED"
  ELSE IF IsDomainUsable(row) THEN (IF row.dmarc = "verified" THEN "VERIFIED" ELSE "ATTENTION")
  ELSE IF ~row.checked /\ "verified" \notin Required(row) THEN "NOT_CONFIGURED" ELSE "PENDING"

NewDomain(id) == [id |-> id, dkim |-> "pending", spf |-> "pending", dmarc |-> "not_configured",
                  mailFrom |-> "not_configured", checked |-> FALSE]
NoDomain == NewDomain(0)

EvaluateSenderReadiness(i) ==
  IF stamped[i] = "none" THEN {"sender_identity_missing"}
  ELSE IF domain = NoDomain THEN {"sender_domain_missing"}
  ELSE (IF domain.checked THEN {} ELSE {"domain_never_checked"})
       \cup (IF domain.dkim = "verified" THEN {} ELSE {"dkim_not_verified"})
       \cup (IF domain.spf = "verified" THEN {} ELSE {"spf_not_verified"})
       \cup (IF domain.mailFrom = "verified" THEN {} ELSE {"mail_from_not_verified"})
       \cup (IF stamped[i] = "no" /\ IsDomainUsable(domain) THEN {"identity_not_marked_verified"} ELSE {})

-----------------------------------------------------------------------------
Idle == [pc |-> "idle", row |-> NoDomain, usable |-> FALSE, sender |-> "none"]

SenderInit ==
  /\ domain = NoDomain /\ rowsAdded = 0 /\ proved = {} /\ named = {} /\ tasks = 0
  /\ stamped = [i \in Senders |-> "none"]
  /\ session = [k \in Sessions |-> Idle]

Doing(k, pc) == session[k].pc = pc
Begins(k) == Doing(k, "idle") /\ tasks < MaxTasks /\ tasks' = tasks + 1
Goes(k, next) == session' = [session EXCEPT ![k] = next]
Here(row) == domain # NoDomain /\ domain.id = row.id

(* addSenderDomain: insert, or return the row there is.                    *)
InsertDomain(k) ==
  /\ Begins(k)
  /\ IF domain = NoDomain
     THEN /\ rowsAdded < MaxDomainRows /\ rowsAdded' = rowsAdded + 1
          /\ domain' = NewDomain(rowsAdded + 1) /\ proved' = {}
     ELSE UNCHANGED <<domain, rowsAdded, proved>>
  /\ Goes(k, [Idle EXCEPT !.pc = "provision", !.row = domain'])
  /\ UNCHANGED <<stamped, named>>

(* The provider refuses, or the row is provisioned and then read again.    *)
Provision(k) ==
  /\ Doing(k, "provision")
  /\ Goes(k, Idle) \/ (Here(session[k].row) /\ Goes(k, [session[k] EXCEPT !.pc = "check", !.row = domain]))
  /\ UNCHANGED <<domain, stamped, named, rowsAdded, proved, tasks>>

(* A re-check by a person or by the sweep.                                 *)
VerifySenderDomain(k) ==
  /\ Begins(k) /\ domain # NoDomain
  /\ Goes(k, [Idle EXCEPT !.pc = "check", !.row = domain])
  /\ UNCHANGED <<domain, stamped, named, rowsAdded, proved>>

Confirmed(says, spf) ==
  (IF says.known = "yes" /\ says.dkim = "verified" /\ says.sends THEN {"dkim"} ELSE {})
  \cup (IF says.known = "yes" /\ says.mailFrom = "verified" THEN {"mailFrom"} ELSE {})
  \cup (IF spf = "authorized" THEN {"spf"} ELSE {})

(* The stamp follows when this check changes what it read as usable.       *)
RunDomainCheck(k) ==
  \E says \in ProviderSays, spf \in SpfAnswers, dmarc \in DmarcAnswers :
    LET before == session[k].row
        after == ComputeVerification(before, says, spf, dmarc) IN
    /\ Doing(k, "check")
    /\ domain' = IF Here(before) THEN after ELSE domain
    /\ proved' = IF Here(before) THEN proved \cup Confirmed(says, spf) ELSE proved
    /\ Goes(k, IF IsDomainUsable(after) # IsDomainUsable(before)
               THEN [session[k] EXCEPT !.pc = "stamp", !.usable = IsDomainUsable(after)] ELSE Idle)
    /\ UNCHANGED <<stamped, named, rowsAdded, tasks>>

SetIdentityVerification(k) ==
  /\ Doing(k, "stamp")
  /\ stamped' = [i \in Senders |->
       IF stamped[i] = "none" \/ ~Here(session[k].row) THEN stamped[i]
       ELSE IF session[k].usable THEN "yes" ELSE "no"]
  /\ Goes(k, Idle)
  /\ UNCHANGED <<domain, named, rowsAdded, proved, tasks>>

(* The foreign key refuses to drop a domain that has addresses.            *)
RemoveSenderDomain ==
  /\ domain # NoDomain
  /\ \A i \in Senders : stamped[i] = "none"
  /\ domain' = NoDomain /\ proved' = {}
  /\ UNCHANGED <<stamped, named, session, rowsAdded, tasks>>

(* createSenderIdentity reads the domain, then inserts under its id.       *)
CreateSenderIdentity(k, i) ==
  /\ Begins(k) /\ domain # NoDomain
  /\ DomainReadiness(domain) # "FAILED"
  /\ Goes(k, [Idle EXCEPT !.pc = "insert", !.row = domain, !.sender = i])
  /\ UNCHANGED <<domain, stamped, named, rowsAdded, proved>>

InsertIdentity(k) ==
  LET i == session[k].sender IN
  /\ Doing(k, "insert")
  /\ stamped' = IF Here(session[k].row) /\ stamped[i] = "none" THEN [stamped EXCEPT ![i] = "no"] ELSE stamped
  /\ Goes(k, Idle)
  /\ UNCHANGED <<domain, named, rowsAdded, proved, tasks>>

(* A campaign that names an address keeps it.                              *)
NameSender(i) ==
  /\ stamped[i] # "none" /\ i \notin named
  /\ named' = named \cup {i}
  /\ UNCHANGED <<domain, stamped, session, rowsAdded, proved, tasks>>

DeleteSenderIdentity(i) ==
  /\ stamped[i] # "none" /\ i \notin named
  /\ stamped' = [stamped EXCEPT ![i] = "none"]
  /\ UNCHANGED <<domain, named, session, rowsAdded, proved, tasks>>

(* A request is cut off; each call it completed stays.                     *)
CutOff(k) ==
  /\ ~Doing(k, "idle")
  /\ Goes(k, Idle)
  /\ UNCHANGED <<domain, stamped, named, rowsAdded, proved, tasks>>

SenderNext ==
  \/ \E k \in Sessions :
       \/ InsertDomain(k) \/ Provision(k) \/ VerifySenderDomain(k) \/ RunDomainCheck(k)
       \/ SetIdentityVerification(k) \/ InsertIdentity(k) \/ CutOff(k)
       \/ \E i \in Senders : CreateSenderIdentity(k, i)
  \/ \E i \in Senders : NameSender(i) \/ DeleteSenderIdentity(i)
  \/ RemoveSenderDomain

SenderSpec == SenderInit /\ [][SenderNext]_senderVars

-----------------------------------------------------------------------------
(* readiness.ts: "a single source of truth".  An address is ready only     *)
(* while it exists, is stamped, and the provider and the DNS have each     *)
(* confirmed their part for this very row of its domain - a failed lookup, *)
(* a check of a row since removed, or a stale read never stands in for     *)
(* that - and the domain's own badge says the same.                        *)
ReadyIsProved ==
  \A i \in Senders :
    LET blockers == EvaluateSenderReadiness(i)
        badge == DomainReadiness(domain) IN
    /\ blockers = {} =>
         /\ stamped[i] = "yes" /\ domain # NoDomain
         /\ proved = {"dkim", "spf", "mailFrom"}
    /\ stamped[i] # "none" =>
         (blockers \subseteq {"identity_not_marked_verified"} <=> badge \in {"VERIFIED", "ATTENTION"})

(* verification.ts:268: "The identity stamp follows the domain, so         *)
(* `verified_at` can never disagree with the authority that decides        *)
(* usability".  Whenever nothing is in progress.                           *)
StampFollowsDomain ==
  (\A k \in Sessions : Doing(k, "idle")) =>
    \A i \in Senders : stamped[i] # "none" => (stamped[i] = "yes" <=> IsDomainUsable(domain))

(* A domain that publishes what the setup page shows passes the checks of  *)
(* it, whatever else it publishes beside - but for a second SPF record,    *)
(* which makes both worthless.                                             *)
ShownRecordsPass(others) ==
  /\ EvaluateSpf(Answered(others \o <<MailFromSpfValue>>)) =
       IF SpfOf(Answered(others)) = <<>> THEN "authorized" ELSE "multiple_records"
  /\ DmarcOf(Answered(others)) = <<>> =>
       EvaluateDmarc(Answered(<<RecommendedDmarcValue>> \o others)) = "monitoring_only"

(* An accepted domain can be looked up under every name a check asks for,  *)
(* so that its verification can end; and its MAIL FROM name lies under it  *)
(* and is not asked to nest.  (A punycode top level is accepted and can    *)
(* not be looked up.)                                                      *)
AcceptedNamesResolve(name) ==
  (NormalizeDomainName(name) = "ok" /\ name[Len(name)] # "xn--tld") =>
    LET mailFrom == MailFromDomainFor(name) IN
    /\ IsQueryableName(name) /\ IsQueryableName(DmarcRecordName(name))
    /\ mailFrom = <<>> <=> name[1] = "bounce"
    /\ mailFrom # <<>> => IsQueryableName(mailFrom) /\ MailFromDomainFor(mailFrom) = <<>>
=============================================================================

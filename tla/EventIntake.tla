----------------------------- MODULE EventIntake -----------------------------
(***************************************************************************)
(* The way of a provider event into the database: SNS publishes, delivers  *)
(* and delivers again; the webhook verifies the envelope with a cached     *)
(* certificate, reads the event inside and records it.  What the database  *)
(* makes of an event is ProviderEvents.                                    *)
(*                                                                         *)
(* A field is a value, Missing or Odd: present and not of its schema.      *)
(* A URL is its origin, its region, whether it is plain (no port, user or  *)
(* fragment), its path and its parameters.  Time is in units of its own.   *)
(***************************************************************************)
EXTENDS Naturals, Sequences, FiniteSets, SequencesExt

CONSTANTS Missing, Odd,
          Notices,      \* what is published: SNS message ids
          Handlers,     \* requests the endpoint can be serving at once
          MaxAge,       \* SNS_MAX_AGE_MS
          MaxSkew,      \* SNS_MAX_FUTURE_SKEW_MS
          CacheEntries, \* CACHE_MAX_ENTRIES
          CacheTtl,     \* CACHE_TTL_MS
          CertLife,     \* how long a signing certificate is valid
          RetryWindow,  \* how long SNS delivers a notification again
          MaxInstant    \* bound: the clock

ASSUME IntakeNumbers ==
  /\ MaxAge \in Nat /\ MaxSkew \in Nat /\ CertLife \in Nat /\ CacheTtl \in Nat
  /\ CacheEntries \in Nat \ {0}

\* Missing and Odd are marks: no field has them for a value of its own.
ASSUME IntakeMarks ==
  /\ Odd # Missing
  /\ \A mark \in {Odd, Missing} :
       mark \notin Notices /\ mark \notin Nat
       /\ mark \notin {"topic in r1", "r1", "2", "stray", "Notification"}
  /\ "stray" \notin Notices

Topic == "topic in r1"

-----------------------------------------------------------------------------
(* sns-verify.ts.                                                          *)
TopicRegion(arn) == CASE arn = Topic -> "r1" [] arn = "topic in r2" -> "r2" [] OTHER -> Missing
NoParams == [Action |-> Missing, TopicArn |-> Missing, Token |-> Missing]
IsSnsOrigin(url, region) == url.origin = "https://sns" /\ url.region = region /\ url.plain

IsAllowedSigningCertUrl(url, arn) ==
  /\ url # Odd /\ TopicRegion(arn) # Missing
  /\ IsSnsOrigin(url, TopicRegion(arn)) /\ url.params = NoParams /\ url.path = "pem"

AllowedSubscribeUrl(e, arn) ==
  LET url == e.SubscribeURL IN
  /\ e.Type = "SubscriptionConfirmation" /\ url # Odd /\ TopicRegion(arn) # Missing
  /\ IsSnsOrigin(url, TopicRegion(arn)) /\ url.path = "/"
  /\ url.params = [Action |-> "ConfirmSubscription", TopicArn |-> arn, Token |-> e.Token]

(* The shape of an envelope, and the type its header names.                *)
ParseSnsEnvelope(e, header) ==
  IF e = Odd THEN "not_json"
  ELSE IF \E f \in {"MessageId", "TopicArn", "Message", "Signature"} : e[f] = Odd THEN "malformed_envelope"
  ELSE IF e.Type # "Notification" /\ Missing \in {e.Token, e.SubscribeURL} THEN "malformed_envelope"
  ELSE IF e.Type # header THEN "type_mismatch"
  ELSE "ok"

CanonicalString(e) ==
  LET optional(f) == IF e[f] = Missing THEN <<>> ELSE <<f, e[f]>> IN
  IF e.Type = "Notification"
  THEN <<e.Message, e.MessageId>> \o optional("Subject") \o <<e.Timestamp, e.TopicArn, e.Type>>
  ELSE <<e.Message, e.MessageId, e.SubscribeURL, e.Timestamp, e.Token, e.TopicArn, e.Type>>

(* The checks that need no certificate.                                    *)
Refuses(e, arn, at) ==
  IF TopicRegion(arn) = Missing THEN "not_configured"
  ELSE IF e.TopicArn # arn THEN "wrong_topic"
  ELSE IF e.SignatureVersion # "2" THEN "bad_signature_version"
  ELSE IF ~IsAllowedSigningCertUrl(e.SigningCertURL, arn) THEN "bad_cert_url"
  ELSE IF e.Timestamp = Odd THEN "bad_timestamp"
  ELSE IF at > e.Timestamp + MaxAge \/ e.Timestamp > at + MaxSkew THEN "stale"
  ELSE "ok"

(* A certificate is named by the moment it became valid.                   *)
SignatureVerifies(e, pem, at) ==
  /\ pem <= at /\ at <= pem + CertLife
  /\ e.Signature = [key |-> pem, over |-> CanonicalString(e)]

-----------------------------------------------------------------------------
(* parse.ts.  A mail object is a message id, its tags, its recipients and  *)
(* its time; a body is what the event's own type adds.                     *)
SesEventTypes == [t \in {"Bounce", "Complaint", "Delivery", "Send", "Reject", "Open"} |->
  CASE t = "Bounce" -> "bounce" [] t = "Complaint" -> "complaint" [] t = "Delivery" -> "delivery"
    [] t = "Send" -> "send" [] t = "Reject" -> "reject" [] t = "Open" -> "open"]
Acted == {"bounce", "complaint", "send", "delivery", "reject"}
MessageIds == {"id1", "id2"}

Tag(tags, name) == IF tags # Missing /\ tags[name] # Odd THEN tags[name] ELSE Missing
IsoOrNull(value) == IF value = Odd THEN Missing ELSE value
CanonicalRecipients(list) == {r.normalized : r \in {x \in ToSet(list) : x.normalized # Odd}}

Malformed(reason) == [kind |-> "malformed", reason |-> reason]

ParseSesEvent(m) ==
  LET rawType == IF m.eventType # Missing THEN m.eventType ELSE m.notificationType
      type == IF rawType \in DOMAIN SesEventTypes THEN SesEventTypes[rawType] ELSE "other"
      readable == m.mail # Missing /\ m.mail.messageId \in MessageIds
      mailOk == readable /\ m.mail.tags # Odd
      from == IF type \in {"send", "reject"} THEN m.mail ELSE m.body
      event == [kind |-> type, messageId |-> m.mail.messageId, jobId |-> Tag(m.mail.tags, "job_id"),
                attemptNo |-> Tag(m.mail.tags, "attempt_no"),
                recipients |-> CanonicalRecipients(from.recipients), occurredAt |-> IsoOrNull(from.timestamp)] IN
  IF m = Odd THEN Malformed("not_json")
  ELSE IF rawType = Missing THEN Malformed("malformed_event")
  ELSE IF type \notin Acted
  THEN [kind |-> "ignored", messageId |-> IF readable THEN m.mail.messageId ELSE Missing]
  ELSE IF ~mailOk THEN Malformed(IF readable THEN "malformed_mail" ELSE "missing_message_id")
  ELSE IF type \in {"send", "reject"} /\ m.mail.recipients \in {Odd, <<>>} THEN Malformed("malformed_mail")
  ELSE IF type \notin {"send", "reject"} /\ (m.body \in {Missing, Odd} \/ m.body.recipients \in {Odd, <<>>})
  THEN Malformed(type)
  ELSE event

-----------------------------------------------------------------------------
VARIABLES instant,      \* the time
          signing,      \* the certificate SNS signs with
          published,    \* notice -> its envelope, or Missing
          fate,         \* notice -> what SNS makes of it
          certificates, \* sns-fetch.ts: the cache, oldest entry first
          requests,     \* request -> where it is
          recorded      \* the notices the database holds

intakeVars == <<instant, signing, published, fate, certificates, requests, recorded>>

Free == [at |-> "free"]
CertUrl(pem) == [origin |-> "https://sns", region |-> "r1", plain |-> TRUE, path |-> "pem", params |-> NoParams, pem |-> pem]

IntakeInit ==
  /\ instant = 1 /\ signing = 1 /\ certificates = <<>> /\ recorded = {}
  /\ published = [n \in Notices |-> Missing] /\ fate = [n \in Notices |-> "none"]
  /\ requests = [r \in Handlers |-> Free]

(* Amazon.                                                                 *)
Envelope(n, type, message, stamp) ==
  LET unsigned == [Type |-> type, MessageId |-> n, TopicArn |-> Topic, Message |-> message, Subject |-> Missing,
                   Timestamp |-> stamp, SignatureVersion |-> "2", SigningCertURL |-> CertUrl(signing), Token |-> "token",
                   SubscribeURL |-> [CertUrl(signing) EXCEPT !.path = "/",
                     !.params = [Action |-> "ConfirmSubscription", TopicArn |-> Topic, Token |-> "token"]],
                   Signature |-> Missing] IN
  [unsigned EXCEPT !.Signature = [key |-> signing, over |-> CanonicalString(unsigned)]]

Publish(n, type, message, stamp) ==
  /\ published[n] = Missing
  /\ published' = [published EXCEPT ![n] = Envelope(n, type, message, stamp)]
  /\ fate' = [fate EXCEPT ![n] = "retrying"]
  /\ UNCHANGED <<instant, signing, certificates, requests, recorded>>

(* SNS signs with a certificate that is valid; it may change it.           *)
TimePasses ==
  /\ instant < MaxInstant /\ instant' = instant + 1
  /\ signing' \in {k \in {signing, instant'} : instant' <= k + CertLife}
  /\ UNCHANGED <<published, fate, certificates, requests, recorded>>

Serving(n) == {r \in Handlers : requests[r].at # "free" /\ requests[r].heard /\ requests[r].envelope.MessageId = n}

(* SNS stops waiting, or the instance is killed: no answer is heard.  What *)
(* runs on may still finish.                                               *)
NoAnswerHeard(r, dies) ==
  /\ requests[r].at # "free"
  /\ dies \/ requests[r].heard
  /\ requests' = [requests EXCEPT ![r] = IF dies THEN Free ELSE [@ EXCEPT !.heard = FALSE]]
  /\ UNCHANGED <<instant, signing, published, fate, certificates, recorded>>

-----------------------------------------------------------------------------
(* route.ts.  What runs between two awaits is one step.                    *)
Awaits(r, q, place) == requests' = [requests EXCEPT ![r] = [q EXCEPT !.at = place]] /\ UNCHANGED fate

Answer(r, q, status) ==
  /\ requests' = [requests EXCEPT ![r] = Free]
  /\ fate' = IF ~q.heard THEN fate
             ELSE [fate EXCEPT ![q.envelope.MessageId] =
                     CASE status = 200 -> "taken" [] status \in 400..499 -> "refused" [] OTHER -> "retrying"]

(* The certificate is there: the signature, and what the envelope asks.    *)
Certified(r, q, pem) ==
  LET e == q.envelope IN
  IF ~SignatureVerifies(e, pem, q.now) THEN Answer(r, q, 400)
  ELSE CASE e.Type = "SubscriptionConfirmation" ->
              IF AllowedSubscribeUrl(e, Topic) THEN Awaits(r, q, "confirming") ELSE Answer(r, q, 400)
         [] e.Type = "UnsubscribeConfirmation" -> Answer(r, q, 200)
         [] OTHER -> IF ParseSesEvent(e.Message).kind = "malformed" THEN Answer(r, q, 400)
                     ELSE Awaits(r, q, "recording")

Usable(url) == {k \in DOMAIN certificates : certificates[k].url = url /\ certificates[k].expiresAt > instant}

(* A request that has been read, up to its first await.                    *)
Receive(r, e, header, heard) ==
  LET q == [at |-> "fetching", heard |-> heard, envelope |-> e, now |-> instant]
      hits == Usable(e.SigningCertURL) IN
  /\ requests[r] = Free
  /\ IF ParseSnsEnvelope(e, header) # "ok" \/ Refuses(e, Topic, instant) # "ok" THEN Answer(r, q, 400)
     ELSE IF hits = {} THEN Awaits(r, q, "fetching")
     ELSE Certified(r, q, certificates[Min(hits)].pem)
  /\ UNCHANGED <<instant, signing, published, certificates, recorded>>

(* SNS delivers a notice that is due.                                      *)
Deliver(r, n) ==
  /\ fate[n] = "retrying" /\ Serving(n) = {} /\ instant <= published[n].Timestamp + RetryWindow
  /\ Receive(r, published[n], published[n].Type, TRUE)

(* A request that is not what SNS published.                               *)
Strays(e) ==
  {[e EXCEPT !.MessageId = "stray"], [e EXCEPT !.MessageId = Odd], [e EXCEPT !.TopicArn = "topic in r2"],
   [e EXCEPT !.SignatureVersion = "1"], [e EXCEPT !.Timestamp = Odd], [e EXCEPT !.SigningCertURL.plain = FALSE]}

Stray(r, n) ==
  /\ published[n] # Missing
  /\ \/ Receive(r, published[n], "other", FALSE)
     \/ \E e \in Strays(published[n]) : Receive(r, e, e.Type, FALSE)

(* The fetch answers: the oldest entry makes room, even for a URL that is  *)
(* in the cache; an entry set again keeps its place.                       *)
Remembered(url, pem) ==
  LET room == IF Len(certificates) >= CacheEntries THEN Tail(certificates) ELSE certificates
      entry == [url |-> url, pem |-> pem, expiresAt |-> instant + CacheTtl] IN
  IF \E k \in DOMAIN room : room[k].url = url
  THEN [k \in DOMAIN room |-> IF room[k].url = url THEN entry ELSE room[k]]
  ELSE Append(room, entry)

FetchSigningCertificate(r) ==
  LET url == requests[r].envelope.SigningCertURL IN
  /\ requests[r].at = "fetching"
  /\ certificates' = Remembered(url, url.pem)
  /\ Certified(r, requests[r], url.pem)
  /\ UNCHANGED <<instant, signing, published, recorded>>

RefusesUnfetched_Bug(r) ==
  /\ requests[r].at = "fetching" /\ Answer(r, requests[r], 400)
  /\ UNCHANGED <<instant, signing, published, certificates, recorded>>

FetchFails(r) ==
  /\ requests[r].at = "fetching" /\ Answer(r, requests[r], 503)
  /\ UNCHANGED <<instant, signing, published, certificates, recorded>>

ConfirmSnsSubscription(r, accepted) ==
  /\ requests[r].at = "confirming" /\ Answer(r, requests[r], IF accepted THEN 200 ELSE 503)
  /\ UNCHANGED <<instant, signing, published, certificates, recorded>>

(* applyProviderEvent: one call of one function.                           *)
Commit(r) ==
  /\ requests[r].at = "recording" /\ Awaits(r, requests[r], "recorded")
  /\ recorded' = recorded \cup {requests[r].envelope.MessageId}
  /\ UNCHANGED <<instant, signing, published, certificates>>

(* The reply of the database, or none: then SNS is told to try again.      *)
Reply(r, lost) ==
  /\ \/ requests[r].at = "recorded"
     \/ requests[r].at = "recording" /\ lost
  /\ Answer(r, requests[r], IF lost THEN 500 ELSE 200)
  /\ UNCHANGED <<instant, signing, published, certificates, recorded>>

IntakeSteps(r) ==
  \/ FetchSigningCertificate(r) \/ FetchFails(r) \/ Commit(r)
  \/ \E b \in BOOLEAN : ConfirmSnsSubscription(r, b) \/ Reply(r, b) \/ NoAnswerHeard(r, b)
  \/ \E n \in Notices : Deliver(r, n) \/ Stray(r, n)

IntakeNext(mails) ==
  \/ TimePasses
  \/ \E n \in Notices, stamp \in instant..(instant + MaxSkew), mail \in mails : Publish(n, mail.type, mail.message, stamp)
  \/ \E r \in Handlers : IntakeSteps(r)

IntakeSpec(mails) == IntakeInit /\ [][IntakeNext(mails)]_intakeVars

-----------------------------------------------------------------------------
(* sns-fetch.ts: the cache keeps its bound, one entry for a URL, and under *)
(* each URL its own certificate.                                           *)
CertificatesAreTheirOwn ==
  /\ Len(certificates) <= CacheEntries
  /\ \A k \in DOMAIN certificates : certificates[k].pem = certificates[k].url.pem
  /\ \A j, k \in DOMAIN certificates : certificates[j].url = certificates[k].url => j = k

(* route.ts, 30-35: what SNS is told is true.  An event SNS believes taken *)
(* is in the database; a readable one is refused - for good - only when it *)
(* came too late for the verifier, never because a certificate or the      *)
(* database could not be reached; what was not published, or is not        *)
(* readable, is never recorded; and no certificate is used under another's *)
(* URL.                                                                    *)
AnswersAreTrue ==
  /\ recorded \subseteq {n \in Notices : published[n] # Missing}
  /\ \A n \in {m \in Notices : published[m] # Missing /\ published[m].Type = "Notification"} :
       LET e == published[n]
           readable == ParseSesEvent(e.Message).kind # "malformed" IN
       /\ fate[n] = "taken" => n \in recorded
       /\ n \in recorded => readable
       /\ fate[n] = "refused" /\ readable =>
            \/ instant > e.Timestamp + MaxAge
            \/ instant > e.Signature.key + CertLife
  /\ CertificatesAreTheirOwn

(* parse.ts, 73: an odd destination list or time does not make a bounce or *)
(* a complaint unreadable, and no event the database is asked to match     *)
(* lacks a message id or names an attempt it did not carry.                *)
FeedbackIsReadable(m) ==
  LET event == ParseSesEvent(m)
      type == IF m.eventType # Missing THEN m.eventType ELSE m.notificationType
      other == [m EXCEPT !.mail = [@ EXCEPT !.recipients = Odd, !.timestamp = Odd]] IN
  /\ m.mail # Missing /\ type \in {"Bounce", "Complaint", "Delivery"} => ParseSesEvent(other) = event
  /\ event.kind \in Acted =>
       /\ event.messageId = m.mail.messageId /\ event.messageId \in MessageIds
       /\ event.attemptNo \in {Missing} \cup 1..5 /\ Odd \notin event.recipients
=============================================================================

------------------------- MODULE EventIntakeProofs -------------------------
(***************************************************************************)
(* What the webhook tells SNS is true, for any notices, any number of      *)
(* requests, any cache and any limits of age: an event SNS believes taken  *)
(* is in the database, and a readable one is refused only when it is late; *)
(* and what the parser reads of any message is what the message carried.   *)
(***************************************************************************)
EXTENDS EventIntake, SequenceTheorems, TLAPS

EnvelopeFields == {"Type", "MessageId", "TopicArn", "Message", "Subject", "Timestamp", "SignatureVersion",
                   "SigningCertURL", "Token", "SubscribeURL", "Signature"}
Urls    == {CertUrl(k) : k \in Nat}
Entries == [url : Urls, pem : Nat, expiresAt : Nat]

\* What Amazon signed: the envelope of the notice n.
Signed(e, n) ==
    /\ DOMAIN e = EnvelopeFields
    /\ e.MessageId = n /\ e.TopicArn = Topic /\ e.SignatureVersion = "2" /\ e.Timestamp \in Nat
    /\ e.Signature = [key |-> e.Signature.key, over |-> CanonicalString(e)] /\ e.Signature.key \in Nat
    /\ e.SigningCertURL = CertUrl(e.Signature.key)

Readable(e) == ParseSesEvent(e.Message).kind # "malformed"
Late(e, at) == at > e.Timestamp + MaxAge \/ at > e.Signature.key + CertLife

\* The clock, and what each variable is a function of.
IntakeTypeOK ==
    /\ instant \in Nat /\ signing \in Nat /\ signing <= instant
    /\ DOMAIN published = Notices /\ DOMAIN fate = Notices /\ DOMAIN requests = Handlers
    /\ certificates \in Seq(Entries)

\* What was published was signed with a certificate then valid, and its stamp is
\* no further ahead than clocks differ.
PublishedIsSigned ==
    \A n \in Notices : published[n] # Missing =>
        /\ Signed(published[n], n)
        /\ published[n].Signature.key <= instant /\ published[n].Timestamp <= instant + MaxSkew

\* A request that is served holds an envelope Amazon signed, or one that no
\* signature is over and whose answer nobody hears; it waits to record only what
\* is readable, and has recorded what it says.
Genuine(q, sent) == \E n \in Notices : sent[n] # Missing /\ q.envelope = sent[n]
Forged(q) == ~q.heard /\ q.at = "fetching" /\ q.envelope.Signature.over # CanonicalString(q.envelope)

ServedWell(q, at, sent, held) ==
    /\ DOMAIN q = {"at", "heard", "envelope", "now"} /\ q.heard \in BOOLEAN
    /\ q.at \in {"fetching", "confirming", "recording", "recorded"}
    /\ q.now \in Nat /\ q.now <= at
    /\ q.envelope.SigningCertURL \in Urls
    /\ Forged(q) \/ (Genuine(q, sent) /\ q.envelope.Signature.key <= q.now)
    /\ q.at = "confirming" => q.envelope.Type = "SubscriptionConfirmation"
    /\ q.at \in {"recording", "recorded"} => Readable(q.envelope)
    /\ q.at = "recorded" => q.envelope.MessageId \in held

RequestsAreServedWell ==
    \A r \in Handlers : requests[r] = Free \/ ServedWell(requests[r], instant, published, recorded)

\* The database holds only notices that were published and can be read.
RecordedIsReadable == \A n \in recorded : n \in Notices /\ published[n] # Missing /\ Readable(published[n])

\* What SNS was told of a notice.
ToldTruly(n, told, e, held, at) ==
    /\ e = Missing => told = "none"
    /\ (e # Missing /\ e.Type = "Notification") =>
         /\ told = "taken" => n \in held
         /\ (told = "refused" /\ Readable(e)) => Late(e, at)

FateIsTrue == \A n \in Notices : ToldTruly(n, fate[n], published[n], recorded, instant)

IntakeInv ==
    /\ IntakeTypeOK /\ PublishedIsSigned /\ RequestsAreServedWell
    /\ RecordedIsReadable /\ FateIsTrue /\ CertificatesAreTheirOwn

\* A mark is no record: it has none of the fields an envelope, a signature or a
\* URL has.
MarksAreNoRecords ==
    \A mark \in {Odd, Missing} : {"Type", "key", "origin"} \cap DOMAIN mark = {}

-----------------------------------------------------------------------------
\* The second thing a signature is over is the id of the message.
LEMMA SecondOfThree ==
    ASSUME NEW S, NEW a \in S, NEW b \in S, NEW middle \in Seq(S), NEW rest \in Seq(S)
    PROVE  (<<a, b>> \o middle \o rest)[2] = b
<1> DEFINE head == <<a, b>>
<1>1. head \in Seq(S) /\ Len(head) = 2 /\ head[2] = b
    OBVIOUS
<1> HIDE DEF head
<1>2. head \o middle \in Seq(S) /\ Len(head \o middle) \in Nat /\ Len(head \o middle) >= 2 /\ (head \o middle)[2] = b
    <2>1. Len(middle) \in Nat
        OBVIOUS
    <2> QED
        BY <1>1, <2>1, ConcatProperties
<1> DEFINE front == head \o middle
<1> HIDE DEF front
<1>3. (front \o rest)[2] = front[2]
    BY <1>2 DEF front
<1> QED
    BY <1>2, <1>3 DEF front, head

LEMMA CanonicalNamesTheMessage ==
    ASSUME NEW e
    PROVE  CanonicalString(e)[2] = e.MessageId
<1> DEFINE optional == IF e["Subject"] = Missing THEN <<>> ELSE <<"Subject", e["Subject"]>>
           rest == <<e.Timestamp, e.TopicArn, e.Type>>
           All  == {e.Message, e.MessageId, "Subject", e["Subject"], e.Timestamp, e.TopicArn, e.Type}
<1>1. CASE e.Type = "Notification"
    <2>1. CanonicalString(e) = <<e.Message, e.MessageId>> \o optional \o rest
        BY <1>1 DEF CanonicalString
    <2>2. optional \in Seq(All)
        <3>1. CASE e["Subject"] = Missing
            BY <3>1
        <3>2. CASE e["Subject"] # Missing
            <4>1. "Subject" \in All /\ e["Subject"] \in All
                OBVIOUS
            <4> HIDE DEF All
            <4> QED
                BY <3>2, <4>1
        <3> QED
            BY <3>1, <3>2
    <2>3. rest \in Seq(All)
        <3>1. e.Timestamp \in All /\ e.TopicArn \in All /\ e.Type \in All
            OBVIOUS
        <3> HIDE DEF All
        <3> QED
            BY <3>1
    <2>4. e.Message \in All /\ e.MessageId \in All
        OBVIOUS
    <2> HIDE DEF All, optional, rest
    <2> QED
        BY <2>1, <2>2, <2>3, <2>4, SecondOfThree
<1>2. CASE e.Type # "Notification"
    BY <1>2 DEF CanonicalString
<1> QED
    BY <1>1, <1>2

\* A signature says nothing of itself: what is signed does not depend on it.
LEMMA CanonicalIgnoresSignature ==
    ASSUME NEW e, NEW f, \A k \in EnvelopeFields \ {"Signature"} : e[k] = f[k]
    PROVE  CanonicalString(e) = CanonicalString(f)
<1>1. /\ e.Type = f.Type /\ e.Message = f.Message /\ e.MessageId = f.MessageId /\ e["Subject"] = f["Subject"]
      /\ e.Timestamp = f.Timestamp /\ e.TopicArn = f.TopicArn /\ e.SubscribeURL = f.SubscribeURL /\ e.Token = f.Token
    BY DEF EnvelopeFields
<1> QED
    BY <1>1, Zenon DEF CanonicalString

\* What SNS publishes is signed.
LEMMA EnvelopeIsSigned ==
    ASSUME IntakeTypeOK, NEW n, NEW type, NEW message, NEW stamp \in Nat
    PROVE  LET e == Envelope(n, type, message, stamp)
           IN  Signed(e, n) /\ e.Signature.key = signing /\ e.Timestamp = stamp /\ e.Type = type /\ e.Message = message
<1> DEFINE unsigned == [Type |-> type, MessageId |-> n, TopicArn |-> Topic, Message |-> message, Subject |-> Missing,
                    Timestamp |-> stamp, SignatureVersion |-> "2", SigningCertURL |-> CertUrl(signing), Token |-> "token",
                    SubscribeURL |-> [CertUrl(signing) EXCEPT !.path = "/",
                      !.params = [Action |-> "ConfirmSubscription", TopicArn |-> Topic, Token |-> "token"]],
                    Signature |-> Missing]
           signature == [key |-> signing, over |-> CanonicalString(unsigned)]
           e == Envelope(n, type, message, stamp)
<1>1. e = [unsigned EXCEPT !.Signature = signature]
    BY DEF Envelope
<1>2. DOMAIN unsigned = EnvelopeFields
    BY DEF EnvelopeFields
<1>3. /\ DOMAIN e = EnvelopeFields /\ e["Signature"] = signature
      /\ \A f \in EnvelopeFields \ {"Signature"} : e[f] = unsigned[f]
    <2> HIDE DEF unsigned, signature, e
    <2> QED
        BY <1>1, <1>2 DEF EnvelopeFields
<1>4. CanonicalString(e) = CanonicalString(unsigned)
    <2> HIDE DEF unsigned, signature, e
    <2> QED
        BY <1>3, CanonicalIgnoresSignature
<1>5. /\ e.MessageId = n /\ e.TopicArn = Topic /\ e.SignatureVersion = "2" /\ e.Timestamp = stamp
      /\ e.SigningCertURL = CertUrl(signing) /\ e.Type = type /\ e.Message = message
    <2>1. /\ unsigned.MessageId = n /\ unsigned.TopicArn = Topic /\ unsigned.SignatureVersion = "2"
          /\ unsigned.Timestamp = stamp /\ unsigned.SigningCertURL = CertUrl(signing)
          /\ unsigned.Type = type /\ unsigned.Message = message
        OBVIOUS
    <2> HIDE DEF unsigned, signature, e
    <2> QED
        BY <1>3, <2>1 DEF EnvelopeFields
<1>6. e.Signature = [key |-> signing, over |-> CanonicalString(e)] /\ e.Signature.key = signing
    <2>1. signature = [key |-> signing, over |-> CanonicalString(unsigned)] /\ signature.key = signing
        OBVIOUS
    <2> HIDE DEF unsigned, signature, e
    <2> QED
        BY <1>3, <1>4, <2>1
<1> HIDE DEF e, unsigned, signature
<1> QED
    BY <1>3, <1>5, <1>6 DEF Signed, IntakeTypeOK, e

-----------------------------------------------------------------------------
\* What the verifier refuses of what Amazon signed is unreadable or too old.
LEMMA OnlyTheUnreadableIsMalformed ==
    ASSUME MarksAreNoRecords, NEW n \in Notices, NEW e, Signed(e, n), e.Type = "Notification",
           ParseSnsEnvelope(e, e.Type) # "ok"
    PROVE  ~Readable(e)
<1>1. e # Odd
    BY DEF MarksAreNoRecords, Signed, EnvelopeFields
<1>2. e.Signature # Odd
    <2>1. "key" \in DOMAIN e.Signature
        BY DEF Signed
    <2> QED
        BY <2>1 DEF MarksAreNoRecords
<1>3. e.MessageId # Odd /\ e.TopicArn # Odd
    BY IntakeMarks DEF Signed, Topic
<1>4. e["Message"] = Odd
    BY <1>1, <1>2, <1>3 DEF ParseSnsEnvelope
<1> QED
    BY <1>4 DEF Readable, ParseSesEvent, Malformed

LEMMA OnlyTheStaleIsRefused ==
    ASSUME MarksAreNoRecords, IntakeTypeOK, NEW n \in Notices, NEW e, Signed(e, n),
           e.Timestamp <= instant + MaxSkew, Refuses(e, Topic, instant) # "ok"
    PROVE  instant > e.Timestamp + MaxAge
<1> DEFINE url == e.SigningCertURL
<1>1. TopicRegion(Topic) = "r1" /\ "r1" # Missing
    BY IntakeMarks DEF TopicRegion, Topic
<1>2. url = CertUrl(e.Signature.key)
    BY DEF Signed
<1>3. /\ url.origin = "https://sns" /\ url.region = "r1" /\ url.plain /\ url.path = "pem" /\ url.params = NoParams
      /\ "origin" \in DOMAIN url
    BY <1>2 DEF CertUrl
<1>4. url # Odd
    BY <1>3 DEF MarksAreNoRecords
<1>5. IsAllowedSigningCertUrl(e.SigningCertURL, Topic)
    BY <1>1, <1>3, <1>4 DEF IsAllowedSigningCertUrl, IsSnsOrigin
<1>6. e.Timestamp # Odd /\ e.TopicArn = Topic /\ e.SignatureVersion = "2"
    BY IntakeMarks DEF Signed
<1> QED
    <2>1. e.Timestamp \in Nat /\ instant \in Nat
        BY DEF Signed, IntakeTypeOK
    <2> HIDE DEF url
    <2> QED
        BY <1>1, <1>5, <1>6, <2>1, IntakeNumbers DEF Refuses

\* A request that is not what SNS published gets no further than its certificate.
LEMMA StrayIsForged ==
    ASSUME IntakeTypeOK, NEW n \in Notices, NEW p, Signed(p, n), NEW e \in Strays(p), NEW header,
           ParseSnsEnvelope(e, header) = "ok", Refuses(e, Topic, instant) = "ok"
    PROVE  /\ e.Signature.over # CanonicalString(e)
           /\ e.SigningCertURL = p.SigningCertURL
<1>1. DOMAIN p = EnvelopeFields
    BY DEF Signed
<1>2. e["MessageId"] # Odd
    BY DEF ParseSnsEnvelope
<1>3. e.TopicArn = Topic
    BY DEF Refuses
<1>4. e.SignatureVersion = "2"
    BY DEF Refuses
<1>5. e.Timestamp # Odd
    BY DEF Refuses
<1>6. e.SigningCertURL.plain
    <2>1. IsAllowedSigningCertUrl(e.SigningCertURL, Topic)
        BY DEF Refuses
    <2> QED
        BY <2>1 DEF IsAllowedSigningCertUrl, IsSnsOrigin
<1>7. e # [p EXCEPT !.MessageId = Odd]
    BY <1>1, <1>2 DEF EnvelopeFields
<1>8. e # [p EXCEPT !.TopicArn = "topic in r2"]
    BY <1>1, <1>3 DEF EnvelopeFields, Topic
<1>9. e # [p EXCEPT !.SignatureVersion = "1"]
    BY <1>1, <1>4 DEF EnvelopeFields
<1>10. e # [p EXCEPT !.Timestamp = Odd]
    BY <1>1, <1>5 DEF EnvelopeFields
<1>11. e # [p EXCEPT !.SigningCertURL.plain = FALSE]
    <2>1. p.SigningCertURL = CertUrl(p.Signature.key)
        BY DEF Signed
    <2>2. "plain" \in DOMAIN p.SigningCertURL
        BY <2>1 DEF CertUrl
    <2> QED
        BY <1>1, <1>6, <2>2 DEF EnvelopeFields
<1>12. e = [p EXCEPT !.MessageId = "stray"]
    BY <1>7, <1>8, <1>9, <1>10, <1>11 DEF Strays
<1>13. /\ e.MessageId = "stray" /\ e.Signature = p.Signature /\ e.SigningCertURL = p.SigningCertURL
    BY <1>1, <1>12 DEF EnvelopeFields
<1>14. CanonicalString(e)[2] = "stray" /\ CanonicalString(p)[2] = n
    BY <1>13, CanonicalNamesTheMessage DEF Signed
<1>15. p.Signature.over = CanonicalString(p) /\ n # "stray"
    <2> DEFINE body == CanonicalString(p)
               key  == p.Signature.key
    <2>1. p.Signature = [key |-> key, over |-> body]
        BY DEF Signed
    <2> HIDE DEF body, key
    <2>2. p.Signature.over = body
        BY <2>1
    <2> QED
        BY <2>2, IntakeMarks DEF body
<1> QED
    BY <1>13, <1>14, <1>15

-----------------------------------------------------------------------------
\* The part of the invariant that speaks of requests and of what SNS was told.
ServingIsTrue ==
    /\ DOMAIN fate = Notices /\ DOMAIN requests = Handlers
    /\ RequestsAreServedWell /\ FateIsTrue

\* What may change under a request that waits: time passes, notices are
\* published, and the database holds more.
OthersGoOn ==
    /\ instant' \in Nat /\ instant <= instant'
    /\ \A n \in Notices : published[n] # Missing => published'[n] = published[n]
    /\ recorded \subseteq recorded'

LEMMA LateStaysLate ==
    ASSUME IntakeTypeOK, PublishedIsSigned, OthersGoOn
    PROVE  \A n \in Notices : published[n] # Missing /\ Late(published[n], instant) => Late(published'[n], instant')
<1> SUFFICES ASSUME NEW n \in Notices, published[n] # Missing, Late(published[n], instant)
             PROVE  Late(published'[n], instant')
    OBVIOUS
<1>1. published'[n] = published[n]
    BY DEF OthersGoOn
<1>2. published[n].Timestamp \in Nat /\ published[n].Signature.key \in Nat
    BY DEF PublishedIsSigned, Signed
<1> QED
    BY <1>1, <1>2, IntakeNumbers DEF Late, IntakeTypeOK, OthersGoOn

LEMMA ServedStaysServed ==
    ASSUME IntakeTypeOK, OthersGoOn
    PROVE  \A q : ServedWell(q, instant, published, recorded) => ServedWell(q, instant', published', recorded')
<1> SUFFICES ASSUME NEW q, ServedWell(q, instant, published, recorded)
             PROVE  ServedWell(q, instant', published', recorded')
    OBVIOUS
<1>1. Genuine(q, published) => Genuine(q, published')
    BY DEF Genuine, OthersGoOn
<1>2. q.now <= instant'
    BY DEF ServedWell, IntakeTypeOK, OthersGoOn
<1>3. q.at = "recorded" => q.envelope.MessageId \in recorded'
    BY DEF ServedWell, OthersGoOn
<1> QED
    BY <1>1, <1>2, <1>3 DEF ServedWell

LEMMA TruthStaysTrue ==
    ASSUME IntakeTypeOK, PublishedIsSigned, OthersGoOn, FateIsTrue, UNCHANGED published
    PROVE  \A n \in Notices : fate'[n] = fate[n] => ToldTruly(n, fate'[n], published'[n], recorded', instant')
<1> SUFFICES ASSUME NEW n \in Notices, fate'[n] = fate[n]
             PROVE  ToldTruly(n, fate'[n], published'[n], recorded', instant')
    OBVIOUS
<1>1. ToldTruly(n, fate[n], published[n], recorded, instant)
    BY DEF FateIsTrue
<1>2. published[n] # Missing /\ Late(published[n], instant) => Late(published[n], instant')
    BY LateStaysLate
<1> QED
    BY <1>1, <1>2 DEF ToldTruly, OthersGoOn

LEMMA RequestsChange ==
    ASSUME IntakeTypeOK, RequestsAreServedWell, OthersGoOn, NEW r \in Handlers, NEW q,
           q = Free \/ ServedWell(q, instant', published', recorded'),
           \A s \in Handlers : requests'[s] = IF s = r THEN q ELSE requests[s]
    PROVE  RequestsAreServedWell'
<1> SUFFICES ASSUME NEW s \in Handlers
             PROVE  requests'[s] = Free \/ ServedWell(requests'[s], instant', published', recorded')
    BY DEF RequestsAreServedWell, Free
<1>1. requests[s] = Free \/ ServedWell(requests[s], instant', published', recorded')
    BY ServedStaysServed DEF RequestsAreServedWell
<1> QED
    BY <1>1

\* A request that is answered: what SNS heard of it, if it heard, was true.
LEMMA AnswerIsTrue ==
    ASSUME IntakeInv, OthersGoOn, UNCHANGED published, NEW r \in Handlers, NEW q, NEW status, Answer(r, q, status),
           q.heard => \E n \in Notices :
               /\ published[n] # Missing /\ q.envelope = published[n]
               /\ published[n].Type = "Notification" =>
                    /\ status = 200 => n \in recorded
                    /\ status \in 400..499 /\ Readable(published[n]) => Late(published[n], instant)
    PROVE  ServingIsTrue'
<1> USE DEF IntakeInv
<1>1. DOMAIN requests' = Handlers /\ \A s \in Handlers : requests'[s] = IF s = r THEN Free ELSE requests[s]
    BY DEF Answer, IntakeTypeOK
<1>2. RequestsAreServedWell'
    BY <1>1, RequestsChange
<1>3. DOMAIN fate' = Notices
    BY DEF Answer, IntakeTypeOK
<1>4. FateIsTrue'
    <2> SUFFICES ASSUME NEW m \in Notices
                 PROVE  ToldTruly(m, fate'[m], published'[m], recorded', instant')
        BY DEF FateIsTrue
    <2>1. CASE fate'[m] = fate[m]
        BY <2>1, TruthStaysTrue
    <2>2. CASE fate'[m] # fate[m]
        <3>1. q.heard
            BY <2>2 DEF Answer
        <3>2. PICK n \in Notices :
                /\ published[n] # Missing /\ q.envelope = published[n]
                /\ published[n].Type = "Notification" =>
                    /\ status = 200 => n \in recorded
                    /\ status \in 400..499 /\ Readable(published[n]) => Late(published[n], instant)
            BY <3>1
        <3>3. q.envelope.MessageId = n
            BY <3>2 DEF PublishedIsSigned, Signed
        <3>4. m = n /\ fate'[n] = CASE status = 200 -> "taken" [] status \in 400..499 -> "refused" [] OTHER -> "retrying"
            BY <2>2, <3>1, <3>3 DEF Answer, IntakeTypeOK
        <3>5. fate'[n] = "taken" => status = 200
            BY <3>4
        <3>6. fate'[n] = "refused" => status \in 400..499
            BY <3>4
        <3>7. Late(published[n], instant) => Late(published[n], instant')
            BY <3>2, LateStaysLate
        <3> QED
            BY <3>2, <3>4, <3>5, <3>6, <3>7 DEF OthersGoOn, ToldTruly
    <2> QED
        BY <2>1, <2>2
<1> QED
    BY <1>1, <1>2, <1>3, <1>4 DEF ServingIsTrue

\* A request that waits for the next answer.
LEMMA AwaitIsServed ==
    ASSUME IntakeInv, OthersGoOn, UNCHANGED published, NEW r \in Handlers, NEW q, NEW place, Awaits(r, q, place),
           ServedWell([q EXCEPT !.at = place], instant', published', recorded')
    PROVE  ServingIsTrue'
<1> USE DEF IntakeInv
<1> DEFINE waiting == [q EXCEPT !.at = place]
<1>1. DOMAIN requests' = Handlers /\ \A s \in Handlers : requests'[s] = IF s = r THEN waiting ELSE requests[s]
    BY DEF Awaits, IntakeTypeOK
<1>2. ServedWell(waiting, instant', published', recorded')
    OBVIOUS
<1> HIDE DEF waiting
<1>3. RequestsAreServedWell'
    BY <1>1, <1>2, RequestsChange
<1>4. fate' = fate
    BY DEF Awaits
<1>5. FateIsTrue'
    BY <1>4, TruthStaysTrue DEF FateIsTrue
<1> QED
    BY <1>1, <1>3, <1>4, <1>5 DEF ServingIsTrue, IntakeTypeOK

\* The certificate of its URL is in hand: what passes is recorded, and what SNS
\* published and hears refused is late or unreadable.
LEMMA CertifiedIsServed ==
    ASSUME IntakeInv, OthersGoOn, UNCHANGED <<instant, published, recorded>>, NEW r \in Handlers, NEW q, NEW pem,
           Certified(r, q, pem), pem = q.envelope.SigningCertURL.pem,
           q.at = "fetching", ServedWell(q, instant, published, recorded)
    PROVE  ServingIsTrue'
<1> USE DEF IntakeInv
<1> DEFINE e == q.envelope
<1>1. CASE Forged(q)
    <2>1. ~SignatureVerifies(e, pem, q.now)
        <3>1. e.Signature # [key |-> pem, over |-> CanonicalString(e)]
            BY <1>1 DEF Forged
        <3> QED
            BY <3>1 DEF SignatureVerifies
    <2>2. Answer(r, q, 400) /\ ~q.heard
        BY <1>1, <2>1 DEF Certified, Forged
    <2> QED
        BY <2>2, AnswerIsTrue
<1>2. CASE ~Forged(q)
    <2>1. PICK n \in Notices : published[n] # Missing /\ e = published[n]
        BY <1>2 DEF ServedWell, Genuine
    <2>2. Signed(e, n) /\ e.Signature.key <= q.now /\ q.now \in Nat /\ q.now <= instant
        BY <1>2, <2>1 DEF ServedWell, PublishedIsSigned
    <2>3. pem = e.Signature.key
        BY <2>2 DEF Signed, CertUrl
    <2> DEFINE Status(status) ==
            e.Type = "Notification" => /\ status = 200 => n \in recorded
                                       /\ status \in 400..499 /\ Readable(e) => Late(e, instant)
    <2>4. ASSUME NEW status, Answer(r, q, status), Status(status)
          PROVE  ServingIsTrue'
        BY <2>1, <2>4, AnswerIsTrue
    <2>5. ASSUME NEW place, Awaits(r, q, place), place \in {"confirming", "recording"},
                 place = "confirming" => e.Type = "SubscriptionConfirmation",
                 place = "recording" => Readable(e)
          PROVE  ServingIsTrue'
        <3> DEFINE waiting == [q EXCEPT !.at = place]
        <3>1. /\ DOMAIN waiting = DOMAIN q /\ waiting.at = place
              /\ waiting.heard = q.heard /\ waiting.envelope = e /\ waiting.now = q.now
            BY DEF ServedWell
        <3> HIDE DEF waiting
        <3>2. ServedWell(waiting, instant, published, recorded)
            BY <1>2, <2>5, <3>1 DEF ServedWell, Genuine
        <3>3. ServedWell(waiting, instant', published', recorded')
            BY <3>2
        <3> QED
            BY <2>5, <3>3, AwaitIsServed DEF waiting
    <2>6. CASE ~SignatureVerifies(e, pem, q.now)
        <3>1. Answer(r, q, 400)
            BY <2>6 DEF Certified
        <3>2. e.Signature = [key |-> pem, over |-> CanonicalString(e)]
            BY <2>2, <2>3 DEF Signed
        <3>3. ~(pem <= q.now /\ q.now <= pem + CertLife)
            BY <2>6, <3>2 DEF SignatureVerifies
        <3>4. pem \in Nat /\ CertLife \in Nat /\ instant \in Nat
            BY <2>2, <2>3, IntakeNumbers DEF Signed, IntakeTypeOK
        <3>5. instant > e.Signature.key + CertLife
            BY <2>2, <2>3, <3>3, <3>4
        <3>6. Status(400)
            BY <3>5 DEF Late
        <3> QED
            BY <2>4, <3>1, <3>6
    <2>7. CASE SignatureVerifies(e, pem, q.now)
        <3>1. CASE e.Type = "SubscriptionConfirmation"
            <4>1. Awaits(r, q, "confirming") \/ Answer(r, q, 400)
                BY <2>7, <3>1 DEF Certified
            <4>2. Status(400)
                BY <3>1
            <4> QED
                BY <2>4, <2>5, <3>1, <4>1, <4>2
        <3>2. CASE e.Type = "UnsubscribeConfirmation"
            <4>1. Answer(r, q, 200)
                BY <2>7, <3>2 DEF Certified
            <4>2. Status(200)
                BY <3>2
            <4> QED
                BY <2>4, <4>1, <4>2
        <3>3. CASE e.Type # "SubscriptionConfirmation" /\ e.Type # "UnsubscribeConfirmation"
            <4>1. CASE Readable(e)
                <5>1. Awaits(r, q, "recording")
                    BY <2>7, <3>3, <4>1 DEF Certified, Readable
                <5> QED
                    BY <2>5, <4>1, <5>1
            <4>2. CASE ~Readable(e)
                <5>1. Answer(r, q, 400)
                    BY <2>7, <3>3, <4>2 DEF Certified, Readable
                <5>2. Status(400)
                    BY <4>2
                <5> QED
                    BY <2>4, <5>1, <5>2
            <4> QED
                BY <4>1, <4>2
        <3> QED
            BY <3>1, <3>2, <3>3
    <2> QED
        BY <2>6, <2>7
<1> QED
    BY <1>1, <1>2

\* The cache has one entry for a URL, and it holds that URL's certificate.
LEMMA CacheAnswersItsUrl ==
    ASSUME IntakeTypeOK, CertificatesAreTheirOwn, NEW url, Usable(url) # {}
    PROVE  certificates[Min(Usable(url))].pem = url.pem
<1>1. PICK k \in DOMAIN certificates : certificates[k].url = url /\ certificates[k].expiresAt > instant
    BY DEF Usable
<1>2. Usable(url) = {k}
    BY <1>1 DEF Usable, CertificatesAreTheirOwn
<1>3. k \in Nat
    BY <1>1 DEF IntakeTypeOK
<1>4. Min({k}) = k
    BY <1>3 DEF Min
<1> QED
    BY <1>1, <1>2, <1>4 DEF CertificatesAreTheirOwn

\* A request is read: an envelope Amazon signed, or one whose answer nobody hears.
LEMMA ReceiveIsServed ==
    ASSUME IntakeInv, OthersGoOn, UNCHANGED <<instant, published, recorded>>, MarksAreNoRecords,
           NEW r \in Handlers, NEW n \in Notices, published[n] # Missing,
           NEW e, NEW header, NEW heard \in BOOLEAN, Receive(r, e, header, heard),
           \/ e = published[n] /\ (heard => header = e.Type)
           \/ e \in Strays(published[n]) /\ ~heard
    PROVE  ServingIsTrue'
<1> USE DEF IntakeInv
<1> DEFINE p == published[n]
           q == [at |-> "fetching", heard |-> heard, envelope |-> e, now |-> instant]
           hits == Usable(e.SigningCertURL)
           passes == ParseSnsEnvelope(e, header) = "ok" /\ Refuses(e, Topic, instant) = "ok"
<1>1. Signed(p, n) /\ p.Signature.key <= instant /\ p.Timestamp <= instant + MaxSkew
    BY DEF PublishedIsSigned
<1>2. CASE ~passes
    <2>1. Answer(r, q, 400)
        BY <1>2 DEF Receive
    <2>2. ASSUME heard, p.Type = "Notification", Readable(p)
          PROVE  Late(p, instant)
        <3>1. e = p /\ header = p.Type
            BY <2>2
        <3>2. ParseSnsEnvelope(p, p.Type) = "ok"
            BY <1>1, <2>2, OnlyTheUnreadableIsMalformed
        <3>3. Refuses(p, Topic, instant) # "ok"
            BY <1>2, <3>1, <3>2
        <3>4. instant > p.Timestamp + MaxAge
            BY <1>1, <3>3, OnlyTheStaleIsRefused
        <3> QED
            BY <3>4 DEF Late
    <2>3. q.heard = heard /\ q.envelope = e
        OBVIOUS
    <2>4. heard => e = p
        OBVIOUS
    <2> HIDE DEF q, p
    <2>5. q.heard => /\ published[n] # Missing /\ q.envelope = published[n]
                     /\ published[n].Type = "Notification" =>
                          /\ 400 = 200 => n \in recorded
                          /\ 400 \in 400..499 /\ Readable(published[n]) => Late(published[n], instant)
        BY <2>2, <2>3, <2>4 DEF p
    <2> QED
        BY <2>1, <2>5, AnswerIsTrue
<1>3. CASE passes
    <2>1. /\ DOMAIN q = {"at", "heard", "envelope", "now"} /\ q.at = "fetching"
          /\ q.heard = heard /\ q.envelope = e /\ q.now = instant
        OBVIOUS
    <2>2. e.SigningCertURL \in Urls /\ (Forged(q) \/ (Genuine(q, published) /\ q.envelope.Signature.key <= q.now))
        <3>1. CASE e = p
            <4>1. e.SigningCertURL \in Urls
                BY <1>1, <3>1 DEF Signed, Urls
            <4>2. Genuine(q, published)
                BY <3>1 DEF Genuine
            <4> QED
                BY <1>1, <3>1, <4>1, <4>2
        <3>2. CASE e \in Strays(p) /\ ~heard
            <4>1. e.Signature.over # CanonicalString(e) /\ e.SigningCertURL = p.SigningCertURL
                BY <1>1, <1>3, <3>2, StrayIsForged
            <4>2. e.SigningCertURL \in Urls
                BY <1>1, <4>1 DEF Signed, Urls
            <4>3. Forged(q)
                BY <3>2, <4>1 DEF Forged
            <4> QED
                BY <4>2, <4>3
        <3> QED
            BY <3>1, <3>2
    <2>3. IF hits = {} THEN Awaits(r, q, "fetching") ELSE Certified(r, q, certificates[Min(hits)].pem)
        BY <1>3 DEF Receive
    <2> HIDE DEF q
    <2>4. ServedWell(q, instant, published, recorded)
        BY <2>1, <2>2 DEF ServedWell, IntakeTypeOK
    <2>5. CASE hits = {}
        <3> DEFINE waiting == [q EXCEPT !.at = "fetching"]
        <3>1. /\ DOMAIN waiting = DOMAIN q /\ waiting.at = q.at
              /\ waiting.heard = q.heard /\ waiting.envelope = q.envelope /\ waiting.now = q.now
            BY <2>1
        <3> HIDE DEF waiting
        <3>2. ServedWell(waiting, instant, published, recorded)
            BY <2>4, <3>1 DEF ServedWell, Genuine, Forged
        <3>3. ServedWell(waiting, instant', published', recorded')
            BY <3>2
        <3> QED
            BY <2>3, <2>5, <3>3, AwaitIsServed DEF waiting
    <2>6. CASE hits # {}
        <3>1. certificates[Min(hits)].pem = q.envelope.SigningCertURL.pem
            BY <2>1, <2>6, CacheAnswersItsUrl
        <3> QED
            BY <2>1, <2>3, <2>4, <2>6, <3>1, CertifiedIsServed
    <2> QED
        BY <2>5, <2>6
<1> QED
    BY <1>2, <1>3

-----------------------------------------------------------------------------
\* A step of a request: what it must keep beside the requests and SNS.
LEMMA RequestStep ==
    ASSUME IntakeInv, UNCHANGED <<instant, signing, published>>, ServingIsTrue',
           RecordedIsReadable', certificates' \in Seq(Entries), CertificatesAreTheirOwn'
    PROVE  IntakeInv'
<1>1. IntakeTypeOK'
    BY DEF IntakeInv, IntakeTypeOK, ServingIsTrue
<1>2. PublishedIsSigned'
    BY DEF IntakeInv, PublishedIsSigned
<1> QED
    BY <1>1, <1>2 DEF IntakeInv, ServingIsTrue

LEMMA QuietRequestStep ==
    ASSUME IntakeInv, UNCHANGED <<instant, signing, published, certificates, recorded>>, ServingIsTrue'
    PROVE  IntakeInv'
<1>1. RecordedIsReadable' /\ CertificatesAreTheirOwn' /\ certificates' \in Seq(Entries)
    BY DEF IntakeInv, IntakeTypeOK, RecordedIsReadable, CertificatesAreTheirOwn
<1> QED
    BY <1>1, RequestStep

\* A request that is not free is served, and what it heard concerns a notice.
LEMMA HeardIsGenuine ==
    ASSUME IntakeInv, NEW r \in Handlers, requests[r].at # "free"
    PROVE  /\ ServedWell(requests[r], instant, published, recorded)
           /\ requests[r].heard \/ requests[r].at # "fetching" => Genuine(requests[r], published)
<1>1. requests[r] # Free
    BY DEF Free
<1> QED
    BY <1>1 DEF IntakeInv, RequestsAreServedWell, ServedWell, Forged

LEMMA DeliverKeeps ==
    ASSUME IntakeInv, MarksAreNoRecords, NEW r \in Handlers, NEW n \in Notices, Deliver(r, n)
    PROVE  IntakeInv'
<1>1. published[n] # Missing
    BY DEF Deliver, IntakeInv, FateIsTrue, ToldTruly
<1>2. OthersGoOn /\ UNCHANGED <<instant, signing, published, certificates, recorded>>
    BY DEF Deliver, Receive, OthersGoOn, IntakeInv, IntakeTypeOK
<1>3. ServingIsTrue'
    BY <1>1, <1>2, ReceiveIsServed DEF Deliver
<1> QED
    BY <1>2, <1>3, QuietRequestStep

LEMMA StrayKeeps ==
    ASSUME IntakeInv, MarksAreNoRecords, NEW r \in Handlers, NEW n \in Notices, Stray(r, n)
    PROVE  IntakeInv'
<1>1. published[n] # Missing
    BY DEF Stray
<1>2. OthersGoOn /\ UNCHANGED <<instant, signing, published, certificates, recorded>>
    <2>1. UNCHANGED <<instant, signing, published, certificates, recorded>>
        BY DEF Stray, Receive
    <2> QED
        BY <2>1 DEF OthersGoOn, IntakeInv, IntakeTypeOK
<1>3. CASE Receive(r, published[n], "other", FALSE)
    <2>1. ServingIsTrue'
        BY <1>1, <1>2, <1>3, ReceiveIsServed
    <2> QED
        BY <1>2, <2>1, QuietRequestStep
<1>4. ASSUME NEW e \in Strays(published[n]), Receive(r, e, e.Type, FALSE)
      PROVE  IntakeInv'
    <2>1. ServingIsTrue'
        BY <1>1, <1>2, <1>4, ReceiveIsServed
    <2> QED
        BY <1>2, <2>1, QuietRequestStep
<1> QED
    BY <1>3, <1>4 DEF Stray

LEMMA FetchFailsKeeps ==
    ASSUME IntakeInv, NEW r \in Handlers, FetchFails(r)
    PROVE  IntakeInv'
<1>1. OthersGoOn /\ UNCHANGED <<instant, signing, published, certificates, recorded>>
    BY DEF FetchFails, OthersGoOn, IntakeInv, IntakeTypeOK
<1>2. Answer(r, requests[r], 503) /\ requests[r].at # "free"
    BY DEF FetchFails
<1>3. requests[r].heard => Genuine(requests[r], published)
    BY <1>2, HeardIsGenuine
<1>4. ServingIsTrue'
    BY <1>1, <1>2, <1>3, AnswerIsTrue DEF Genuine
<1> QED
    BY <1>1, <1>4, QuietRequestStep

LEMMA ConfirmKeeps ==
    ASSUME IntakeInv, NEW r \in Handlers, NEW accepted \in BOOLEAN, ConfirmSnsSubscription(r, accepted)
    PROVE  IntakeInv'
<1> DEFINE status == IF accepted THEN 200 ELSE 503
<1>1. OthersGoOn /\ UNCHANGED <<instant, signing, published, certificates, recorded>>
    BY DEF ConfirmSnsSubscription, OthersGoOn, IntakeInv, IntakeTypeOK
<1>2. Answer(r, requests[r], status) /\ requests[r].at = "confirming"
    BY DEF ConfirmSnsSubscription
<1>3. Genuine(requests[r], published) /\ requests[r].envelope.Type = "SubscriptionConfirmation"
    BY <1>2, HeardIsGenuine DEF ServedWell
<1> HIDE DEF status
<1>4. ServingIsTrue'
    BY <1>1, <1>2, <1>3, AnswerIsTrue DEF Genuine
<1> QED
    BY <1>1, <1>4, QuietRequestStep

LEMMA ReplyKeeps ==
    ASSUME IntakeInv, NEW r \in Handlers, NEW lost \in BOOLEAN, Reply(r, lost)
    PROVE  IntakeInv'
<1> DEFINE status == IF lost THEN 500 ELSE 200
<1>1. OthersGoOn /\ UNCHANGED <<instant, signing, published, certificates, recorded>>
    BY DEF Reply, OthersGoOn, IntakeInv, IntakeTypeOK
<1>2. Answer(r, requests[r], status) /\ requests[r].at \in {"recorded", "recording"}
    BY DEF Reply
<1>3. PICK n \in Notices : published[n] # Missing /\ requests[r].envelope = published[n]
    BY <1>2, HeardIsGenuine DEF Genuine
<1>4. requests[r].at = "recorded" => n \in recorded
    <2>1. ServedWell(requests[r], instant, published, recorded)
        BY <1>2, HeardIsGenuine
    <2>2. requests[r].envelope.MessageId = n
        BY <1>3 DEF IntakeInv, PublishedIsSigned, Signed
    <2> QED
        BY <2>1, <2>2 DEF ServedWell
<1>5. status = 200 => n \in recorded
    BY <1>4 DEF Reply
<1>6. ~(status \in 400..499)
    OBVIOUS
<1> HIDE DEF status
<1>7. ServingIsTrue'
    BY <1>1, <1>2, <1>3, <1>5, <1>6, AnswerIsTrue
<1> QED
    BY <1>1, <1>7, QuietRequestStep

LEMMA CommitKeeps ==
    ASSUME IntakeInv, NEW r \in Handlers, Commit(r)
    PROVE  IntakeInv'
<1> DEFINE q == requests[r]
           waiting == [q EXCEPT !.at = "recorded"]
<1>1. OthersGoOn /\ UNCHANGED <<instant, signing, published, certificates>>
    BY DEF Commit, OthersGoOn, IntakeInv, IntakeTypeOK
<1>2. q.at = "recording" /\ Awaits(r, q, "recorded") /\ recorded' = recorded \cup {q.envelope.MessageId}
    BY DEF Commit
<1>3. ServedWell(q, instant, published, recorded) /\ Genuine(q, published) /\ ~Forged(q)
    BY <1>2, HeardIsGenuine DEF Forged
<1>4. PICK n \in Notices : published[n] # Missing /\ q.envelope = published[n]
    BY <1>3 DEF Genuine
<1>5. q.envelope.MessageId = n /\ Readable(published[n])
    BY <1>2, <1>3, <1>4 DEF IntakeInv, PublishedIsSigned, Signed, ServedWell
<1>6. ServedWell(waiting, instant', published', recorded')
    <2>1. /\ DOMAIN waiting = DOMAIN q /\ waiting.at = "recorded"
          /\ waiting.heard = q.heard /\ waiting.envelope = q.envelope /\ waiting.now = q.now
        BY <1>3 DEF ServedWell
    <2> HIDE DEF waiting, q
    <2>2. ServedWell(waiting, instant, published, recorded')
        BY <1>2, <1>3, <1>4, <1>5, <2>1 DEF ServedWell, Genuine
    <2> QED
        BY <1>1, <2>2
<1> HIDE DEF q
<1>7. ServingIsTrue'
    BY <1>1, <1>2, <1>6, AwaitIsServed
<1>8. RecordedIsReadable'
    BY <1>1, <1>2, <1>4, <1>5 DEF IntakeInv, RecordedIsReadable
<1>9. CertificatesAreTheirOwn' /\ certificates' \in Seq(Entries)
    BY <1>1 DEF IntakeInv, IntakeTypeOK, CertificatesAreTheirOwn
<1> QED
    BY <1>1, <1>7, <1>8, <1>9, RequestStep

LEMMA NoAnswerHeardKeeps ==
    ASSUME IntakeInv, NEW r \in Handlers, NEW dies \in BOOLEAN, NoAnswerHeard(r, dies)
    PROVE  IntakeInv'
<1> DEFINE q == requests[r]
           deaf == [q EXCEPT !.heard = FALSE]
           then == IF dies THEN Free ELSE deaf
<1>1. OthersGoOn /\ UNCHANGED <<instant, signing, published, certificates, recorded, fate>>
    BY DEF NoAnswerHeard, OthersGoOn, IntakeInv, IntakeTypeOK
<1>2. DOMAIN requests' = Handlers /\ \A s \in Handlers : requests'[s] = IF s = r THEN then ELSE requests[s]
    BY DEF NoAnswerHeard, IntakeInv, IntakeTypeOK
<1>3. ServedWell(q, instant, published, recorded)
    BY HeardIsGenuine DEF NoAnswerHeard
<1>4. ServedWell(deaf, instant, published, recorded)
    <2>1. /\ DOMAIN deaf = DOMAIN q /\ deaf.at = q.at
          /\ deaf.heard = FALSE /\ deaf.envelope = q.envelope /\ deaf.now = q.now
        BY <1>3 DEF ServedWell
    <2> HIDE DEF deaf, q
    <2> QED
        BY <1>3, <2>1 DEF ServedWell, Genuine, Forged
<1>5. then = Free \/ ServedWell(then, instant', published', recorded')
    BY <1>1, <1>4
<1> HIDE DEF then, deaf, q
<1>6. RequestsAreServedWell'
    BY <1>1, <1>2, <1>5, RequestsChange DEF IntakeInv
<1>7. FateIsTrue'
    BY <1>1 DEF IntakeInv, FateIsTrue
<1>8. ServingIsTrue'
    BY <1>1, <1>2, <1>6, <1>7 DEF ServingIsTrue, IntakeInv, IntakeTypeOK
<1> QED
    BY <1>1, <1>8, QuietRequestStep

-----------------------------------------------------------------------------
\* The cache after a fetch.
Own(cache) ==
    /\ Len(cache) <= CacheEntries
    /\ \A k \in DOMAIN cache : cache[k].pem = cache[k].url.pem
    /\ \A j, k \in DOMAIN cache : cache[j].url = cache[k].url => j = k

LEMMA TailIsOwn ==
    ASSUME NEW cache \in Seq(Entries), Own(cache), cache # <<>>
    PROVE  Tail(cache) \in Seq(Entries) /\ Own(Tail(cache)) /\ Len(Tail(cache)) = Len(cache) - 1
<1>1. /\ Tail(cache) \in Seq(Entries) /\ Len(cache) \in Nat /\ Len(Tail(cache)) = Len(cache) - 1
      /\ \A k \in 1..Len(Tail(cache)) : k + 1 \in 1..Len(cache) /\ Tail(cache)[k] = cache[k + 1]
    BY HeadTailProperties
<1>2. DOMAIN Tail(cache) = 1..Len(Tail(cache)) /\ DOMAIN cache = 1..Len(cache)
    BY <1>1
<1>3. Len(Tail(cache)) <= CacheEntries
    BY <1>1, IntakeNumbers DEF Own
<1>4. \A k \in DOMAIN Tail(cache) : Tail(cache)[k].pem = Tail(cache)[k].url.pem
    BY <1>1, <1>2 DEF Own
<1>5. ASSUME NEW j \in DOMAIN Tail(cache), NEW k \in DOMAIN Tail(cache), Tail(cache)[j].url = Tail(cache)[k].url
      PROVE  j = k
    <2>1. j + 1 = k + 1
        BY <1>1, <1>2, <1>5 DEF Own
    <2>2. j \in Nat /\ k \in Nat
        BY <1>2
    <2> QED
        BY <2>1, <2>2
<1> QED
    BY <1>1, <1>3, <1>4, <1>5 DEF Own

LEMMA RememberedIsOwn ==
    ASSUME IntakeTypeOK, CertificatesAreTheirOwn, NEW url \in Urls
    PROVE  Remembered(url, url.pem) \in Seq(Entries) /\ Own(Remembered(url, url.pem))
<1> DEFINE room == IF Len(certificates) >= CacheEntries THEN Tail(certificates) ELSE certificates
           entry == [url |-> url, pem |-> url.pem, expiresAt |-> instant + CacheTtl]
           changed == [k \in DOMAIN room |-> IF room[k].url = url THEN entry ELSE room[k]]
           added == Append(room, entry)
<1>1. room \in Seq(Entries) /\ Own(room) /\ Len(room) + 1 <= CacheEntries
    <2>1. certificates \in Seq(Entries) /\ Len(certificates) \in Nat /\ Own(certificates)
        BY DEF IntakeTypeOK, CertificatesAreTheirOwn, Own
    <2>2. CASE Len(certificates) >= CacheEntries
        <3>1. certificates # <<>>
            BY <2>1, <2>2, IntakeNumbers
        <3>2. Len(Tail(certificates)) + 1 <= CacheEntries
            BY <2>1, <3>1, TailIsOwn, IntakeNumbers DEF Own
        <3> QED
            BY <2>1, <2>2, <3>1, <3>2, TailIsOwn
    <2>3. CASE ~(Len(certificates) >= CacheEntries)
        BY <2>1, <2>3, IntakeNumbers
    <2> QED
        BY <2>2, <2>3
<1>2. entry \in Entries /\ entry.url = url /\ entry.pem = url.pem
    <2>1. url.pem \in Nat
        BY DEF Urls, CertUrl
    <2>2. instant + CacheTtl \in Nat
        BY IntakeNumbers DEF IntakeTypeOK
    <2> QED
        BY <2>1, <2>2 DEF Entries
<1> HIDE DEF room, entry
<1>3. Len(room) \in Nat /\ DOMAIN room = 1..Len(room) /\ \A k \in DOMAIN room : room[k] \in Entries
    BY <1>1
<1>4. CASE \E k \in DOMAIN room : room[k].url = url
    <2>1. changed \in Seq(Entries) /\ Len(changed) = Len(room) /\ DOMAIN changed = DOMAIN room
        BY <1>2, <1>3
    <2>2. \A k \in DOMAIN room : changed[k] = IF room[k].url = url THEN entry ELSE room[k]
        OBVIOUS
    <2>3. Remembered(url, url.pem) = changed
        BY <1>4 DEF Remembered, room, entry
    <2> HIDE DEF changed
    <2>4. \A k \in DOMAIN room : changed[k].url = room[k].url /\ changed[k].pem = changed[k].url.pem
        BY <1>1, <1>2, <2>2 DEF Own
    <2>5. Len(changed) <= CacheEntries
        BY <1>1, <2>1 DEF Own
    <2> QED
        BY <1>1, <2>1, <2>3, <2>4, <2>5 DEF Own
<1>5. CASE ~(\E k \in DOMAIN room : room[k].url = url)
    <2>1. added \in Seq(Entries) /\ Len(added) = Len(room) + 1 /\ DOMAIN added = 1..(Len(room) + 1)
        BY <1>1, <1>2, <1>3
    <2>2. \A k \in 1..(Len(room) + 1) : added[k] = IF k = Len(room) + 1 THEN entry ELSE room[k]
        BY <1>1, <1>2, <1>3
    <2>3. Remembered(url, url.pem) = added
        BY <1>5 DEF Remembered, room, entry
    <2> HIDE DEF added
    <2>4. \A k \in DOMAIN added : added[k].pem = added[k].url.pem
        BY <1>1, <1>2, <1>3, <2>1, <2>2 DEF Own
    <2>5. ASSUME NEW j \in DOMAIN added, NEW k \in DOMAIN added, added[j].url = added[k].url
          PROVE  j = k
        <3>1. CASE j = Len(room) + 1 \/ k = Len(room) + 1
            BY <1>2, <1>3, <1>5, <2>1, <2>2, <2>5, <3>1
        <3>2. CASE j # Len(room) + 1 /\ k # Len(room) + 1
            <4>1. j \in DOMAIN room /\ k \in DOMAIN room
                BY <1>3, <2>1, <3>2
            <4>2. added[j] = room[j] /\ added[k] = room[k]
                BY <2>1, <2>2, <3>2
            <4> QED
                BY <1>1, <2>5, <4>1, <4>2 DEF Own
        <3> QED
            BY <3>1, <3>2
    <2> QED
        BY <1>1, <2>1, <2>3, <2>4, <2>5 DEF Own
<1> QED
    BY <1>4, <1>5

LEMMA FetchKeeps ==
    ASSUME IntakeInv, NEW r \in Handlers, FetchSigningCertificate(r)
    PROVE  IntakeInv'
<1> DEFINE q == requests[r]
           url == q.envelope.SigningCertURL
<1>1. OthersGoOn /\ UNCHANGED <<instant, signing, published, recorded>>
    BY DEF FetchSigningCertificate, OthersGoOn, IntakeInv, IntakeTypeOK
<1>2. q.at = "fetching" /\ certificates' = Remembered(url, url.pem) /\ Certified(r, q, url.pem)
    BY DEF FetchSigningCertificate
<1>3. ServedWell(q, instant, published, recorded) /\ url \in Urls
    BY <1>2, HeardIsGenuine DEF ServedWell
<1>4. Remembered(url, url.pem) \in Seq(Entries) /\ Own(Remembered(url, url.pem))
    BY <1>3, RememberedIsOwn DEF IntakeInv
<1>5. CertificatesAreTheirOwn' /\ certificates' \in Seq(Entries)
    BY <1>2, <1>4 DEF CertificatesAreTheirOwn, Own
<1> HIDE DEF q
<1>6. ServingIsTrue'
    BY <1>1, <1>2, <1>3, CertifiedIsServed
<1>7. RecordedIsReadable'
    BY <1>1 DEF IntakeInv, RecordedIsReadable
<1> QED
    BY <1>1, <1>5, <1>6, <1>7, RequestStep

-----------------------------------------------------------------------------
LEMMA TimePassesKeeps ==
    ASSUME IntakeInv, TimePasses
    PROVE  IntakeInv'
<1> USE DEF IntakeInv
<1>1. /\ instant' = instant + 1 /\ signing' \in {signing, instant'}
      /\ UNCHANGED <<published, fate, certificates, requests, recorded>>
    BY DEF TimePasses
<1>2. OthersGoOn
    BY <1>1 DEF OthersGoOn, IntakeTypeOK
<1>3. IntakeTypeOK'
    BY <1>1 DEF IntakeTypeOK
<1>4. PublishedIsSigned'
    BY <1>1, IntakeNumbers DEF PublishedIsSigned, IntakeTypeOK, Signed
<1>5. RequestsAreServedWell'
    BY <1>1, <1>2, ServedStaysServed DEF RequestsAreServedWell
<1>6. FateIsTrue'
    BY <1>1, <1>2, TruthStaysTrue DEF FateIsTrue
<1>7. RecordedIsReadable' /\ CertificatesAreTheirOwn'
    BY <1>1 DEF RecordedIsReadable, CertificatesAreTheirOwn
<1> QED
    BY <1>3, <1>4, <1>5, <1>6, <1>7

LEMMA PublishKeeps ==
    ASSUME IntakeInv, MarksAreNoRecords, NEW n \in Notices, NEW type, NEW message,
           NEW stamp \in instant..(instant + MaxSkew), Publish(n, type, message, stamp)
    PROVE  IntakeInv'
<1> USE DEF IntakeInv
<1> DEFINE e == Envelope(n, type, message, stamp)
<1>1. /\ published[n] = Missing /\ UNCHANGED <<instant, signing, certificates, requests, recorded>>
      /\ DOMAIN published' = Notices /\ DOMAIN fate' = Notices
      /\ \A m \in Notices : published'[m] = IF m = n THEN e ELSE published[m]
      /\ \A m \in Notices : fate'[m] = IF m = n THEN "retrying" ELSE fate[m]
    BY DEF Publish, IntakeTypeOK
<1>2. stamp \in Nat /\ stamp <= instant + MaxSkew
    BY IntakeNumbers DEF IntakeTypeOK
<1>3. Signed(e, n) /\ e.Signature.key = signing /\ e.Timestamp = stamp
    BY <1>2, EnvelopeIsSigned
<1> HIDE DEF e
<1>4. e # Missing
    BY <1>3 DEF MarksAreNoRecords, Signed, EnvelopeFields
<1>5. OthersGoOn
    BY <1>1 DEF OthersGoOn, IntakeTypeOK
<1>6. IntakeTypeOK'
    BY <1>1 DEF IntakeTypeOK
<1>7. PublishedIsSigned'
    BY <1>1, <1>2, <1>3 DEF PublishedIsSigned, IntakeTypeOK
<1>8. RequestsAreServedWell'
    BY <1>1, <1>5, ServedStaysServed DEF RequestsAreServedWell
<1>9. RecordedIsReadable' /\ CertificatesAreTheirOwn'
    BY <1>1 DEF RecordedIsReadable, CertificatesAreTheirOwn
<1>10. FateIsTrue'
    <2> SUFFICES ASSUME NEW m \in Notices
                 PROVE  ToldTruly(m, fate'[m], published'[m], recorded', instant')
        BY DEF FateIsTrue
    <2>1. CASE m = n
        BY <1>1, <1>4, <2>1 DEF ToldTruly
    <2>2. CASE m # n
        BY <1>1, <2>2 DEF FateIsTrue
    <2> QED
        BY <2>1, <2>2
<1> QED
    BY <1>6, <1>7, <1>8, <1>9, <1>10

LEMMA InitIntakeInv ==
    IntakeInit => IntakeInv
<1> SUFFICES ASSUME IntakeInit PROVE IntakeInv
    OBVIOUS
<1>1. certificates = <<>> /\ certificates \in Seq(Entries) /\ Len(certificates) = 0 /\ DOMAIN certificates = {}
    BY DEF IntakeInit
<1>2. IntakeTypeOK
    BY <1>1 DEF IntakeInit, IntakeTypeOK
<1>3. CertificatesAreTheirOwn
    BY <1>1, IntakeNumbers DEF CertificatesAreTheirOwn
<1>4. PublishedIsSigned /\ RequestsAreServedWell /\ RecordedIsReadable
    BY DEF IntakeInit, PublishedIsSigned, RequestsAreServedWell, RecordedIsReadable
<1>5. FateIsTrue
    BY DEF IntakeInit, FateIsTrue, ToldTruly
<1> QED
    BY <1>2, <1>3, <1>4, <1>5 DEF IntakeInv

LEMMA StepIntakeInv ==
    ASSUME MarksAreNoRecords, NEW mails, IntakeInv, [IntakeNext(mails)]_intakeVars
    PROVE  IntakeInv'
<1>1. CASE TimePasses
    BY <1>1, TimePassesKeeps
<1>2. ASSUME NEW n \in Notices, NEW stamp \in instant..(instant + MaxSkew), NEW mail \in mails,
             Publish(n, mail.type, mail.message, stamp)
      PROVE  IntakeInv'
    BY <1>2, PublishKeeps
<1>3. ASSUME NEW r \in Handlers, IntakeSteps(r)
      PROVE  IntakeInv'
    BY <1>3, FetchKeeps, FetchFailsKeeps, CommitKeeps, ConfirmKeeps, ReplyKeeps, NoAnswerHeardKeeps,
       DeliverKeeps, StrayKeeps DEF IntakeSteps
<1>4. CASE UNCHANGED intakeVars
    BY <1>4 DEF intakeVars, IntakeInv, IntakeTypeOK, PublishedIsSigned, RequestsAreServedWell, RecordedIsReadable,
       FateIsTrue, CertificatesAreTheirOwn
<1> QED
    BY <1>1, <1>2, <1>3, <1>4 DEF IntakeNext

LEMMA InvGivesTruth ==
    IntakeInv => AnswersAreTrue
<1> SUFFICES ASSUME IntakeInv PROVE AnswersAreTrue
    OBVIOUS
<1>1. recorded \subseteq {n \in Notices : published[n] # Missing}
    BY DEF IntakeInv, RecordedIsReadable
<1>2. ASSUME NEW n \in Notices, published[n] # Missing, published[n].Type = "Notification"
      PROVE  /\ fate[n] = "taken" => n \in recorded
             /\ n \in recorded => Readable(published[n])
             /\ fate[n] = "refused" /\ Readable(published[n]) => Late(published[n], instant)
    BY <1>2 DEF IntakeInv, FateIsTrue, ToldTruly, RecordedIsReadable
<1> QED
    BY <1>1, <1>2 DEF AnswersAreTrue, IntakeInv, Readable, Late

\* route.ts, 30-35: an event SNS believes taken is in the database, a readable one
\* is refused for good only when it came too late, what was not published or is
\* not readable is never recorded, and a certificate is used under its own URL:
\* for any notices and mails, any number of requests at once, any cache and any
\* limits of age.
THEOREM WhatSnsIsToldIsTrue ==
    ASSUME MarksAreNoRecords, NEW mails
    PROVE  IntakeSpec(mails) => []AnswersAreTrue
<1>1. IntakeInv /\ [IntakeNext(mails)]_intakeVars => IntakeInv'
    BY StepIntakeInv
<1> QED
    BY <1>1, InitIntakeInv, InvGivesTruth, PTL DEF IntakeSpec
-----------------------------------------------------------------------------
\* A mail whose tags, recipients and time may each be missing or odd.
MailsOf(Values, People) ==
    [messageId : Values, tags : {Missing, Odd} \cup [job_id : Values, attempt_no : {Missing, Odd} \cup 1..5],
     recipients : People \cup {Odd}, timestamp : Values \cup {Odd}]
MessagesOf(Values, People, Bodies) ==
    [eventType : Values, notificationType : Values, mail : {Missing} \cup MailsOf(Values, People), body : Bodies]

\* parse.ts, 73: whatever a message holds, an odd destination list or time does
\* not make a bounce, a complaint or a delivery unreadable, and an event the
\* database is asked to match has the message's own id, no odd recipient and no
\* attempt but the one it carried.
THEOREM EveryFeedbackIsReadable ==
    ASSUME NEW Values, NEW People, NEW Bodies,
           Missing \notin MailsOf(Values, People), Odd \notin MessagesOf(Values, People, Bodies),
           NEW m \in MessagesOf(Values, People, Bodies)
    PROVE  FeedbackIsReadable(m)
<1> DEFINE other == [m EXCEPT !.mail = [@ EXCEPT !.recipients = Odd, !.timestamp = Odd]]
           type == IF m.eventType # Missing THEN m.eventType ELSE m.notificationType
           event == ParseSesEvent(m)
<1>1. ASSUME m.mail # Missing, type \in {"Bounce", "Complaint", "Delivery"}
      PROVE  ParseSesEvent(other) = event
    <2> DEFINE mail == m.mail
               hidden == [mail EXCEPT !.recipients = Odd, !.timestamp = Odd]
    <2>1. mail \in MailsOf(Values, People) /\ other = [m EXCEPT !.mail = hidden]
        BY <1>1 DEF MessagesOf
    <2>2. /\ hidden \in MailsOf(Values, People)
          /\ hidden.messageId = mail.messageId /\ hidden.tags = mail.tags
        BY <2>1 DEF MailsOf
    <2>3. /\ other \in MessagesOf(Values, People, Bodies)
          /\ other.eventType = m.eventType /\ other.notificationType = m.notificationType
          /\ other.body = m.body /\ other.mail = hidden
        BY <2>1, <2>2 DEF MessagesOf
    <2>4. m # Odd /\ other # Odd /\ mail # Missing /\ hidden # Missing
        BY <1>1, <2>2, <2>3
    <2>5. /\ type \in DOMAIN SesEventTypes
          /\ SesEventTypes[type] \in {"bounce", "complaint", "delivery"}
        BY <1>1 DEF SesEventTypes
    <2> HIDE DEF mail, hidden, other
    <2> QED
        BY <2>2, <2>3, <2>4, <2>5 DEF ParseSesEvent, mail
<1>2. ASSUME event.kind \in Acted
      PROVE  /\ event.messageId = m.mail.messageId /\ event.messageId \in MessageIds
             /\ event.attemptNo \in {Missing} \cup 1..5 /\ Odd \notin event.recipients
    <2> DEFINE rawType == type
               kind == IF rawType \in DOMAIN SesEventTypes THEN SesEventTypes[rawType] ELSE "other"
               from == IF kind \in {"send", "reject"} THEN m.mail ELSE m.body
               matched == [kind |-> kind, messageId |-> m.mail.messageId, jobId |-> Tag(m.mail.tags, "job_id"),
                           attemptNo |-> Tag(m.mail.tags, "attempt_no"),
                           recipients |-> CanonicalRecipients(from.recipients), occurredAt |-> IsoOrNull(from.timestamp)]
               acceptable == m.mail # Missing /\ m.mail.messageId \in MessageIds /\ m.mail.tags # Odd
    <2>1. \/ \E reason \in {"not_json", "malformed_event", "malformed_mail", "missing_message_id", kind} :
               event = Malformed(reason)
          \/ \E id \in {m.mail.messageId, Missing} : event = [kind |-> "ignored", messageId |-> id]
          \/ event = matched /\ acceptable
        BY DEF ParseSesEvent
    <2>2. event = matched /\ acceptable
        BY <1>2, <2>1 DEF Malformed, Acted
    <2>3. m.mail \in MailsOf(Values, People)
        BY <2>2 DEF MessagesOf
    <2>4. m.mail.tags = Missing \/ m.mail.tags.attempt_no \in {Missing, Odd} \cup 1..5
        BY <2>2, <2>3 DEF MailsOf
    <2>5. Tag(m.mail.tags, "attempt_no") \in {Missing} \cup 1..5
        BY <2>4 DEF Tag
    <2>6. Odd \notin CanonicalRecipients(from.recipients)
        BY DEF CanonicalRecipients
    <2> HIDE DEF kind, from, acceptable
    <2>7. /\ matched.messageId = m.mail.messageId /\ matched.attemptNo = Tag(m.mail.tags, "attempt_no")
          /\ matched.recipients = CanonicalRecipients(from.recipients)
        OBVIOUS
    <2> QED
        BY <2>2, <2>5, <2>6, <2>7 DEF acceptable
<1> QED
    BY <1>1, <1>2 DEF FeedbackIsReadable
=============================================================================

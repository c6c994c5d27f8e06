------------------------------ MODULE Templates ------------------------------
(***************************************************************************)
(* The messages made of templates: the personalization fields, a save, the *)
(* rendering for one recipient, the composed message and its headers.      *)
(* TemplateVersions has the rows that are saved.                           *)
(*                                                                         *)
(* A part of a template is a sequence of the lexemes of Html; "ctl" is a   *)
(* control character, and braces are single.  A value of a contact is such *)
(* a sequence, empty when the column is; Opaque is a custom value that is  *)
(* not text.  Lengths and the limits on them are left out.                 *)
(***************************************************************************)
EXTENDS Html, TemplateVersions

CONSTANT MaxWordBytes \* bytes of text that fit one encoded-word

-----------------------------------------------------------------------------
(* variables.ts.                                                           *)
ContactColumns == {"first_name", "last_name", "company", "website", "phone"}
AllowedVariables == ContactColumns \cup {"full_name", "email", "custom.plan"}
LowerCase == AllowedVariables \cup {"x", "y", "frist_name"}
Brace == {"{", "}"}

OpensToken(s) == Len(s) > 1 /\ s[1] = "{" /\ s[2] = "{"
BodyOf(s) == UpTo(From(s, 3), Brace)
IsToken(s) ==
  LET end == Len(BodyOf(s)) + 3 IN
  OpensToken(s) /\ end < Len(s) /\ s[end] = "}" /\ s[end + 1] = "}"

(* A part cut into its tokens and the lexemes between them.                *)
RECURSIVE Segments(_)
Segments(s) ==
  IF s = <<>> THEN <<>>
  ELSE IF IsToken(s)
  THEN LET end == Len(BodyOf(s)) + 4 IN
       <<[token |-> TRUE, name |-> TrimSpace(BodyOf(s)), text |-> SubSeq(s, 1, end)]>> \o Segments(From(s, end + 1))
  ELSE <<[token |-> FALSE, name |-> <<>>, text |-> <<s[1]>>]>> \o Segments(Tail(s))

IsField(segment) == segment.token /\ Len(segment.name) = 1 /\ segment.name[1] \in AllowedVariables

TokenProblem(segment) ==
  IF ~segment.token \/ IsField(segment) THEN {}
  ELSE IF Len(segment.name) = 1 /\ segment.name[1] \in LowerCase THEN {"unknown"} ELSE {"malformed"}

Unsupported == {<<"{", "{", "{">>, <<"{", "{", "/">>, <<"$", "{">>, <<"<", "%">>}

ScanVariables(source) ==
  LET parts == Segments(source)
      rest == FlattenSeq([k \in DOMAIN parts |-> IF parts[k].token THEN <<" ">> ELSE parts[k].text])
      stray == \E k \in 1..(Len(rest) - 1) : rest[k] \in Brace /\ rest[k + 1] = rest[k] IN
  [names |-> {parts[k].name[1] : k \in {j \in DOMAIN parts : IsField(parts[j])}},
   problems |-> UNION {TokenProblem(parts[k]) : k \in DOMAIN parts}
     \cup (IF stray THEN {"malformed"} ELSE {})
     \cup (IF \E k \in DOMAIN source, u \in Unsupported : IsPrefix(u, From(source, k)) THEN {"unsupported"} ELSE {})]

NoText == <<"no text">>
PartsOf(t) == {t.subject, t.html, t.text} \cup (IF t.preview = NoText THEN {} ELSE {t.preview})

ScanTemplateVariables(t) ==
  [names |-> UNION {ScanVariables(p).names : p \in PartsOf(t)},
   problems |-> UNION {ScanVariables(p).problems : p \in PartsOf(t)}]

-----------------------------------------------------------------------------
(* service.ts, prepareTemplate: what a save stores, or Refusal.            *)
Refusal == [html |-> NoText]
Controls == {"ctl", "nl", "tab"}
HeaderText(s) == IF Controls \cap ToSet(TrimSpace(s)) # {} THEN NoText ELSE TrimSpace(s)

PartsToStore(input, html) ==
  [subject |-> HeaderText(input.subject),
   preview |-> IF TrimSpace(input.preview) = <<>> THEN NoText ELSE HeaderText(input.preview),
   html |-> html, text |-> IF TrimSpace(input.text) = <<>> THEN HtmlToText(html) ELSE NormalizeText(input.text)]

Accepted(input, stored) ==
  LET scan == ScanTemplateVariables(stored)
      refused == \/ stored.subject \in {<<>>, NoText}
                 \/ TrimSpace(input.preview) # <<>> /\ stored.preview = NoText
                 \/ TrimSpace(stored.html) = <<>> \/ stored.text = <<>> \/ scan.problems # {} IN
  IF refused THEN Refusal ELSE stored @@ [variables |-> scan.names]

PrepareTemplate(input) ==
  Accepted(input, PartsToStore(input, SanitizeHtml(input.html)))

-----------------------------------------------------------------------------
(* render.ts.                                                              *)
EncodeFor(value, target) ==
  CASE target = "html" -> EscapeText(value)
    [] target = "subject" -> TrimSpace([k \in DOMAIN value |-> IF value[k] \in Controls THEN " " ELSE value[k]])
    [] target = "text" -> SelectSeq(value, LAMBDA c : c # "ctl")

RenderString(source, values, target) ==
  LET parts == Segments(source)
      filled(p) == IF IsField(p) THEN EncodeFor(values[p.name[1]], target) ELSE p.text
      scan == ScanVariables(source) IN
  [output |-> FlattenSeq([k \in DOMAIN parts |-> filled(parts[k])]), issues |-> scan.problems,
   missing |-> {v \in scan.names : values[v] = <<>>}]

SanitisedOnce_Bug(parts) ==
  [subject |-> parts.subject.output, preview |-> parts.preview.output, html |-> parts.html.output, text |-> parts.text.output,
   issues |-> UNION {parts[k].issues : k \in DOMAIN parts}, missing |-> UNION {parts[k].missing : k \in DOMAIN parts}]

RenderedTemplate(parts) ==
  [subject |-> parts.subject.output, preview |-> parts.preview.output,
   html |-> SanitizeHtml(parts.html.output), text |-> parts.text.output,
   issues |-> UNION {parts[k].issues : k \in DOMAIN parts}, missing |-> UNION {parts[k].missing : k \in DOMAIN parts}]

RenderTemplate(t, values) ==
  RenderedTemplate([subject |-> RenderString(t.subject, values, "subject"),
    preview |-> IF t.preview = NoText THEN [output |-> NoText, issues |-> {}, missing |-> {}]
                ELSE RenderString(t.preview, values, "subject"),
    html |-> RenderString(t.html, values, "html"), text |-> RenderString(t.text, values, "text")])

Opaque == <<"opaque">>

(* A contact is its columns, its address and its custom fields.            *)
ContactVariableValues(contact) ==
  LET full == IF <<>> \in {contact.first_name, contact.last_name}
              THEN contact.first_name \o contact.last_name
              ELSE contact.first_name \o <<" ">> \o contact.last_name IN
  [v \in AllowedVariables |->
     CASE v = "email" -> contact.email
       [] v = "full_name" -> full
       [] v = "custom.plan" -> IF contact.plan = Opaque THEN <<>> ELSE contact.plan
       [] OTHER -> contact[v]]

BuildPreview(t, contact) == RenderTemplate(t, ContactVariableValues(contact))

-----------------------------------------------------------------------------
(* compose.ts.  The merge data of a job are the columns its materialising  *)
(* copied; the address is the job's own.                                   *)
MergeData(contact) == [c \in ContactColumns \cup {"plan"} |-> contact[c]]
PersonalizationFromJob(to, data) == data @@ [email |-> to]

Failed(reason) == [ok |-> FALSE, reason |-> reason]
AddressLines(address) == SelectSeq(SplitAt(address, "nl"), LAMBDA line : TrimSpace(line) # <<>>)

(* A message body is its own text and its footer.                          *)
Message(rendered, to, requires, url, address) ==
  LET link == IF requires THEN url ELSE <<>>
      footer == [unsubscribe |-> link, address |-> AddressLines(address)] IN
  IF "@" \notin ToSet(to) THEN Failed("invalid_recipient")
  ELSE IF rendered.issues # {} \/ TrimSpace(rendered.subject) = <<>> THEN Failed("render_failed")
  ELSE IF requires /\ ~IsPrefix(<<"https:">>, url) THEN Failed("unsubscribe_unavailable")
  ELSE IF requires /\ AddressLines(address) = <<>> THEN Failed("postal_address_missing")
  ELSE IF link # <<>> /\ ToSet(link) \cap (Space \cup {"ctl"}) # {} THEN Failed("invalid_header")
  ELSE [ok |-> TRUE, to |-> to, subject |-> rendered.subject,
        preheader |-> IF rendered.preview \in {NoText, <<>>} THEN <<>> ELSE EscapeText(rendered.preview),
        html |-> rendered.html, text |-> rendered.text, footer |-> footer,
        headers |-> IF link = <<>> THEN {} ELSE {"List-Unsubscribe", "List-Unsubscribe-Post"}]

ComposeMessage(snapshot, data, to, requires, url, address) ==
  Message(RenderTemplate(snapshot, ContactVariableValues(PersonalizationFromJob(to, data))), to, requires, url, address)

(* mime.ts.  A text is the byte widths of its characters.                  *)
Bytes(word) == FoldLeft(LAMBDA n, b : n + b, 0, word)

EncodeHeaderText(widths) ==
  LET add(words, b) ==
        LET last == words[Len(words)] IN
        IF Bytes(last) + b > MaxWordBytes /\ last # <<>> THEN Append(words, <<b>>)
        ELSE [words EXCEPT ![Len(words)] = Append(@, b)] IN
  FoldLeft(add, <<<<>>>>, widths)

(* The display name of an ASCII address, as a quoted string.               *)
FormatName(name) ==
  LET shown == TrimSpace(name)
      escaped(c) == IF c \in {"quote", "backslash"} THEN <<"backslash", c>> ELSE <<c>> IN
  <<"quote">> \o FlattenSeq([k \in DOMAIN shown |-> escaped(shown[k])]) \o <<"quote">>

-----------------------------------------------------------------------------
(* service.ts, render.ts: a template t that could be saved renders for     *)
(* every contact, as r; a value is never read as a template again, no      *)
(* control character reaches a header, and what is shown is sanitised.     *)
SavedTemplateRenders(t, r) ==
  /\ r.issues = {} /\ r.missing \subseteq t.variables
  /\ {"ctl", "nl"} \cap (ToSet(r.subject) \cup ToSet(r.preview)) = {}
  /\ SanitizeHtml(r.html) = r.html
  /\ "me" \in ToSet(r.subject) \cup ToSet(r.html) \cup ToSet(r.text) => "email" \in t.variables

(* compose.ts: "what a person approved in the preview", r, "is what is     *)
(* sent", m; and a campaign that requires an unsubscribe link sends no     *)
(* message without one, in the headers and in the footer beside the        *)
(* address.                                                                *)
MessageIsThePreview(r, m, contact, requires, url, address) ==
  IF m.ok
  THEN /\ <<m.to, m.subject, m.html, m.text>> = <<contact.email, r.subject, r.html, r.text>>
       /\ requires => /\ m.headers # {} /\ m.footer.address # <<>>
                      /\ m.footer.unsubscribe # <<>> /\ ToSet(m.footer.unsubscribe) \cap Space = {}
  ELSE \/ TrimSpace(r.subject) = <<>>
       \/ requires /\ (TrimSpace(address) = <<>> \/ Len(url) # 1)

(* mime.ts: encoded-words hold the text between them, each within its 75   *)
(* characters and none ending inside a character; a quoted name reads back *)
(* as itself.                                                              *)
HeadersReadBack(widths, name) ==
  LET words == EncodeHeaderText(widths)
      quoted == FormatName(name)
      inner == SubSeq(quoted, 2, Len(quoted) - 1)
      escapes == {k \in DOMAIN inner : inner[k] = "backslash"
                    /\ Cardinality({j \in 1..k : \A i \in j..k : inner[i] = "backslash"}) % 2 = 1} IN
  /\ FlattenSeq(words) = widths
  /\ \A k \in DOMAIN words : Bytes(words[k]) <= MaxWordBytes
  /\ \A k \in DOMAIN inner : inner[k] = "quote" => k - 1 \in escapes
  /\ FlattenSeq([k \in DOMAIN inner |-> IF k \in escapes THEN <<>> ELSE <<inner[k]>>]) = TrimSpace(name)
=============================================================================

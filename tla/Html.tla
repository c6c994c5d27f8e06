--------------------------------- MODULE Html ---------------------------------
(***************************************************************************)
(* The body of a template: what the sanitiser keeps of it, the plain text  *)
(* derived from it, and the Simple format it may be written in.            *)
(*                                                                         *)
(* A document is a sequence of lexemes: punctuation, names and words, with *)
(* an entity as "&", its body and its semicolon, if it has one.  A word    *)
(* stands for its class: "https:" for the addresses of an allowed scheme,  *)
(* "color:" for the CSS properties that survive, with the colon and the    *)
(* space written behind it.  What was removed is not reported.             *)
(***************************************************************************)
EXTENDS Naturals, Sequences, FiniteSets, SequencesExt

CONSTANT MaxHtmlDepth \* MAX_HTML_DEPTH

Space == {" ", "nl", "tab"}

(* The first of these places of s, or one past its end.                    *)
FirstOf(s, places) == Min(places \cup {Len(s) + 1})
Places(s, marks) == {k \in DOMAIN s : s[k] \in marks}
From(s, k) == SubSeq(s, k, Len(s))
UpTo(s, marks) == SubSeq(s, 1, FirstOf(s, Places(s, marks)) - 1)
After(s, marks) == From(s, FirstOf(s, Places(s, marks)) + 1)
Skip(s, marks) == From(s, FirstOf(s, DOMAIN s \ Places(s, marks)))
TrimSpace(s) == Reverse(Skip(Reverse(Skip(s, Space)), Space))
Joined(parts, glue) == FlattenSeq([k \in DOMAIN parts |-> IF k = 1 THEN parts[k] ELSE glue \o parts[k]])
SplitAt(s, mark) ==
  FoldLeft(LAMBDA acc, c : IF c = mark THEN Append(acc, <<>>) ELSE [acc EXCEPT ![Len(acc)] = Append(@, c)], <<<<>>>>, s)

-----------------------------------------------------------------------------
(* The allowlists.                                                         *)
VoidTags == {"br", "img"}
BlockTags == {"p", "div", "h2", "ul"}
AllowedTags == VoidTags \cup BlockTags \cup {"a", "strong", "li", "td"}
RawTextTags == {"style"}
DropWithContent == RawTextTags \cup {"form"}
Names == AllowedTags \cup DropWithContent \cup {"font", "x", "y"}

AllowedAttributes(tag) ==
  {<<"style">>, <<"title">>} \cup (CASE tag = "a" -> {<<"href">>, <<"target">>, <<"rel">>}
                                     [] tag = "img" -> {<<"src">>} [] OTHER -> {})

-----------------------------------------------------------------------------
(* Entities.  Numeric ones are decoded first, and need no semicolon.       *)
NumericEntities == "#39" :> "apos" @@ "#38" :> "&"
NamedEntities == "amp" :> "&" @@ "lt" :> "<" @@ "gt" :> ">" @@ "quot" :> "quote"

RECURSIVE DecodeWith(_, _)
DecodeWith(s, table) ==
  IF Len(s) < 2 THEN s
  ELSE IF s[1] = "&" /\ s[2] \in DOMAIN table THEN <<table[s[2]]>> \o DecodeWith(From(s, IF Len(s) > 2 /\ s[3] = ";" THEN 4 ELSE 3), table)
  ELSE <<s[1]>> \o DecodeWith(Tail(s), table)

DecodeEntities(s) == DecodeWith(DecodeWith(s, NumericEntities), NamedEntities)

EscapeBracket(c) ==
  CASE c = "<" -> <<"&", "lt", ";">> [] c = ">" -> <<"&", "gt", ";">> [] c = "</" -> <<"&", "lt", ";", "/">> [] OTHER -> <<c>>

EscapesEntities_Bug(s) ==
  FlattenSeq([k \in DOMAIN s |-> IF s[k] = "&" THEN <<"&", "amp", ";">> ELSE EscapeBracket(s[k])])

(* An ampersand that begins an entity, semicolon included, is left alone.  *)
EscapeText(s) ==
  LET entity(k) == k + 2 <= Len(s) /\ s[k + 1] \in DOMAIN (NumericEntities @@ NamedEntities) /\ s[k + 2] = ";" IN
  FlattenSeq([k \in DOMAIN s |-> IF s[k] = "&" /\ ~entity(k) THEN <<"&", "amp", ";">> ELSE EscapeBracket(s[k])])

EscapeAttribute(s) ==
  FlattenSeq([k \in DOMAIN s |->
    CASE s[k] = "&" -> <<"&", "amp", ";">> [] s[k] = "quote" -> <<"&", "quot", ";">> [] s[k] = "apos" -> <<"&", "#39", ";">>
      [] OTHER -> EscapeBracket(s[k])])

-----------------------------------------------------------------------------
(* What an attribute value may be.                                         *)
OtherSchemes == {"ftp:", "data:"}

IsSafeUrl(value, allowDataImage) ==
  LET probe == SelectSeq(DecodeEntities(value), LAMBDA c : c \notin Space) IN
  \/ probe = <<>>
  \/ probe[1] \notin OtherSchemes
  \/ allowDataImage /\ probe[1] = "data:"

Properties == {"color:", "display:"}

(* What lies between the semicolons, that of an entity not excepted.       *)
Declarations(style) ==
  LET parts == SplitAt(style, ";")
      tidy(d) == IF d = <<>> THEN d ELSE <<d[1]>> \o Skip(Tail(d), Space) IN
  [k \in DOMAIN parts |-> tidy(TrimSpace(parts[k]))]

(* Decoded a second time, and what survives is not encoded a second time.  *)
SanitizeStyle(value) ==
  LET decoded == DecodeEntities(value)
      survives(d) == Len(d) > 1 /\ d[1] \in Properties /\ ToSet(d) \cap {"<", ">"} = {} IN
  IF ToSet(decoded) \cap {"@import", "</"} # {} THEN <<>>
  ELSE Joined(SelectSeq(Declarations(decoded), survives), <<";", " ">>)

Bare == <<"no value">>
Attribute(name, value) == [name |-> name, value |-> value]

(* One attribute of a start tag: nothing, or what is written of it.        *)
CleanAttribute(tag, a) ==
  LET style == SanitizeStyle(a.value)
      url == a.name \in {<<"href">>, <<"src">>} IN
  IF a.name \notin AllowedAttributes(tag) THEN <<>>
  ELSE IF a.value = Bare THEN (IF url \/ a.name = <<"style">> THEN <<>> ELSE <<a>>)
  ELSE IF url THEN (IF IsSafeUrl(a.value, tag = "img") THEN <<a>> ELSE <<>>)
  ELSE IF a.name = <<"style">> THEN (IF style = <<>> THEN <<>> ELSE <<[a EXCEPT !.value = style]>>)
  ELSE IF a.name = <<"target">> /\ a.value # <<"_blank">> THEN <<>> ELSE <<a>>

WithNoopener(kept) ==
  LET opens == \E k \in DOMAIN kept : kept[k].name = <<"target">> /\ kept[k].value # Bare
      isRel(a) == a.name = <<"rel">> /\ a.value # Bare IN
  IF opens THEN SelectSeq(kept, LAMBDA a : ~isRel(a)) \o <<Attribute(<<"rel">>, <<"noopener">>)>> ELSE kept

CleanAttributes(tag, attributes) ==
  LET kept == FlattenSeq([k \in DOMAIN attributes |-> CleanAttribute(tag, attributes[k])]) IN
  IF tag = "a" THEN WithNoopener(kept) ELSE kept

ReadValue(v) ==
  IF v # <<>> /\ v[1] \in {"quote", "apos"}
  THEN [raw |-> UpTo(Tail(v), {v[1]}), rest |-> After(Tail(v), {v[1]})]
  ELSE [raw |-> UpTo(v, Space \cup {">"}), rest |-> From(v, FirstOf(v, Places(v, Space \cup {">"})))]

(* The attributes of a start tag, and the source behind its ">".           *)
RECURSIVE ParseAttributes(_, _)
ParseAttributes(source, got) ==
  LET s == Skip(source, Space \cup {"/"})
      name == UpTo(s, Space \cup {"=", ">", "/"})
      t == Skip(From(s, Len(name) + 1), Space)
      read == ReadValue(Skip(Tail(t), Space)) IN
  IF s = <<>> THEN [attributes |-> got, rest |-> <<>>]
  ELSE IF s[1] = ">" THEN [attributes |-> got, rest |-> Tail(s)]
  ELSE IF name = <<>> THEN ParseAttributes(Tail(s), got)
  ELSE IF t = <<>> \/ t[1] # "=" THEN ParseAttributes(t, Append(got, Attribute(name, Bare)))
  ELSE ParseAttributes(read.rest, Append(got, Attribute(name, DecodeEntities(read.raw))))

-----------------------------------------------------------------------------
(* What is skipped with a dropped element: raw text up to its close tag,   *)
(* another element with those of the same name nested in it.               *)
Follows(s, k, name, ends) == k + 2 <= Len(s) /\ s[k + 1] = name /\ s[k + 2] \in ends

SkipRawText(s, name) ==
  After(From(s, FirstOf(s, {k \in Places(s, {"</"}) : Follows(s, k, name, Space \cup {">"})})), {">"})

SkipElement(s, name) ==
  LET marks(mark, k) == {j \in 1..k : s[j] = mark /\ Follows(s, j, name, Space \cup {"/", ">"})}
      closes(k) == k \in marks("</", k) /\ Cardinality(marks("</", k)) > Cardinality(marks("<", k)) IN
  After(From(s, FirstOf(s, {k \in DOMAIN s : closes(k)})), {">"})

Closing(tags) == FlattenSeq(Reverse([k \in DOMAIN tags |-> <<"</", tags[k], ">">>]))
SkipComment(s) == From(s, FirstOf(s, {k \in Places(s, {"--"}) : k < Len(s) /\ s[k + 1] = ">"}) + 2)

Written(tag, attributes) ==
  LET value(a) == IF a.value = Bare THEN <<>> ELSE <<"=", "quote">> \o EscapeAttribute(a.value) \o <<"quote">> IN
  <<"<", tag>>
  \o FlattenSeq([k \in DOMAIN attributes |-> <<" ">> \o attributes[k].name \o value(attributes[k])])
  \o (IF tag \in VoidTags THEN <<" ", "/", ">">> ELSE <<">">>)

Marks == {"<", "</", "<!"}

RECURSIVE Scan(_, _), ScanTag(_, _, _)
Scan(source, open) ==
  LET text == UpTo(source, Marks)
      s == From(source, Len(text) + 1)
      name == s[2]
      behind == Tail(s)
      at == {k \in DOMAIN open : open[k] = name} IN
  IF text # <<>> THEN EscapeText(text) \o Scan(s, open)
  ELSE IF s = <<>> THEN Closing(open)
  ELSE IF s[1] = "<!" /\ behind # <<>> /\ name = "--" THEN Scan(SkipComment(Tail(behind)), open)
  ELSE IF s[1] = "<!" THEN Scan(After(behind, {">"}), open)
  ELSE IF s[1] = "</"
  THEN IF behind = <<>> \/ at = {} THEN Scan(After(behind, {">"}), open)
       ELSE Closing(From(open, Max(at))) \o Scan(After(behind, {">"}), SubSeq(open, 1, Max(at) - 1))
  ELSE IF behind = <<>> \/ name \notin Names THEN <<"&", "lt", ";">> \o Scan(behind, open)
  ELSE ScanTag(name, ParseAttributes(From(s, 3), <<>>), open)

(* A start tag, and the source behind it.                                  *)
ScanTag(name, tag, open) ==
  IF name \in DropWithContent
  THEN Scan(IF name \in RawTextTags THEN SkipRawText(tag.rest, name) ELSE SkipElement(tag.rest, name), open)
  ELSE IF name \notin AllowedTags \/ Len(open) >= MaxHtmlDepth THEN Scan(tag.rest, open)
  ELSE Written(name, CleanAttributes(name, tag.attributes))
         \o Scan(tag.rest, IF name \in VoidTags THEN open ELSE Append(open, name))

SanitizeHtml(source) == Scan(source, <<>>)

-----------------------------------------------------------------------------
(* text.ts.  A run of white space keeps at most two of its line breaks.    *)
RECURSIVE Collapse(_)
Collapse(s) ==
  LET run == UpTo(s, {c \in ToSet(s) : c \notin Space})
      breaks == SelectSeq(run, LAMBDA c : c = "nl") IN
  IF s = <<>> THEN <<>>
  ELSE IF run = <<>> THEN <<s[1]>> \o Collapse(Tail(s))
  ELSE (IF breaks = <<>> THEN <<" ">> ELSE IF Len(breaks) = 1 THEN breaks ELSE <<"nl", "nl">>)
       \o Collapse(From(s, Len(run) + 1))

NormalizeText(s) == TrimSpace(Collapse(s))

NoLink == <<"no link">>
Emit(t, s) ==
  IF t.skipping # <<>> THEN t ELSE IF t.href # NoLink THEN [t EXCEPT !.label = @ \o s] ELSE [t EXCEPT !.out = @ \o s]

ValueOf(attributes, name) ==
  LET found == {k \in DOMAIN attributes : attributes[k].name = <<name>> /\ attributes[k].value # Bare} IN
  IF found = {} THEN <<>> ELSE attributes[Max(found)].value

IsHidden(attributes) == \E d \in ToSet(Declarations(ValueOf(attributes, "style"))) :
  Len(d) > 1 /\ d[1] = "display:" /\ d[2] = "none"

EndLink(t) ==
  LET label == TrimSpace(t.label) IN
  IF t.href = NoLink THEN t
  ELSE [t EXCEPT !.href = NoLink, !.label = <<>>,
          !.out = @ \o (IF label = <<>> \/ label = t.href THEN t.href ELSE label \o <<" ", "(">> \o t.href \o <<")">>)]

OpenTag(t, name, attributes) ==
  LET href == ValueOf(attributes, "href") IN
  IF t.skipping # <<>> THEN t
  ELSE IF IsHidden(attributes) THEN [t EXCEPT !.skipping = <<name>>]
  ELSE CASE name = "br" -> Emit(t, <<"nl">>)
         [] name = "a" -> [t EXCEPT !.href = IF IsSafeUrl(href, FALSE) /\ href # <<>> THEN href ELSE NoLink,
                                    !.label = <<>>]
         [] name = "li" -> Emit(t, <<"nl", "-", " ">>)
         [] name \in BlockTags -> Emit(t, <<"nl", "nl">>)
         [] OTHER -> t

CloseTag(t, name) ==
  IF t.skipping # <<>> THEN [t EXCEPT !.skipping = IF @[1] = name THEN <<>> ELSE @]
  ELSE CASE name = "a" -> EndLink(t)
         [] name = "td" -> Emit(t, <<"tab">>)
         [] name \in BlockTags -> Emit(t, <<"nl", "nl">>)
         [] OTHER -> t

RECURSIVE TextOf(_, _)
TextOf(html, t) ==
  LET text == UpTo(html, Marks)
      s == From(html, Len(text) + 1)
      tag == ParseAttributes(From(s, 3), <<>>) IN
  IF text # <<>> THEN TextOf(s, Emit(t, DecodeEntities(text)))
  ELSE IF s = <<>> THEN (IF t.href = NoLink THEN t.out ELSE t.out \o t.label)
  ELSE TextOf(tag.rest, IF s[1] = "<" THEN OpenTag(t, s[2], tag.attributes) ELSE CloseTag(t, s[2]))

HtmlToText(html) ==
  NormalizeText(TextOf(html, [out |-> <<>>, skipping |-> <<>>, href |-> NoLink, label |-> <<>>]))

-----------------------------------------------------------------------------
(* simple.ts: lines of text in, a small subset of HTML out and back.       *)
Element(tag, s) == <<"<", tag, ">">> \o s \o <<"</", tag, ">">>
Break == <<"<", "br", " ", "/", ">">>

(* Two asterisks, at least one other character, and two asterisks again.   *)
RECURSIVE Bold(_)
Bold(s) ==
  LET start == FirstOf(s, Places(s, {"**"}))
      inner == UpTo(From(s, start + 1), {"**"})
      closed == start + Len(inner) + 1 <= Len(s) IN
  IF start > Len(s) THEN s
  ELSE IF closed /\ inner # <<>>
  THEN SubSeq(s, 1, start - 1) \o Element("strong", inner) \o Bold(From(s, start + Len(inner) + 2))
  ELSE SubSeq(s, 1, start) \o Bold(From(s, start + 1))

EscapeAll(s) == FlattenSeq([k \in DOMAIN s |-> IF s[k] = "&" THEN <<"&", "amp", ";">> ELSE EscapeBracket(s[k])])

(* Addresses are found first, and what lies between is escaped.            *)
RECURSIVE Inline(_)
Inline(s) ==
  LET before == UpTo(s, {"https:"})
      url == UpTo(From(s, Len(before) + 1), Space \cup {"<", "</", ">", "quote", "apos"}) IN
  Bold(EscapeAll(before)) \o
    (IF url = <<>> THEN <<>>
     ELSE <<"<", "a", " ", "href", "=", "quote">> \o EscapeAttribute(url) \o <<"quote", ">">> \o EscapeAll(url)
            \o <<"</", "a", ">">> \o Inline(From(s, Len(before) + Len(url) + 1)))

Marked(line, marks) == Len(line) > 1 /\ line[1] \in marks /\ line[2] \in Space
Unmarked(line) == Skip(Tail(line), Space)

(* Lines, trimmed, in the blocks the empty ones part.                      *)
Blocks(text) ==
  LET lines == LET raw == SplitAt(text, "nl") IN [k \in DOMAIN raw |-> TrimSpace(raw[k])]
      parted == FoldLeft(LAMBDA acc, line : IF line = <<>> THEN Append(acc, <<>>)
                                            ELSE [acc EXCEPT ![Len(acc)] = Append(@, line)], <<<<>>>>, lines) IN
  SelectSeq(parted, LAMBDA block : block # <<>>)

BlockHtml(block) ==
  LET first == FirstOf(block, {k \in DOMAIN block : ~Marked(block[k], {"#"})})
      rest == From(block, first) IN
  IF \A k \in DOMAIN block : Marked(block[k], {"-"})
  THEN <<Element("ul", FlattenSeq([k \in DOMAIN block |-> Element("li", Inline(Unmarked(block[k])))]))>>
  ELSE [k \in 1..(first - 1) |-> Element("h2", Inline(Unmarked(block[k])))]
       \o (IF rest = <<>> THEN <<>>
           ELSE <<Element("p", Joined([k \in DOMAIN rest |-> Inline(rest[k])], Break))>>)

ToSimpleHtml(text) ==
  LET blocks == Blocks(text) IN Joined(FlattenSeq([k \in DOMAIN blocks |-> BlockHtml(blocks[k])]), <<"nl">>)

NotSimple == <<"not simple">>
Inside(s, tag) ==
  IF Len(s) >= 6 /\ SubSeq(s, 1, 3) = <<"<", tag, ">">> /\ From(s, Len(s) - 2) = <<"</", tag, ">">>
  THEN SubSeq(s, 4, Len(s) - 3) ELSE NotSimple

RECURSIVE Replaced(_, _, _)
Replaced(s, old, new) ==
  IF Len(s) < Len(old) THEN s
  ELSE IF IsPrefix(old, s) THEN new \o Replaced(From(s, Len(old) + 1), old, new)
  ELSE <<s[1]>> \o Replaced(Tail(s), old, new)

RECURSIVE InlineBack(_)
InlineBack(html) ==
  LET plain == Replaced(Replaced(Replaced(html, Break, <<"nl">>), <<"<", "strong", ">">>, <<"**">>),
                        <<"</", "strong", ">">>, <<"**">>)
      link == FirstOf(plain, {k \in DOMAIN plain : IsPrefix(<<"<", "a", " ", "href", "=", "quote">>, From(plain, k))})
      behind == After(From(plain, link + 6), {"quote"})
      label == UpTo(Tail(behind), {"</"}) IN
  IF link <= Len(plain) /\ behind # <<>> /\ behind[1] = ">"
  THEN InlineBack(SubSeq(plain, 1, link - 1) \o label \o From(behind, Len(label) + 5))
  ELSE IF \E k \in DOMAIN plain : plain[k] \in {"<", "</", ">"} THEN NotSimple ELSE DecodeEntities(plain)

Items(s) == LET parts == SplitAt(Replaced(s, <<"</", "li", ">">>, <<"end">>), "end") IN
            [k \in 1..(Len(parts) - 1) |-> InlineBack(From(parts[k], 4))]

LineBack(line) ==
  LET heading == Inside(line, "h2")
      paragraph == Inside(line, "p")
      items == Inside(line, "ul") IN
  IF heading # NotSimple THEN <<"#", " ">> \o InlineBack(heading)
  ELSE IF paragraph # NotSimple THEN InlineBack(paragraph)
  ELSE IF items # NotSimple /\ IsPrefix(<<"<", "li", ">">>, items)
  THEN LET lines == Items(items) IN Joined([k \in DOMAIN lines |-> <<"-", " ">> \o lines[k]], <<"nl">>)
  ELSE NotSimple

(* The text whose conversion is exactly this HTML, if it is that simple.   *)
FromSimpleHtml(html) ==
  LET lines == SplitAt(TrimSpace(html), "nl")
      text == Joined([k \in DOMAIN lines |-> LineBack(lines[k])], <<"nl", "nl">>) IN
  IF TrimSpace(html) = <<>> THEN <<>>
  ELSE IF ToSimpleHtml(text) = TrimSpace(html) THEN text ELSE NotSimple

-----------------------------------------------------------------------------
(* Places of a sanitised document: its tags, and the element of each.      *)
Tags(s, mark) == {k \in DOMAIN s : s[k] = mark}
OpenTags(s) == {k \in Tags(s, "<") : s[k + 1] \notin VoidTags}
EndOfTag(s, k) == Min({j \in k..Len(s) : s[j] = ">"})
ElementEnd(s, i) ==
  Min({j \in Tags(s, "</") : j > i /\ Cardinality({o \in OpenTags(s) : i < o /\ o < j})
                                       = Cardinality({c \in Tags(s, "</") : i < c /\ c < j})})
AttributesAt(s, k) == ParseAttributes(From(s, k + 2), <<>>).attributes

(* A start tag without its style: what the second pass must not touch.     *)
Unstyled(s) ==
  LET styles == {k \in 1..(Len(s) - 3) : SubSeq(s, k, k + 3) = <<" ", "style", "=", "quote">>}
      inStyle == UNION {k..(k + 3 + FirstOf(From(s, k + 4), Places(From(s, k + 4), {"quote"}))) : k \in styles} IN
  FlattenSeq([k \in DOMAIN s |-> IF k \in inStyle THEN <<>> ELSE <<s[k]>>])

(* sanitize.ts, render.ts: sanitising its own output changes nothing, so   *)
(* that the second pass after personalization only judges the values, save *)
(* for a style with an entity still in it, which the next pass decodes     *)
(* further; even then it touches nothing else.  And every element is       *)
(* closed by its own tag, within the depth allowed: of a sanitised         *)
(* document s.                                                             *)
SanitisedIsSettled(s) ==
  LET again == SanitizeHtml(s)
      styles == {a.value : a \in {a \in UNION {ToSet(AttributesAt(s, k)) : k \in Tags(s, "<")} : a.name = <<"style">>}} IN
  /\ IF \A v \in styles : DecodeEntities(v) = v THEN again = s ELSE again # s /\ Unstyled(again) = Unstyled(s)
  /\ Cardinality(OpenTags(s)) = Cardinality(Tags(s, "</"))
  /\ \A i \in OpenTags(s) :
       /\ s[i + 1] \in AllowedTags /\ s[ElementEnd(s, i) + 1] = s[i + 1]
       /\ Cardinality({o \in OpenTags(s) : o < i /\ i < ElementEnd(s, o)}) < MaxHtmlDepth

(* text.ts: the text of s carries the words of the HTML a reader sees, in  *)
(* their order, and the address of every link among them.  (Links and      *)
(* hidden elements nested in their own kind, and hidden images, lose text  *)
(* or show it: those are left out.)                                        *)
TextCarriesTheMessage(s, text) ==
  LET hidden == {i \in Tags(s, "<") : IsHidden(AttributesAt(s, i))}
      inside(i) == {k \in DOMAIN s : i < k /\ k < ElementEnd(s, i)}
      among(i) == {s[o + 1] : o \in OpenTags(s) \cap inside(i)}
      markup == UNION {k..EndOfTag(s, k) : k \in Tags(s, "<") \cup Tags(s, "</")}
      unseen == UNION {inside(i) : i \in hidden \cap OpenTags(s)}
      seen == SelectSeq([k \in DOMAIN s |-> IF k \in markup \cup unseen THEN " " ELSE s[k]], LAMBDA c : c \notin Space)
      links == {i \in OpenTags(s) \ (hidden \cup unseen) : s[i + 1] = "a"} IN
  (/\ hidden \subseteq OpenTags(s)
   /\ \A i \in hidden \cup {o \in OpenTags(s) : s[o + 1] = "a"} : s[i + 1] \notin among(i)) =>
     /\ SelectSeq(text, LAMBDA c : c \in {"x", "y", "<"})
          = SelectSeq(DecodeEntities(seen), LAMBDA c : c \in {"x", "y", "<"})
     /\ \A i \in links : LET href == ValueOf(AttributesAt(s, i), "href") IN
          href # <<>> => \E k \in DOMAIN text : IsPrefix(href, From(text, k))

(* simple.ts, the editor: the HTML of blocks in the Simple format is kept  *)
(* as it is by the sanitiser and opens in the Simple format again.  (A     *)
(* list right below a heading is taken for a paragraph, and does not.)     *)
SimpleModeReopens(html, blocks) ==
  LET listBelowHeading(block) ==
        \E k \in 2..Len(block) : /\ \A j \in 1..(k - 1) : Marked(block[j], {"#"})
                                 /\ \A j \in k..Len(block) : Marked(block[j], {"-"}) IN
  /\ SanitizeHtml(html) = html
  /\ FromSimpleHtml(html) = NotSimple <=> \E k \in DOMAIN blocks : listBelowHeading(blocks[k])
=============================================================================

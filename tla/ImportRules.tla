---------------------------- MODULE ImportRules ----------------------------
(***************************************************************************)
(* The decisions of an import that need no database: which file is let in, *)
(* which row is the header, which column feeds which contact field, what   *)
(* becomes of one row, and the canonical form of an address.               *)
(*                                                                         *)
(* Text is abstracted.  A cell is a sequence <<word, mark, ...>>, the blank *)
(* cell <<>>; a mark is the number in a suffix such as " (2)".  The words  *)
(* stand for the classes of text the code tells apart.  Columns and rows   *)
(* count from 1.                                                           *)
(***************************************************************************)
EXTENDS Naturals, Integers, Sequences, FiniteSets, SequencesExt

CONSTANTS MaxCustomFields, \* MAX_CUSTOM_FIELDS
          MaxLocal,        \* MAX_LOCAL_LENGTH
          MaxLength        \* MAX_TOTAL_LENGTH

-----------------------------------------------------------------------------
(* detect.ts.  A file: its extension, the content type its browser names,  *)
(* a size class, and what its bytes begin with.                            *)
Formats == {"csv", "tsv", "xlsx", "xls"}
Magics == {"zip", "ole2", "hostile", "binary", "text"}
FileCases == [ext : Formats \cup {"exe"}, typed : {"accepted", "other"},
              size : {"empty", "fits", "too_large"}, magic : Magics]

Accepted(format) == [ok |-> TRUE, format |-> format, reason |-> ""]
Refused(reason) == [ok |-> FALSE, format |-> "", reason |-> reason]

CheckDeclaredFile(f) ==
  IF f.size = "empty" THEN Refused("empty")
  ELSE IF f.size = "too_large" THEN Refused("too_large")
  ELSE IF f.ext \notin Formats THEN Refused("unsupported_extension")
  ELSE IF f.typed = "other" THEN Refused("unsupported_content_type")
  ELSE Accepted(f.ext)

NoOle_Bug(f) == IF f.magic = "zip" THEN "xlsx" ELSE ""

(* SIGNATURES: the container format the leading bytes announce, or "".     *)
Signed(f) == IF f.magic = "zip" THEN "xlsx" ELSE IF f.magic = "ole2" THEN "xls" ELSE ""

CheckFileContent(f) ==
  IF f.size = "empty" THEN Refused("empty")
  ELSE IF f.size = "too_large" THEN Refused("too_large")
  ELSE IF f.ext \notin Formats THEN Refused("unsupported_extension")
  ELSE IF Signed(f) \notin {"", f.ext} THEN Refused("content_mismatch")
  ELSE IF Signed(f) = f.ext THEN Accepted(f.ext)
  ELSE IF f.ext \in {"xlsx", "xls"} THEN Refused("content_mismatch")
  ELSE IF f.magic = "hostile" THEN Refused("unsupported_content")
  ELSE IF f.magic = "binary" THEN Refused("binary_content")
  ELSE Accepted(f.ext)

(* A reader is chosen by the bytes: the workbook readers only ever see the *)
(* container they read, the text reader never sees a container, and the    *)
(* two checks never disagree on the format.                                *)
ReaderMatchesBytes(f, checked) ==
  checked.ok =>
    /\ checked.format = "xlsx" <=> f.magic = "zip"
    /\ checked.format = "xls" <=> f.magic = "ole2"
    /\ CheckDeclaredFile(f).ok => CheckDeclaredFile(f).format = checked.format

-----------------------------------------------------------------------------
(* mapping.ts.  Contact fields in the order the passes try them.           *)
ContactFields == <<"email", "company">>

Blank == <<>>
Address == <<"address@">>
Number == <<"42">>

(* FIELD_SYNONYMS: the headers that name a field outright, those that only *)
(* may, and the words long enough to be looked for inside a header.        *)
Strong(header, field) == header = <<field>>
Weak(header, field) == field # "email" /\ header = <<"account">>
Within(header, field) ==
  header # Blank /\ (header[1] = field \/ (header[1] = "work email" /\ field = "email"))

LabelOf(raw, k) == IF raw[k] = Blank THEN <<"column", k>> ELSE raw[k]

DedupeHeaders(raw) ==
  [k \in 1..Len(raw) |->
     LET earlier == Cardinality({j \in 1..(k - 1) : LabelOf(raw, j) = LabelOf(raw, k)})
     IN  IF earlier = 0 THEN LabelOf(raw, k) ELSE Append(LabelOf(raw, k), earlier + 1)]

(* The key of a custom field: empty when no letter survives, numbered when *)
(* it is taken.                                                            *)
CustomKeyFor(header, taken) ==
  IF header[1] \in {Number[1]} THEN <<>>
  ELSE IF header \notin taken THEN header
  ELSE Append(header, CHOOSE n \in 2..50 :
         /\ Append(header, n) \notin taken
         /\ \A m \in 2..(n - 1) : Append(header, m) \in taken)

(* Twice the score of the code, which counts half a point per row.         *)
HeaderScore(row, k) ==
  LET filled == {j \in DOMAIN row : row[j] # Blank}
      has(cell) == \E j \in filled : row[j] = cell IN
  2 * (Cardinality(filled) * 2
       + (IF filled = DOMAIN row THEN 3 ELSE 0) + 2
       - (IF has(Address) THEN 12 ELSE 0) - (IF has(Number) THEN 3 ELSE 0)
       + (IF Cardinality({row[j] : j \in filled}) = Cardinality(filled) THEN 1 ELSE 0))
  - (k - 1)

DetectHeaderRow(rows) ==
  LET full == {k \in DOMAIN rows : \E j \in DOMAIN rows[k] : rows[k][j] # Blank} IN
  IF full = {} THEN 1
  ELSE CHOOSE k \in full : \A m \in full :
         \/ HeaderScore(rows[m], m) < HeaderScore(rows[k], k)
         \/ HeaderScore(rows[m], m) = HeaderScore(rows[k], k) /\ k <= m

Ignore == [kind |-> "ignore", field |-> "none", key |-> <<>>]
FieldTarget(f) == [kind |-> "field", field |-> f, key |-> <<>>]
CustomTarget(k) == [kind |-> "custom", field |-> "none", key |-> k]

Claimed(targets, field) == \E k \in DOMAIN targets : targets[k] = FieldTarget(field)

(* One field claims the first column still free whose header it matches.   *)
ClaimFirst(targets, field, matching) ==
  LET free == {k \in matching : targets[k] = Ignore} IN
  IF Claimed(targets, field) \/ free = {} THEN targets
  ELSE [targets EXCEPT ![Min(free)] = FieldTarget(field)]

Pass(targets, matches(_)) ==
  FoldLeft(LAMBDA acc, field : ClaimFirst(acc, field, matches(field)), targets, ContactFields)

ExactPass(headers, targets) ==
  Pass(targets, LAMBDA field : {k \in DOMAIN headers : Strong(headers[k], field)})

FuzzyPass(headers, targets) ==
  Pass(targets, LAMBDA field : {k \in DOMAIN headers :
    \/ Strong(headers[k], field) \/ Weak(headers[k], field) \/ Within(headers[k], field)})

(* More than six in ten of the filled cells of a free column are addresses. *)
SampledPass(data, targets) ==
  LET cells(k) == {r \in DOMAIN data : data[r][k] # Blank}
      hits(k) == {r \in cells(k) : data[r][k] = Address}
      better(k, j) == Cardinality(hits(k)) * Cardinality(cells(j))
                        > Cardinality(hits(j)) * Cardinality(cells(k))
      likely == {k \in DOMAIN targets : /\ targets[k] = Ignore
                                        /\ 10 * Cardinality(hits(k)) > 6 * Cardinality(cells(k))}
      best == {k \in likely : \A j \in likely : ~better(j, k)} IN
  IF Claimed(targets, "email") \/ likely = {} THEN targets
  ELSE [targets EXCEPT ![Min(best)] = FieldTarget("email")]

CustomsOf(targets) == {k \in DOMAIN targets : targets[k].kind = "custom"}

CustomPass(headers, targets) ==
  FoldLeft(LAMBDA acc, k :
     LET key == CustomKeyFor(headers[k], {acc[j].key : j \in CustomsOf(acc)}) IN
     IF acc[k] # Ignore \/ Cardinality(CustomsOf(acc)) >= MaxCustomFields \/ key = <<>> THEN acc
     ELSE [acc EXCEPT ![k] = CustomTarget(key)],
   targets, [k \in 1..Len(targets) |-> k])

ProposeMapping(rows) ==
  LET headerRow == DetectHeaderRow(rows)
      headers == DedupeHeaders(rows[headerRow])
      data == SubSeq(rows, headerRow + 1, Len(rows))
      named == FuzzyPass(headers, ExactPass(headers, [k \in 1..Len(headers) |-> Ignore]))
      found == SampledPass(data, named)
      targets == CustomPass(headers, found) IN
  [headerRow |-> headerRow, headers |-> headers,
   columns |-> [k \in 1..Len(headers) |-> [index |-> k, target |-> targets[k]]],
   emailUnresolved |-> ~Claimed(targets, "email")]

(* validateMapping: the first problem in the order the code meets it.      *)
Repeats(columns, k) ==
  \E j \in 1..(k - 1) : columns[j].target = columns[k].target /\ columns[k].target # Ignore

ColumnProblem(columns, k, width) ==
  IF columns[k].index > width THEN "unknown_column"
  ELSE IF ~Repeats(columns, k) THEN "none"
  ELSE IF columns[k].target.kind = "field" THEN "duplicate_field"
  ELSE "duplicate_custom_key"

ValidateMapping(columns, width) ==
  LET bad == {k \in DOMAIN columns : ColumnProblem(columns, k, width) # "none"} IN
  IF bad # {} THEN ColumnProblem(columns, Min(bad), width)
  ELSE IF columns = <<>> THEN "invalid_shape"
  ELSE IF Cardinality(CustomsOf([k \in DOMAIN columns |-> columns[k].target])) > MaxCustomFields THEN "too_many_custom"
  ELSE IF \A k \in DOMAIN columns : columns[k].target # FieldTarget("email") THEN "missing_email"
  ELSE "none"

-----------------------------------------------------------------------------
(* classify.ts: the mapping compiled, then one row settled or prepared.    *)
CompileMapping(columns) ==
  LET of(kind) == {k \in DOMAIN columns : columns[k].target.kind = kind}
      emails == {k \in of("field") : columns[k].target.field = "email"} IN
  [email |-> IF emails = {} THEN 0 ELSE columns[Min(emails)].index,
   fields |-> {<<columns[k].index, columns[k].target.field>> : k \in of("field") \ emails},
   custom |-> {<<columns[k].index, columns[k].target.key>> : k \in of("custom")}]

Cell(row, k) == IF k \in DOMAIN row THEN row[k] ELSE Blank
TooLong == <<"a very long text">>

(* The bucket, or "candidate" for a row that goes on to the database.      *)
ClassifyRow(row, mapping) ==
  IF mapping.email = 0 \/ \A k \in DOMAIN row : row[k] = Blank THEN "rejected"
  ELSE IF Cell(row, mapping.email) = Blank THEN "rejected"
  ELSE IF Cell(row, mapping.email) # Address THEN "invalid"
  ELSE IF \E f \in mapping.fields : Cell(row, f[1]) = TooLong THEN "rejected"
  ELSE "candidate"

-----------------------------------------------------------------------------
(* normalize.ts.  An address is a sequence of characters, one for each     *)
(* class the code tells apart: "wide" is a fullwidth a that NFKC folds,    *)
(* "hidden" a zero-width or bidirectional mark, "nbsp" a space NFKC makes  *)
(* plain.                                                                  *)
NFKC(s) == [k \in DOMAIN s |-> IF s[k] = "wide" THEN "a" ELSE IF s[k] = "nbsp" THEN " " ELSE s[k]]
Lower(s) == [k \in DOMAIN s |-> IF s[k] = "A" THEN "a" ELSE s[k]]
Visible(s) == SelectSeq(s, LAMBDA c : c # "hidden")

Trim(s) ==
  LET text == {k \in DOMAIN s : s[k] # " "} IN
  IF text = {} THEN <<>>
  ELSE SubSeq(s, Min(text), Max(text))

Cleaned(s) == Trim(Visible(NFKC(s)))

LastAt(s) ==
  LET ats == {k \in DOMAIN s : s[k] = "@"} IN
  Max(ats \cup {0})

Dotted(s) == s[1] = "." \/ s[Len(s)] = "." \/ \E k \in 1..(Len(s) - 1) : s[k] = "." /\ s[k + 1] = "."

ValidLocal(s) ==
  /\ s # <<>> /\ Len(s) <= MaxLocal
  /\ ~Dotted(s) /\ \A k \in DOMAIN s : s[k] \in {"a", "+", "-", "."}

LabelsOf(s) == {l \in (DOMAIN s) \X (DOMAIN s) :
  /\ l[1] <= l[2] /\ \A k \in l[1]..l[2] : s[k] # "."
  /\ l[1] = 1 \/ s[l[1] - 1] = "."
  /\ l[2] = Len(s) \/ s[l[2] + 1] = "."}

ValidDomain(s) ==
  /\ s # <<>> /\ ~Dotted(s)
  /\ Cardinality(LabelsOf(s)) >= 2
  /\ \A l \in LabelsOf(s) :
       /\ s[l[1]] # "-" /\ s[l[2]] # "-"
       /\ \A k \in l[1]..l[2] : s[k] \in {"a", "-"}
       /\ l[2] = Len(s) => l[2] - l[1] >= 1 /\ \A k \in l[1]..l[2] : s[k] = "a"

NormalizeEmail(s) ==
  LET c == Cleaned(s)
      at == LastAt(c)
      local == Lower(SubSeq(c, 1, at - 1))
      domain == Lower(SubSeq(c, at + 1, Len(c)))
      reason ==
        IF c = <<>> THEN "empty"
        ELSE IF \E k \in DOMAIN c : c[k] = "control" THEN "control_characters"
        ELSE IF \E k \in DOMAIN c : c[k] = " " THEN "whitespace"
        ELSE IF Len(c) > MaxLength THEN "too_long"
        ELSE IF at = 0 THEN "missing_at"
        ELSE IF at = 1 THEN "empty_local"
        ELSE IF at = Len(c) THEN "empty_domain"
        ELSE IF Len(local) > MaxLocal THEN "local_too_long"
        ELSE IF ~ValidLocal(local) THEN "invalid_local"
        ELSE IF ~ValidDomain(domain) THEN "invalid_domain"
        ELSE "" IN
  [ok |-> reason = "", reason |-> reason,
   address |-> IF reason = "" THEN local \o <<"@">> \o domain ELSE <<>>]

-----------------------------------------------------------------------------
(* A proposed mapping can be confirmed as it stands, unless the person was *)
(* told that the column of addresses is unknown.                           *)
ProposalIsConfirmable(rows) ==
  LET proposal == ProposeMapping(rows) IN
  ValidateMapping(proposal.columns, Len(proposal.headers))
    = (IF proposal.emailUnresolved THEN "missing_email" ELSE "none")

(* Of an accepted mapping the runner takes one column of the file for each *)
(* contact field and custom key, and a row without an address in the       *)
(* mapped column never goes on to the database.                            *)
AcceptedMappingIsUsable(columns, row) ==
  LET mapping == CompileMapping(columns)
      feeds == mapping.fields \cup {<<mapping.email, "email">>}
      single(pairs) == \A x, y \in pairs : x[2] = y[2] => x = y IN
  ValidateMapping(columns, Len(row)) = "none" =>
    /\ \A x \in feeds : x[1] \in 1..Len(row)
    /\ \A x \in mapping.custom : x[1] \in 1..Len(row)
    /\ single(feeds) /\ single(mapping.custom)
    /\ ClassifyRow(row, mapping) = "candidate" => row[mapping.email] = Address

(* normalize.ts: an accepted address is its own canonical form, and one    *)
(* written with capitals, in fullwidth letters or between invisible        *)
(* characters and spaces is the same address.                              *)
NormalFormIsStable(s) ==
  LET r == NormalizeEmail(s)
      dress == [k \in DOMAIN s |-> IF s[k] = "a" THEN (IF k % 2 = 0 THEN "A" ELSE "wide") ELSE s[k]]
  IN  r.ok => /\ NormalizeEmail(r.address) = r
              /\ NormalizeEmail(<<"nbsp", "hidden", " ">> \o dress \o <<"hidden", " ">>) = r
=============================================================================

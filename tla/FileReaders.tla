----------------------------- MODULE FileReaders -----------------------------
(***************************************************************************)
(* How an uploaded spreadsheet becomes rows of cells: the delimited-text   *)
(* parser and the export that writes what it reads, the ZIP container and  *)
(* its limits, the XML and worksheet walk of an .xlsx, the sector chains   *)
(* of an OLE2 file, and the records and shared strings of an .xls.         *)
(*                                                                         *)
(* Delimited text is a sequence of characters, one for each class the      *)
(* parser tells apart.  The text of a workbook cell is one value; columns  *)
(* and rows count from 1, sectors and bytes as in the files.               *)
(***************************************************************************)
EXTENDS Naturals, Integers, Sequences, FiniteSets, SequencesExt, ImportRules

CONSTANTS MaxCell,       \* MAX_CELL_CHARS
          MaxColumns,    \* MAX_COLUMNS
          MaxRows,       \* MAX_SPREADSHEET_ROWS
          SniffChars,    \* the sample after which the delimiter is decided
          MaxEntryBytes, \* ZipLimits
          MaxTotalBytes,
          MaxRatio,
          MaxEntries

(* Early returns: the result of the first check that applies.              *)
FirstOf(checks, otherwise) ==
  LET hits == {k \in DOMAIN checks : checks[k][1]} IN
  IF hits = {} THEN otherwise ELSE checks[Min(hits)][2]

-----------------------------------------------------------------------------
(* csv.ts.  The delimiters, in the order ties are broken.                  *)
Delimiters == <<",", ";">>

(* Characters of the first line outside quotes: a quote toggles, and a     *)
(* doubled quote inside a quoted field is two toggles.                     *)
Unquoted(text, k) == Cardinality({j \in 1..(k - 1) : text[j] = "quote"}) % 2 = 0

DetectDelimiter(sample) ==
  LET breaks == {k \in DOMAIN sample : sample[k] \in {"lf", "cr"} /\ Unquoted(sample, k)}
      lineEnd == Min(breaks \cup {Len(sample) + 1})
      count(d) == Cardinality({k \in 1..(lineEnd - 1) : sample[k] = d /\ Unquoted(sample, k)})
      best == {i \in DOMAIN Delimiters : \A j \in DOMAIN Delimiters :
                 \/ count(Delimiters[j]) < count(Delimiters[i])
                 \/ count(Delimiters[j]) = count(Delimiters[i]) /\ i <= j} IN
  Delimiters[Min(best)]

NewParser(delimiter) ==
  [delimiter |-> delimiter, field |-> <<>>, row |-> <<>>, rows |-> <<>>, inQuotes |-> FALSE,
   quoteClosed |-> FALSE, pendingCr |-> FALSE, atStart |-> TRUE]

AppendChar(p, c) == IF Len(p.field) >= MaxCell THEN p ELSE [p EXCEPT !.field = Append(@, c)]

FinishField(p) ==
  [p EXCEPT !.row = IF Len(@) < MaxColumns THEN Append(@, p.field) ELSE @, !.field = <<>>]

FinishRow(p) ==
  LET q == FinishField(p) IN
  [q EXCEPT !.rows = Append(@, q.row), !.row = <<>>, !.inQuotes = FALSE, !.quoteClosed = FALSE]

(* A character outside quotes.                                             *)
Plain(p, c) ==
  FirstOf(<<<<c = "quote" /\ p.field = <<>>, [p EXCEPT !.inQuotes = TRUE]>>,
            <<c = p.delimiter, FinishField(p)>>,
            <<c = "lf", FinishRow(p)>>,
            <<c = "cr", [p EXCEPT !.pendingCr = TRUE]>>>>, AppendChar(p, c))

(* A character inside quotes; the one after a closing quote is read again. *)
Quoted(p, c) ==
  FirstOf(<<<<p.quoteClosed /\ c = "quote", AppendChar([p EXCEPT !.quoteClosed = FALSE], c)>>,
            <<p.quoteClosed, Plain([p EXCEPT !.quoteClosed = FALSE, !.inQuotes = FALSE], c)>>,
            <<c = "quote", [p EXCEPT !.quoteClosed = TRUE]>>>>, AppendChar(p, c))

Char(p, c) ==
  LET started == [p EXCEPT !.atStart = FALSE]
      broken == IF p.pendingCr THEN FinishRow([started EXCEPT !.pendingCr = FALSE]) ELSE started IN
  FirstOf(<<<<p.atStart /\ c = "bom", started>>,
            <<p.pendingCr /\ c = "lf", broken>>,
            <<broken.inQuotes, Quoted(broken, c)>>>>, Plain(broken, c))

PushText(p, text) == FoldLeft(Char, p, text)

EndText(p) ==
  IF p.pendingCr \/ p.field # <<>> \/ p.row # <<>> THEN FinishRow(p).rows ELSE p.rows

ParseCsv(text, delimiter) == EndText(PushText(NewParser(delimiter), text))

(* runner.ts: nothing is parsed until the chunks so far hold a line feed   *)
(* or are a fair sample; the delimiter is read off that buffer.            *)
StreamDelimited(chunks) ==
  LET ready(text) == (\E k \in DOMAIN text : text[k] = "lf") \/ Len(text) >= SniffChars
      take(acc, chunk) ==
        IF acc.parser.delimiter # "" THEN [acc EXCEPT !.parser = PushText(@, chunk)]
        ELSE IF ready(acc.buffer \o chunk)
        THEN [buffer |-> <<>>, parser |-> PushText(NewParser(DetectDelimiter(acc.buffer \o chunk)),
                                                    acc.buffer \o chunk)]
        ELSE [acc EXCEPT !.buffer = @ \o chunk]
      all == FoldLeft(take, [buffer |-> <<>>, parser |-> NewParser("")], chunks) IN
  IF all.parser.delimiter # "" THEN EndText(all.parser)
  ELSE ParseCsv(all.buffer, DetectDelimiter(all.buffer))

-----------------------------------------------------------------------------
(* csv-export.ts.  "=" stands for the characters that lead a formula.      *)
Leading(text, cs) ==
  LET rest == {k \in DOMAIN text : text[k] \notin cs} IN
  IF rest = {} THEN <<>> ELSE SubSeq(text, Min(rest), Len(text))

WithoutControl(text) == Leading(text, {"tab", "lf", "cr"})

Dangerous(text) ==
  LET shown == Leading(text, {"tab", "lf", "cr", " "}) IN
  \/ shown # <<>> /\ shown[1] = "="
  \/ text # WithoutControl(text)

Neutralised(text) == IF Dangerous(text) THEN <<"'">> \o WithoutControl(text) ELSE text

Undoubled_Bug(text) ==
  IF \E k \in DOMAIN text : text[k] \in {"quote", ",", "cr", "lf"}
  THEN <<"quote">> \o Neutralised(text) \o <<"quote">> ELSE Neutralised(text)

EscapeCsvCell(text) ==
  LET safe == Neutralised(text)
      doubled == FoldLeft(LAMBDA acc, c : acc \o (IF c = "quote" THEN <<c, c>> ELSE <<c>>), <<>>, safe)
      special == \E k \in DOMAIN safe : safe[k] \in {"quote", ",", "cr", "lf", "tab"} IN
  IF special \/ Dangerous(text) THEN <<"quote">> \o doubled \o <<"quote">> ELSE safe

ToCsv(lines) ==
  LET joined(line) == FoldLeft(LAMBDA acc, cell : acc \o <<",">> \o EscapeCsvCell(cell),
                               EscapeCsvCell(Head(line)), Tail(line)) IN
  <<"bom">> \o FoldLeft(LAMBDA acc, line : acc \o joined(line) \o <<"cr", "lf">>, <<>>, lines)

-----------------------------------------------------------------------------
(* zip.ts.  An entry: the sizes its headers state, what it really inflates *)
(* to, its method, and whether its name or its local header is bad.        *)
Declared(entries) == FoldLeft(LAMBDA acc, e : acc + e.declared, 0, entries)
Packed(entries) == FoldLeft(LAMBDA acc, e : acc + e.packed, 0, entries)

OpenZip(entries) ==
  FirstOf(<<<<Len(entries) > MaxEntries, "bomb">>,
            <<\E k \in DOMAIN entries : entries[k].broken = "name", "malformed">>,
            <<Declared(entries) > MaxTotalBytes, "bomb">>,
            <<Packed(entries) > 0 /\ Declared(entries) > MaxRatio * Packed(entries), "bomb">>>>, "open")

(* The archive's running total and what was handed to the reader.          *)
ReadEntry(z, e) ==
  LET after == [z EXCEPT !.total = @ + (IF e.method = "store" THEN e.packed ELSE e.actual)] IN
  FirstOf(<<<<z.raised # "", z>>,
            <<e.declared > MaxEntryBytes, [z EXCEPT !.raised = "bomb"]>>,
            <<z.total + e.declared > MaxTotalBytes, [z EXCEPT !.raised = "bomb"]>>,
            <<e.broken = "local", [z EXCEPT !.raised = "malformed"]>>,
            <<e.method = "store", after>>,
            <<e.method # "deflate", [z EXCEPT !.raised = "unsupported"]>>,
            <<e.actual > MaxEntryBytes, [z EXCEPT !.raised = "bomb"]>>,
            <<after.total > MaxTotalBytes, [after EXCEPT !.raised = "bomb"]>>>>,
          [after EXCEPT !.inflated = Append(@, e.actual)])

ReadEntries(entries) == FoldLeft(ReadEntry, [total |-> 0, inflated |-> <<>>, raised |-> ""], entries)

-----------------------------------------------------------------------------
(* xml.ts: what scanXml reports of a document; a comment or instruction is *)
(* skipped, an unfinished tag ends the scan, a declaration refuses it all. *)
ScanXml(tokens) ==
  LET ends == {k \in DOMAIN tokens : tokens[k] = "<unfinished"} IN
  IF \E k \in DOMAIN tokens : tokens[k] = "<!DOCTYPE>" THEN <<>>
  ELSE SelectSeq(SubSeq(tokens, 1, Min(ends \cup {Len(tokens) + 1}) - 1),
                 LAMBDA t : t \notin {"<!-- -->", "<? ?>"})

(* xlsx.ts.  Shared strings: the text in <t>, outside phonetic runs.       *)
SharedText(tokens) ==
  LET step(s, t) ==
        FirstOf(<<<<t = "<rPh>", [s EXCEPT !.phonetic = TRUE]>>,
                  <<t = "</rPh>", [s EXCEPT !.phonetic = FALSE]>>,
                  <<t = "<t>", [s EXCEPT !.inText = TRUE]>>,
                  <<t = "</t>", [s EXCEPT !.inText = FALSE]>>,
                  <<s.inText /\ ~s.phonetic, [s EXCEPT !.text = t]>>>>, s) IN
  FoldLeft(step, [text |-> "", phonetic |-> FALSE, inText |-> FALSE], ScanXml(tokens)).text

(* The raw value of a cell: the text in <v> or <t>, never in <f>.          *)
CellText(tokens) ==
  LET step(s, t) ==
        FirstOf(<<<<t \in {"<v>", "<t>"}, [s EXCEPT !.inValue = TRUE]>>,
                  <<t \in {"</v>", "</t>"}, [s EXCEPT !.inValue = FALSE]>>,
                  <<t = "<f>", [s EXCEPT !.inFormula = TRUE]>>,
                  <<t = "</f>", [s EXCEPT !.inFormula = FALSE]>>,
                  <<s.inValue /\ ~s.inFormula, [s EXCEPT !.text = t]>>>>, s) IN
  FoldLeft(step, [text |-> "", inValue |-> FALSE, inFormula |-> FALSE], ScanXml(tokens)).text

DecodeCellValue(raw, type, shared) ==
  FirstOf(<<<<type = "s", IF raw \in DOMAIN shared THEN SharedText(shared[raw]) ELSE "">>,
            <<type = "e", "">>>>, raw)

(* The first sheet: the part the workbook relates it to, or by its name.   *)
FirstSheetPart(book) ==
  FirstOf(<<<<book.related # "", book.related>>,
            <<"sheet1" \in DOMAIN book.parts, "sheet1">>>>,
          CHOOSE p \in DOMAIN book.parts : TRUE)

FlushCell(row, k, value) ==
  LET padded == row \o [j \in 1..(k - 1 - Len(row)) |-> ""] IN
  IF value = "" /\ k > Len(row) THEN row
  ELSE IF k > MaxColumns THEN padded
  ELSE IF k <= Len(row) THEN [row EXCEPT ![k] = value]
  ELSE Append(padded, value)

ReadRow(cells, shared) ==
  LET step(acc, c) ==
        LET k == IF c.ref = 0 THEN acc.next ELSE c.ref IN
        [row |-> FlushCell(acc.row, k, DecodeCellValue(CellText(c.content), c.type, shared)),
         next |-> k + 1] IN
  FoldLeft(step, [row |-> <<>>, next |-> 1], cells).row

NoTable(reason) == [reason |-> reason, rows |-> <<>>]

ReadXlsx(book) ==
  LET rows == [k \in DOMAIN book.parts[FirstSheetPart(book)] |->
                 ReadRow(book.parts[FirstSheetPart(book)][k], book.shared)] IN
  IF FirstSheetPart(book) \notin DOMAIN book.parts THEN NoTable("malformed")
  ELSE IF Len(rows) > MaxRows THEN NoTable("too_many_rows")
  ELSE IF rows = <<>> THEN NoTable("empty")
  ELSE [reason |-> "", rows |-> rows]

-----------------------------------------------------------------------------
(* ole2.ts.  A sector holds two bytes, a mini sector one.                  *)
EndOfChain == -2
FreeSector == -1
Ends == {EndOfChain, FreeSector}
SectorBytes == 2

(* The sectors of a chain; refused when it leaves the table or repeats.    *)
Walked(ok, sectors) == [ok |-> ok, sectors |-> sectors]

RECURSIVE Chain(_, _, _)
Chain(fat, sector, walked) ==
  IF sector \in Ends THEN Walked(TRUE, walked)
  ELSE IF sector \notin DOMAIN fat \/ Contains(walked, sector) THEN Walked(FALSE, walked)
  ELSE Chain(fat, fat[sector], Append(walked, sector))

(* The allocation table: the sectors the header names, then those of the   *)
(* DIFAT sectors it continues in.                                          *)
RECURSIVE ReadFat(_, _, _, _, _)
ReadFat(listed, difat, at, count, seen) ==
  IF at \in Ends \/ Len(listed) >= count THEN Walked(TRUE, listed)
  ELSE IF at \in seen \/ at \notin DOMAIN difat THEN Walked(FALSE, listed)
  ELSE ReadFat(listed \o difat[at].sectors, difat, difat[at].next, count, seen \cup {at})

Joined(parts) == FoldLeft(LAMBDA acc, p : acc \o p, <<>>, parts)

(* The bytes of a stream: its chain's sectors, cut at the stated size.     *)
ReadFromFat(disk, fat, start, size) ==
  LET chain == Chain(fat, start, <<>>)
      bytes == Joined([k \in DOMAIN chain.sectors |-> disk[chain.sectors[k]]]) IN
  SubSeq(bytes, 1, IF Len(bytes) < size THEN Len(bytes) ELSE size)

(* A small stream lies in mini sectors of the root's stream; there a chain *)
(* that leaves the table just ends.                                        *)
ReadFromMiniFat(mini, miniFat, start, size) ==
  LET chain == Chain(miniFat, start, <<>>)
      bytes == [k \in DOMAIN chain.sectors |-> mini[chain.sectors[k] + 1]] IN
  SubSeq(bytes, 1, IF Len(bytes) < size THEN Len(bytes) ELSE size)

(* The table itself lies in sectors, in the order ReadFat finds them.      *)
Fat(file) ==
  LET found == ReadFat(file.listed, file.difat, file.difatStart, file.tableCount, {}).sectors
      entries == Joined([k \in DOMAIN found |-> file.tables[found[k]]]) IN
  [sector \in 0..(Len(entries) - 1) |-> entries[sector + 1]]

(* file.root and file.entry are [start, size]; file.cutoff separates them. *)
ReadStream(file) ==
  LET mini == ReadFromFat(file.disk, Fat(file), file.root.start, file.root.size) IN
  IF file.entry.size >= file.cutoff
  THEN ReadFromFat(file.disk, Fat(file), file.entry.start, file.entry.size)
  ELSE ReadFromMiniFat(mini, file.miniFat, file.entry.start, file.entry.size)

-----------------------------------------------------------------------------
(* xls.ts.  The shared strings: bytes in a record and its CONTINUEs.  A    *)
(* byte holds 0..3 here, so a wide character is low + 4 * high.  A string  *)
(* is its length, its flags (1 wide, 2 with a formatting run), the number  *)
(* of run bytes if any, the characters, the run.                           *)
Byte(c) ==
  IF c.block \in DOMAIN c.blocks /\ c.at \in DOMAIN c.blocks[c.block] THEN c.blocks[c.block][c.at] ELSE 0
Exhausted(c) == c.block > Len(c.blocks)
Rest(c) == IF Exhausted(c) THEN 0 ELSE Len(c.blocks[c.block]) - c.at + 1
AdvanceBlock(c) == [c EXCEPT !.block = @ + 1, !.at = 1]

RECURSIVE Ready(_)
Ready(c) == IF Rest(c) <= 0 /\ ~Exhausted(c) THEN Ready(AdvanceBlock(c)) ELSE c
After(c) == [Ready(c) EXCEPT !.at = @ + 1]

RECURSIVE Skip(_, _)
Skip(c, n) == IF n = 0 \/ Exhausted(Ready(c)) THEN c ELSE Skip(After(c), n - 1)

(* The characters of a string: at a block boundary a fresh flags byte says *)
(* how wide the remainder is.                                              *)
RECURSIVE Chars(_, _, _, _)
Chars(c, left, wide, out) ==
  LET next == AdvanceBlock(c)
      unit == IF wide THEN 2 ELSE 1
      low == Byte(c)
      high == IF wide THEN Byte([c EXCEPT !.at = @ + 1]) ELSE 0 IN
  IF left = 0 \/ Exhausted(c) THEN [cursor |-> c, text |-> out]
  ELSE IF Rest(c) < unit
  THEN IF Exhausted(next) THEN [cursor |-> next, text |-> out]
       ELSE Chars(After(next), left, Byte(Ready(next)) % 2 = 1, out)
  ELSE Chars([c EXCEPT !.at = @ + unit], left - 1, wide, Append(out, low + 4 * high))

ReadString(c) ==
  LET flags == Byte(Ready(After(c)))
      rich == flags \div 2 = 1
      body == After(After(c))
      runs == IF rich THEN Byte(Ready(body)) ELSE 0
      read == Chars(IF rich THEN After(body) ELSE body, Byte(Ready(c)), flags % 2 = 1, <<>>) IN
  [cursor |-> Skip(read.cursor, runs), text |-> read.text]

ReadSst(blocks, unique) ==
  LET read[n \in 0..unique] ==
        IF n = 0 THEN [cursor |-> [blocks |-> blocks, block |-> 1, at |-> 1], strings |-> <<>>]
        ELSE IF Exhausted(read[n - 1].cursor) THEN read[n - 1]
        ELSE LET r == ReadString(read[n - 1].cursor) IN
             [cursor |-> r.cursor, strings |-> Append(read[n - 1].strings, r.text)] IN
  read[unique].strings

(* builder.set: cells by row and column, the rows capped as touched.       *)
SetCell(b, row, col, value) ==
  LET rows == {key[1] : key \in DOMAIN b.cells} IN
  IF col > MaxColumns THEN b
  ELSE IF row \notin rows /\ Cardinality(rows) >= MaxRows THEN [b EXCEPT !.capped = TRUE]
  ELSE [b EXCEPT !.cells = [key \in DOMAIN @ \cup {<<row, col>>} |->
                              IF key = <<row, col>> THEN value ELSE b.cells[key]]]

(* Which part of the stream follows: only the first worksheet is read.     *)
Substream(b, record) ==
  FirstOf(<<<<record.id = "BOF" /\ record.value = "globals", "globals">>,
            <<record.id = "BOF" /\ record.value = "worksheet" /\ ~b.seen, "worksheet">>,
            <<record.id = "BOF", "other">>,
            <<record.id = "EOF" /\ b.sub = "worksheet", "other">>>>, b.sub)

SheetValue(b, record) ==
  IF record.id = "LABELSST"
  THEN IF record.value \in DOMAIN b.strings THEN b.strings[record.value] ELSE ""
  ELSE record.value

(* A formula's cached text comes in the STRING record that follows it.     *)
SheetRecord(b, record) ==
  LET placed == SetCell(b, record.row, record.col, SheetValue(b, record)) IN
  IF record.id = "FORMULASTR" THEN [b EXCEPT !.pending = <<record.row, record.col>>]
  ELSE IF record.id = "STRING"
  THEN IF b.pending = <<>> THEN b
       ELSE [SetCell(b, b.pending[1], b.pending[2], record.value) EXCEPT !.pending = <<>>]
  ELSE IF record.id = "FORMULA" THEN placed
  ELSE IF record.id \in {"LABELSST", "LABEL", "NUMBER", "BLANK"} THEN [placed EXCEPT !.pending = <<>>]
  ELSE [b EXCEPT !.pending = <<>>]

ReadRecord(b, record) ==
  LET at == [b EXCEPT !.sub = Substream(b, record),
               !.seen = @ \/ (record.id = "BOF" /\ record.value = "worksheet"),
               !.strings = IF record.id = "SST" THEN @ \o record.value ELSE @] IN
  IF b.capped \/ at.sub # "worksheet" THEN at ELSE SheetRecord(at, record)

FilledRow(row) == \E k \in DOMAIN row : row[k] # ""

ReadXls(records) ==
  LET b == FoldLeft(ReadRecord, [sub |-> "globals", seen |-> FALSE, strings |-> <<>>, pending |-> <<>>,
                                 cells |-> <<>>, capped |-> FALSE], records)
      last(part) == Max({key[part] : key \in DOMAIN b.cells})
      table == [r \in 1..last(1) |-> [c \in 1..last(2) |->
                  IF <<r, c>> \in DOMAIN b.cells THEN b.cells[<<r, c>>] ELSE ""]]
      used == {r \in DOMAIN table : FilledRow(table[r])} IN
  IF b.capped THEN NoTable("too_many_rows")
  ELSE IF DOMAIN b.cells = {} THEN NoTable("empty")
  ELSE [reason |-> "", rows |-> SubSeq(table, 1, Max(used \cup {0}))]

-----------------------------------------------------------------------------
(* What the product exports it reads back: the same lines and cells, save  *)
(* that a cell a spreadsheet would run is read with the mark before it.    *)
ExportReadsBack(lines) ==
  ParseCsv(ToCsv(lines), ",")
    = [k \in DOMAIN lines |-> [j \in DOMAIN lines[k] |-> Neutralised(lines[k][j])]]

(* csv.ts: "a chunk boundary may fall inside a quoted field".  A file is   *)
(* read the same however its download is cut, provided its header line     *)
(* ends at its first line feed and fits the sample.                        *)
ChunkingIsInvisible(text, cut) ==
  LET feeds == {k \in DOMAIN text : text[k] = "lf"} IN
  (feeds # {} /\ Unquoted(text, Min(feeds)) /\ Min(feeds) < SniffChars) =>
    StreamDelimited(<<SubSeq(text, 1, cut), SubSeq(text, cut + 1, Len(text))>>)
      = ParseCsv(text, DetectDelimiter(text))

(* The same sheet gives the same filled rows, each value in its own        *)
(* column, whichever workbook format and whichever of the format's ways of *)
(* writing a cell it was saved with.                                       *)
WorkbooksAgree(grid, book, records) ==
  LET width == Len(grid[1])
      cells(row) == [c \in 1..width |-> IF c \in DOMAIN row THEN row[c] ELSE ""]
      table(rows) == SelectSeq([r \in DOMAIN rows |-> cells(rows[r])], FilledRow)
      full == SelectSeq(grid, FilledRow) IN
  full # <<>> /\ Len(grid) <= MaxRows =>
    /\ table(ReadXlsx(book).rows) = full
    /\ table(ReadXls(records).rows) = full

(* Strings are read whole however the writer cut them into records and     *)
(* however wide it wrote each piece.                                       *)
StringsReadBack(strings, blocks) == ReadSst(blocks, Len(strings)) = strings

(* A stream is read whole wherever the file put its sectors.               *)
StreamReadsBack(file, bytes) == ReadStream(file) = bytes

(* ZipLimits: whatever the headers claim, what is inflated for the readers *)
(* stays within the limits, entry by entry and in total.                   *)
InflatedWithinLimits(entries) ==
  OpenZip(entries) = "open" =>
    LET got == ReadEntries(entries).inflated IN
    /\ \A k \in DOMAIN got : got[k] <= MaxEntryBytes
    /\ FoldLeft(+, 0, got) <= MaxTotalBytes
=============================================================================

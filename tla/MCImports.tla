------------------------------ MODULE MCImports ------------------------------
(***************************************************************************)
(* The import pipeline for TLC: the run of the imports of one workspace,   *)
(* and beside it, as initial states that never move, bounded inputs of the *)
(* rules and of the file readers.                                          *)
(***************************************************************************)
EXTENDS ImportRun, FileReaders

VARIABLES part, \* "run", or which rule or reader the input is for
          case  \* the input

MCFile == [i \in Imports |-> <<"a", "invalid", "a", "b">>]

HeaderCells == {Blank, <<"email">>, <<"email", 2>>, <<"work email">>, <<"account">>, <<"company">>, <<"notes">>, Address, Number}
DataRows == {<<Address, <<"notes">>, Blank>>, <<Number, Address, Address>>, <<Blank, Blank, Blank>>, <<<<"email">>,<<"company">>,<<"notes">>>>}
Sheets == {<<h>> \o d : h \in [1..3 -> HeaderCells], d \in {<<a>> : a \in DataRows} \cup {<<a,b>> : a,b \in DataRows}}
Targets == {Ignore, FieldTarget("email"), FieldTarget("company"), CustomTarget(<<"notes">>), CustomTarget(<<"notes",2>>)}
Column == [index : 1..3, target : Targets]
Mappings == UNION {[1..n -> Column] : n \in 0..2}
Rows2 == [1..2 -> {Blank, Address, Number, TooLong}]
Letters == {"a","A","@",".","-"," ","hidden","control"}
Texts == {l \o <<"@">> \o d \o e : l \in UNION {[1..n -> Letters] : n \in 0..2}, d \in UNION {[1..n -> {"a",".","-","@"}] : n \in 0..3}, e \in {<<>>, <<".","a","a">>, <<".","a">>,<<"A","a"," ">>}}
UpTo(S, n) == UNION {[1..k -> S] : k \in 0..n}
CellChars == {"x", ",", "quote", "lf", "cr", "=", " "}
ExportCases == {<<<<c>>>> : c \in UpTo(CellChars, 4)} \cup
   {<<<<a, b>>, <<b, a>>>> : a \in UpTo(CellChars \ {" "}, 2), b \in UpTo({"x", "=", "quote", "cr"}, 2)}
ChunkCases == {[text |-> t, cut |-> n] : t \in UNION {{h \o b : b \in [1..k -> {"x",";","quote","lf","cr"}]} : k \in 3..4, h \in {<<"x",";">>,<<"quote",",","quote",";">>,<<"bom","x",",">>}} , n \in 0..7}
Grids == {<<r1, r2, r3>> : r1, r2 \in [1..2 -> {"", "v", "w"}], r3 \in {<<"","">>, <<"v","">>}}
Styles == [refs : BOOLEAN, blanks : {"left out", "styled"}, text : {"s", "n", "f"}, gaps : BOOLEAN]
Strings == <<"v", "w">>
IndexOf(v) == IF v = "v" THEN "1" ELSE "2"
XCell(v, c, st) ==
  [ref |-> IF st.refs THEN c ELSE 0, type |-> IF st.text = "s" /\ v # "" THEN "s" ELSE "",
   content |-> IF v = "" THEN <<>>
               ELSE IF st.text = "s" THEN <<"<v>", IndexOf(v), "</v>">>
               ELSE IF st.text = "f" THEN <<"<f>", "1+1", "</f>", "<!-- -->", "<v>", v, "</v>">>
               ELSE <<"<t>", v, "</t>">>]
XRow(row, st) ==
  LET cs == [c \in DOMAIN row |-> XCell(row[c], c, st)]
      keep(c) == st.refs = FALSE \/ st.blanks = "styled" \/ c.content # <<>> IN
  SelectSeq(cs, keep)
XBook(grid, st) ==
  LET rows == IF st.gaps THEN SelectSeq(grid, FilledRow) ELSE grid IN
  [related |-> IF st.refs THEN "sheet7" ELSE "",
   parts |-> [p \in {"sheet1","sheet7"} |-> IF (p = "sheet7") = st.refs THEN [k \in DOMAIN rows |-> XRow(rows[k], st)]
               ELSE <<<<XCell("w", 1, st)>>>>],
   shared |-> [k \in {"1","2"} |-> IF k = "1" THEN <<"<t>","v","</t>","<rPh>","<t>","w","</t>","</rPh>">> ELSE <<"<t>","w","</t>">>]]
Rec(id, r, c, v) == [id |-> id, row |-> r, col |-> c, value |-> v]
Cells(grid, st) ==
  LET keys == SetToSeq({<<r, c>> \in (1..Len(grid)) \X (1..2) : st.blanks = "styled" \/ grid[r][c] # ""})
      one(k) == LET v == grid[k[1]][k[2]] IN
         IF v = "" THEN <<Rec("BLANK", k[1], k[2], "")>>
         ELSE IF st.text = "s" THEN <<Rec("LABELSST", k[1], k[2], IF v = "v" THEN 1 ELSE 2)>>
         ELSE IF st.text = "f" THEN <<Rec("FORMULASTR", k[1], k[2], ""), Rec("STRING", 0, 0, v)>>
         ELSE <<Rec("LABEL", k[1], k[2], v)>> IN
  Joined([i \in DOMAIN keys |-> one(IF st.refs THEN keys[i] ELSE keys[Len(keys) + 1 - i])])
XlsRecs(grid, st) ==
  <<Rec("BOF",0,0,"globals"), Rec("SST",0,0,Strings), Rec("EOF",0,0,""), Rec("BOF",0,0,"worksheet")>>
   \o Cells(grid, st) \o <<Rec("EOF",0,0,""), Rec("BOF",0,0,"worksheet"), Rec("LABEL",1,1,"w"), Rec("EOF",0,0,"")>>
GridCases == {[grid |-> g, style |-> st] : g \in Grids, st \in Styles}
Piece(codes, wide) == Joined([k \in DOMAIN codes |-> IF wide = 1 THEN <<codes[k] % 4, codes[k] \div 4>> ELSE <<codes[k]>>])
Narrow(codes) == \A k \in DOMAIN codes : codes[k] < 4
SstStrings == UpTo({1, 6}, 3)
\* a string written with flag w1, cut after n characters, the rest with flag w2; rich adds one run of 2 bytes
Written(s, n, w1, w2, rich) ==
  LET a == SubSeq(s, 1, n)  b == SubSeq(s, n + 1, Len(s))
      head == <<Len(s), w1 + 2 * rich>> \o (IF rich = 1 THEN <<2>> ELSE <<>>)
      run == IF rich = 1 THEN <<3, 1>> ELSE <<>> IN
  IF n = Len(s) THEN <<head \o Piece(s, w1) \o run>>
  ELSE <<head \o Piece(a, w1), <<w2>> \o Piece(b, w2) \o run>>
SstCases == {x \in [a : SstStrings, b : SstStrings, n : 0..3, w1 : 0..1, w2 : 0..1, rich : 0..1, joined : BOOLEAN] :
   /\ x.n <= Len(x.a)
   /\ x.w1 = 1 \/ Narrow(SubSeq(x.a, 1, x.n))
   /\ x.w2 = 1 \/ Narrow(SubSeq(x.a, x.n + 1, Len(x.a)))}
Blocks(x) ==
  LET first == Written(x.a, x.n, x.w1, x.w2, x.rich)
      second == Written(x.b, Len(x.b), 1, 1, 0) IN
  IF x.joined THEN [first EXCEPT ![Len(first)] = @ \o second[1]] ELSE first \o second
Perms(n, S) == {p \in [1..n -> S] : \A i, j \in 1..n : i # j => p[i] # p[j]}
Linked(order, S) == [s \in S |-> IF \E k \in 1..(Len(order)-1) : order[k] = s THEN order[(CHOOSE k \in 1..Len(order) : order[k] = s) + 1]
    ELSE IF \E k \in DOMAIN order : order[k] = s THEN EndOfChain ELSE FreeSector]
ByteAt == <<11, 12, 13, 14, 15, 16>>
OleCases == {x \in {[order |-> o, size |-> n, cutoff |-> c, mini |-> m] : o \in Perms(3, 0..3), n \in 1..4, c \in {3, 9}, m \in Perms(4, 0..3)} : x.size < x.cutoff \/ x.mini = <<0, 1, 2, 3>>}
(* The allocation table is written half in a sector the header lists and   *)
(* half in one its DIFAT sector lists.                                     *)
Tabled(file, fat) ==
  [file EXCEPT !.tables = [t \in {7, 8} |-> IF t = 7 THEN <<fat[0], fat[1]>> ELSE <<fat[2], fat[3]>>]]

OleBlank == [listed |-> <<7>>, difatStart |-> 9, tableCount |-> 2, tables |-> <<>>,
             difat |-> [d \in {9} |-> [sectors |-> <<8>>, next |-> EndOfChain]],
             disk |-> <<>>, miniFat |-> <<>>, cutoff |-> 0,
             root |-> [start |-> EndOfChain, size |-> 0], entry |-> [start |-> 0, size |-> 0]]

PlaceOf(order, v) == CHOOSE k \in DOMAIN order : order[k] = v
Laid(order, pair(_)) == [s \in 0..3 |-> IF s \in ToSet(order) THEN pair(PlaceOf(order, s)) ELSE <<0, 0>>]
MiniByte(x, i) == IF i \in ToSet(x.mini) THEN ByteAt[PlaceOf(x.mini, i)] ELSE 0

OleFile(x) ==
  Tabled(
  IF x.size >= x.cutoff
  THEN [OleBlank EXCEPT !.disk = Laid(x.order, LAMBDA k : <<ByteAt[2 * k - 1], ByteAt[2 * k]>>),
          !.cutoff = x.cutoff, !.entry = [start |-> x.order[1], size |-> x.size]]
  ELSE [OleBlank EXCEPT !.disk = Laid(x.order, LAMBDA k : <<MiniByte(x, 2 * k - 2), MiniByte(x, 2 * k - 1)>>),
          !.miniFat = Linked(x.mini, 0..5), !.cutoff = x.cutoff,
          !.root = [start |-> x.order[1], size |-> 6], !.entry = [start |-> x.mini[1], size |-> x.size]],
  Linked(x.order, 0..3))

Entries == [declared : {1, 3, 5}, packed : {1, 2}, actual : {1, 4, 6}, method : {"deflate", "store"}, broken : {"", "local"}]
ZipCases == UNION {[1..n -> Entries] : n \in 1..2} \cup {<<a,b,a>> : a,b \in Entries}

MCInit ==
  /\ ImportInit
  /\ \/ part = "run" /\ case = "none"
     \/ part = "file" /\ case \in FileCases
     \/ part = "sheet" /\ case \in Sheets
     \/ part = "mapping" /\ case \in [columns : Mappings, row : Rows2]
     \/ part = "text" /\ case \in Texts
     \/ part = "export" /\ case \in ExportCases
     \/ part = "chunk" /\ case \in {x \in ChunkCases : x.cut <= Len(x.text)}
     \/ part = "grid" /\ case \in GridCases
     \/ part = "sst" /\ case \in SstCases
     \/ part = "ole" /\ case \in OleCases
     \/ part = "zip" /\ case \in ZipCases

MCNext == part = "run" /\ ImportNext /\ UNCHANGED <<part, case>>

MCSpec == MCInit /\ [][MCNext]_<<importVars, part, case>> /\ (part = "run" => ImportFairness)

(* What the rules of an import decide: the reader that fits the bytes, a   *)
(* mapping a person can confirm, one column for each field, one form for   *)
(* each address.                                                           *)
ImportDecisionsHold ==
  /\ part = "file" => ReaderMatchesBytes(case, CheckFileContent(case))
  /\ part = "sheet" => ProposalIsConfirmable(case)
  /\ part = "mapping" => AcceptedMappingIsUsable(case.columns, case.row)
  /\ part = "text" => NormalFormIsStable(case)

(* What the readers make of a file is what was written into it, however it *)
(* was cut, chained or encoded, and within the limits.                     *)
FilesReadBack ==
  /\ part = "export" => ExportReadsBack(case)
  /\ part = "chunk" => ChunkingIsInvisible(case.text, case.cut)
  /\ part = "grid" => WorkbooksAgree(case.grid, XBook(case.grid, case.style), XlsRecs(case.grid, case.style))
  /\ part = "sst" => StringsReadBack(<<case.a, case.b>>, Blocks(case))
  /\ part = "ole" => StreamReadsBack(OleFile(case), SubSeq(ByteAt, 1, case.size))
  /\ part = "zip" => InflatedWithinLimits(case)
=============================================================================

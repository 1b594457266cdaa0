----------------------------- MODULE SymbolTool -----------------------------
(***************************************************************************)
(* avatar_symbols.py: main() (lines 335-371) reading the symbol table of   *)
(* an objdump listing (read_symbol_table_from_file, 24-78), parsing it     *)
(* (SymbolAnalyzer.parse_symbols, 87-160) and printing one of three        *)
(* reports: the section list (319-333), the symbols of one section         *)
(* (266-317) or the section analysis (199-264).                            *)
(*                                                                         *)
(* A line of the file is a sequence of columns, each a sequence of         *)
(* whitespace-free tokens: a symbol row has five columns (address, the     *)
(* non-blank groups of objdump's seven-character flags field, section,     *)
(* size, name) and any other line has one.  What the code sees of a line   *)
(* is Split, the tokens of all its columns in order; which tokens are 16   *)
(* hex digits, which parse as hexadecimal and which contain which is       *)
(* given by constants.  Formatting and the order of printed rows are left  *)
(* out: a report is the set of rows it prints.                             *)
(***************************************************************************)
EXTENDS Naturals, Sequences, FiniteSets

CONSTANTS
    Tok,            \* the whitespace-free tokens lines are made of
    Hex16,          \* the tokens matching ^[0-9a-fA-F]{16}$
    Hexable,        \* the tokens int(t, 16) accepts
    HexVal,         \* HexVal[t]: int(t, 16)
    InStr(_, _),    \* InStr(a, b): the Python test  a in b  on two tokens
    Files,          \* the files the listing may be
    SectionArgs     \* the values of --section considered ("" when absent)

(* The empty string: an absent type field or --section argument.          *)
NoText == ""

(* A line: one column of text, or the five columns of a symbol row.       *)
Line == {l \in Seq(Seq(Tok)) : Len(l) \in {1, 5}}

ASSUME SymbolToolAssumption ==
    /\ Hex16 \subseteq Hexable /\ Hexable \subseteq Tok
    /\ HexVal \in [Hexable -> Nat]
    /\ NoText \in Tok /\ NoText \in SectionArgs /\ SectionArgs \subseteq Tok
    /\ Files \subseteq Seq(Line)

VARIABLES
    lines,          \* f.readlines() of the listing
    fileState,      \* "ok", "missing" or "undecodable" (not UTF-8)
    listSections,   \* args.list_sections
    sectionArg,     \* args.section
    pos,            \* the line the loop of lines 68-71 is at
    tableEnd,       \* end_idx
    symbolLines,    \* symbol_lines, the result of read_symbol_table_from_file
    idx,            \* line_num of the parse loop
    symbols,        \* self.symbols
    layout,         \* the sections dict of analyze_memory_layout
    k,              \* the position of its loop over self.symbols
    report,         \* which report was printed: "none", "list", "section", "analysis"
    out,            \* the rows it printed
    stage           \* "read", "collect", "parse", "layout", "done" or "failed" (exit 1)

vars == <<lines, fileState, listSections, sectionArg, pos, tableEnd, symbolLines, idx, symbols,
          layout, k, report, out, stage>>

-----------------------------------------------------------------------------
(* re.split(r'\s+', line.strip()): the tokens of every column in order.    *)
Split(l) == IF Len(l) = 5 THEN l[1] \o l[2] \o l[3] \o l[4] \o l[5] ELSE l[1]

(* The stripped text of line 46 and the prefix of line 58.                 *)
SymbolTableMarker == <<"SYMBOL", "TABLE:">>
TextDisassemblyMarker == <<"Disassembly", "of", "section", ".text:">>

IsTextDisassembly(l) ==
    Len(Split(l)) >= 4 /\ SubSeq(Split(l), 1, 4) = TextDisassemblyMarker

(* The least element of a set of line numbers.                            *)
First(S) == CHOOSE i \in S : \A j \in S : i <= j

(* Lines 43-48: where the table starts, the line after the first          *)
(* "SYMBOL TABLE:" line (0 when there is none).                            *)
TableStart(f) ==
    LET starts == {i \in 1..Len(f) : Split(f[i]) = SymbolTableMarker}
    IN  IF starts = {} THEN 0 ELSE First(starts) + 1

(* Lines 54-64: where it ends, the first "Disassembly of section .text:"   *)
(* line from s on, or one past the last line.                              *)
TableEnd(f, s) ==
    LET ends == {i \in s..Len(f) : IsTextDisassembly(f[i])}
    IN  IF ends = {} THEN Len(f) + 1 ELSE First(ends)

(* Lines 133-140: '*ABS*' and what int(size_str, 16) rejects give 0.       *)
SizeOf(t) == IF t # "*ABS*" /\ t \in Hexable THEN HexVal[t] ELSE 0

(* Mutant: the six-part branch of line 124 taken from five parts on.     *)
HasTypeFromFive(parts) == Len(parts) >= 5

(* Lines 118-124: a line of six or more parts has a type column.           *)
HasType(parts) == Len(parts) >= 6

(* Lines 104-131 and 142-152: the symbol of a line split into parts, with  *)
(* at least five parts and a 16-digit address.  Five parts have no type;   *)
(* from six on, the third part is the type and the sixth and later the     *)
(* name.                                                                   *)
Symbol(parts, n) ==
    LET six == HasType(parts) IN
    [address |-> HexVal[parts[1]],
     flags   |-> parts[2],
     type    |-> IF six THEN parts[3] ELSE NoText,
     section |-> IF six THEN parts[4] ELSE parts[3],
     size    |-> SizeOf(IF six THEN parts[5] ELSE parts[4]),
     name    |-> IF six THEN SubSeq(parts, 6, Len(parts)) ELSE <<parts[5]>>,
     line_num |-> n]

IsSymbolLine(parts) == Len(parts) >= 5 /\ parts[1] \in Hex16

(* filter_by_section (166-168): the symbols whose section contains s.      *)
FilterBySection(s) == {j \in 1..Len(symbols) : InStr(s, symbols[j].section)}

(* Mutant: a new section opens with count 1 before line 214 adds one.    *)
OpenedCountOne(sym) ==
    [min_addr |-> sym.address, max_addr |-> sym.address, count |-> 1, symbol_size_sum |-> 0]

(* Lines 204-210: the entry a section's first symbol opens.                *)
Opened(sym) ==
    [min_addr |-> sym.address, max_addr |-> sym.address, count |-> 0, symbol_size_sum |-> 0]

(* Lines 212-215: an entry after one more symbol of its section.           *)
Updated(r, sym) ==
    [min_addr |-> IF sym.address < r.min_addr THEN sym.address ELSE r.min_addr,
     max_addr |-> IF sym.address > r.max_addr THEN sym.address ELSE r.max_addr,
     count |-> r.count + 1,
     symbol_size_sum |-> r.symbol_size_sum + sym.size]

(* Lines 202-215: the sections dict after one more symbol.                 *)
AddToLayout(L, sym) ==
    LET t == sym.section
        r == IF t \in DOMAIN L THEN L[t] ELSE Opened(sym)
    IN  [u \in DOMAIN L \cup {t} |-> IF u = t THEN Updated(r, sym) ELSE L[u]]

(* Lines 218-224: a section's size is the span of its addresses, or the    *)
(* sum of its symbols' sizes when they all share one address.              *)
ActualSize(r) ==
    IF r.min_addr = r.max_addr THEN r.symbol_size_sum ELSE r.max_addr - r.min_addr

-----------------------------------------------------------------------------
(* Mutant: the parse loop numbers its lines from 0, as enumerate() does   *)
(* without its start argument.                                            *)
InitFromZero ==
    /\ lines \in Files
    /\ fileState \in {"ok", "missing", "undecodable"}
    /\ listSections \in BOOLEAN
    /\ sectionArg \in SectionArgs
    /\ pos = 0 /\ tableEnd = 0
    /\ symbolLines = <<>> /\ idx = 0 /\ symbols = <<>>
    /\ layout = [t \in {} |-> {}] /\ k = 1
    /\ report = "none" /\ out = {}
    /\ stage = "read"

(* Lines 339-349: the arguments; line 100: the parse loop counts from 1.   *)
Init ==
    /\ lines \in Files
    /\ fileState \in {"ok", "missing", "undecodable"}
    /\ listSections \in BOOLEAN
    /\ sectionArg \in SectionArgs
    /\ pos = 0 /\ tableEnd = 0
    /\ symbolLines = <<>> /\ idx = 1 /\ symbols = <<>>
    /\ layout = [t \in {} |-> {}] /\ k = 1
    /\ report = "none" /\ out = {}
    /\ stage = "read"

(* Lines 35-64 and 357-360: a missing or unreadable file, or one without *)
(* a "SYMBOL TABLE:" line, gives no lines and main() exits with status 1;  *)
(* otherwise the bounds of the table are found.                            *)
FindTable ==
    /\ stage = "read"
    /\ IF fileState # "ok" \/ TableStart(lines) = 0
       THEN /\ stage' = "failed"
            /\ UNCHANGED <<pos, tableEnd>>
       ELSE /\ pos' = TableStart(lines)
            /\ tableEnd' = TableEnd(lines, TableStart(lines))
            /\ stage' = "collect"
    /\ UNCHANGED <<lines, fileState, listSections, sectionArg, symbolLines, idx,
                   symbols, layout, k, report, out>>

(* Lines 68-71: one iteration of the loop keeping the nonblank lines.      *)
CollectLine ==
    /\ stage = "collect"
    /\ pos < tableEnd
    /\ symbolLines' = IF Split(lines[pos]) # <<>> THEN Append(symbolLines, lines[pos])
                      ELSE symbolLines
    /\ pos' = pos + 1
    /\ UNCHANGED <<lines, fileState, listSections, sectionArg, tableEnd, idx,
                   symbols, layout, k, report, out, stage>>

(* Lines 73-74 and 357-362: the table is returned; main() exits with       *)
(* status 1 when it is empty and parses it otherwise.                      *)
EndCollect ==
    /\ stage = "collect"
    /\ pos = tableEnd
    /\ stage' = IF symbolLines = <<>> THEN "failed" ELSE "parse"
    /\ UNCHANGED <<lines, fileState, listSections, sectionArg, pos, tableEnd,
                   symbolLines, idx, symbols, layout, k, report, out>>

(* Lines 100-157: one iteration of the parse loop.  A line with fewer than *)
(* five parts or without a 16-digit address is passed over.                *)
ParseLine ==
    /\ stage = "parse"
    /\ idx <= Len(symbolLines)
    /\ LET parts == Split(symbolLines[idx]) IN
          symbols' = IF IsSymbolLine(parts) THEN Append(symbols, Symbol(parts, idx))
                     ELSE symbols
    /\ idx' = idx + 1
    /\ UNCHANGED <<lines, fileState, listSections, sectionArg, pos, tableEnd,
                   symbolLines, layout, k, report, out, stage>>

(* Lines 365-366 and 319-333: --list-sections prints every distinct        *)
(* section with the number of symbols filter_by_section finds for it.      *)
ListSections ==
    /\ stage = "parse"
    /\ idx > Len(symbolLines)
    /\ listSections
    /\ report' = "list"
    /\ out' = {[section |-> t, count |-> Cardinality(FilterBySection(t))] :
                  t \in {symbols[j].section : j \in 1..Len(symbols)}}
    /\ stage' = "done"
    /\ UNCHANGED <<lines, fileState, listSections, sectionArg, pos, tableEnd,
                   symbolLines, idx, symbols, layout, k>>

(* Lines 367-368 and 266-317: --section prints the symbols                 *)
(* filter_by_section finds, or a "No symbols found" line when there are    *)
(* none; the --sort key only orders the rows.                              *)
PrintSectionSymbols ==
    /\ stage = "parse"
    /\ idx > Len(symbolLines)
    /\ ~listSections /\ sectionArg # NoText
    /\ report' = "section"
    /\ out' = FilterBySection(sectionArg)
    /\ stage' = "done"
    /\ UNCHANGED <<lines, fileState, listSections, sectionArg, pos, tableEnd,
                   symbolLines, idx, symbols, layout, k>>

(* Lines 369-371 and 238: the default report starts analyze_memory_layout. *)
StartAnalysis ==
    /\ stage = "parse"
    /\ idx > Len(symbolLines)
    /\ ~listSections /\ sectionArg = NoText
    /\ stage' = "layout"
    /\ UNCHANGED <<lines, fileState, listSections, sectionArg, pos, tableEnd,
                   symbolLines, idx, symbols, layout, k, report, out>>

(* Lines 202-215: one iteration of the loop over self.symbols.             *)
AnalyzeSymbol ==
    /\ stage = "layout"
    /\ k <= Len(symbols)
    /\ layout' = AddToLayout(layout, symbols[k])
    /\ k' = k + 1
    /\ UNCHANGED <<lines, fileState, listSections, sectionArg, pos, tableEnd,
                   symbolLines, idx, symbols, report, out, stage>>

(* Lines 218-226 and 239-260: the sizes are computed and every section is  *)
(* printed with its count, first and last address and size.               *)
PrintSectionAnalysis ==
    /\ stage = "layout"
    /\ k > Len(symbols)
    /\ report' = "analysis"
    /\ out' = {[section |-> t, count |-> layout[t].count, start |-> layout[t].min_addr,
                end |-> layout[t].max_addr, size |-> ActualSize(layout[t])] :
                  t \in DOMAIN layout}
    /\ stage' = "done"
    /\ UNCHANGED <<lines, fileState, listSections, sectionArg, pos, tableEnd,
                   symbolLines, idx, symbols, layout, k>>

(* The process has exited.                                                 *)
Exited == stage \in {"done", "failed"} /\ UNCHANGED vars

Next ==
    \/ FindTable \/ CollectLine \/ EndCollect \/ ParseLine \/ ListSections \/ PrintSectionSymbols
    \/ StartAnalysis \/ AnalyzeSymbol \/ PrintSectionAnalysis \/ Exited

Spec == Init /\ [][Next]_vars

-----------------------------------------------------------------------------
SymbolRecord ==
    [address: Nat, flags: Tok, type: Tok, section: Tok, size: Nat,
     name: Seq(Tok), line_num: Nat]

TypeOK ==
    /\ lines \in Seq(Line) /\ symbolLines \in Seq(Line)
    /\ fileState \in {"ok", "missing", "undecodable"}
    /\ listSections \in BOOLEAN /\ sectionArg \in SectionArgs
    /\ idx \in 1..(Len(symbolLines) + 1)
    /\ symbols \in Seq(SymbolRecord)
    /\ k \in 1..(Len(symbols) + 1)
    /\ \A t \in DOMAIN layout :
          layout[t] \in [min_addr: Nat, max_addr: Nat, count: Nat, symbol_size_sum: Nat]
    /\ pos \in Nat /\ tableEnd \in Nat
    /\ report \in {"none", "list", "section", "analysis"}
    /\ stage \in {"read", "collect", "parse", "layout", "done", "failed"}

(* The symbol rows of the table: five columns and a 16-digit address.      *)
RowLines ==
    {i \in 1..Len(symbolLines) : /\ Len(symbolLines[i]) = 5
                                 /\ Len(symbolLines[i][1]) = 1
                                 /\ symbolLines[i][1][1] \in Hex16}

(* parse_symbols reads objdump's columns as the docstring of lines 89-96   *)
(* describes them: the symbols so far are the rows of the table before the *)
(* loop position, once each and in file order, each with the address,      *)
(* section, size and name of its row's columns, whatever the number of     *)
(* flag groups before the section column.                                  *)
ParsedAsColumns ==
    /\ {symbols[j].line_num : j \in 1..Len(symbols)} = {i \in RowLines : i < idx}
    /\ \A i, j \in 1..Len(symbols) : i < j => symbols[i].line_num < symbols[j].line_num
    /\ \A j \in 1..Len(symbols) :
          LET l == symbolLines[symbols[j].line_num] IN
          /\ symbols[j].address = HexVal[l[1][1]]
          /\ symbols[j].section = l[3][1]
          /\ symbols[j].size = SizeOf(l[4][1])
          /\ symbols[j].name = l[5]

(* The listings whose rows have the two layouts the docstring of lines    *)
(* 89-96 names: a one-token address, section and size column, one or two  *)
(* flag groups, and a one-token name after a single flag group; and whose *)
(* other lines do not split into five or more parts led by 16 hex digits.  *)
RowShaped(l) ==
    IF Len(l) = 5
    THEN /\ Len(l[1]) = 1 /\ Len(l[3]) = 1 /\ Len(l[4]) = 1
         /\ Len(l[2]) \in {1, 2}
         /\ Len(l[5]) >= 1
         /\ Len(l[2]) = 1 => Len(l[5]) = 1
    ELSE ~IsSymbolLine(Split(l))

DocumentedLayout(f) == \A i \in 1..Len(f) : RowShaped(f[i])

(* The symbols of section t the layout loop has passed.                    *)
Seen(t) == {j \in 1..(k - 1) : symbols[j].section = t}

(* At every point of analyze_memory_layout's loop the dict has one entry   *)
(* per section met so far, holding how many of its symbols were met and   *)
(* the least and greatest of their addresses.                              *)
SectionExtentsMatch ==
    /\ DOMAIN layout = {symbols[j].section : j \in 1..(k - 1)}
    /\ \A t \in DOMAIN layout :
          /\ layout[t].count = Cardinality(Seen(t))
          /\ \A j \in Seen(t) : layout[t].min_addr <= symbols[j].address
                                /\ symbols[j].address <= layout[t].max_addr
          /\ \E j \in Seen(t) : symbols[j].address = layout[t].min_addr
          /\ \E j \in Seen(t) : symbols[j].address = layout[t].max_addr

(* The section analysis gives each section a start address and a size     *)
(* (the "actual size" of line 217) that cover every symbol in it.          *)
SectionSizeCoversSymbols ==
    report = "analysis" =>
        \A r \in out, j \in 1..Len(symbols) :
            symbols[j].section = r.section =>
                symbols[j].address + symbols[j].size <= r.start + r.size

=============================================================================

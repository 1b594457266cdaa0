------------------------- MODULE SymbolToolProofs --------------------------
(***************************************************************************)
(* Proofs about SymbolTool, for every set of tokens and every listing.     *)
(* The main result: at every point of analyze_memory_layout's loop, the    *)
(* sections dict holds, for each section met so far and for no other, the *)
(* number of its symbols met and the least and greatest of their           *)
(* addresses.  It rests on the inductive invariant IInv, which adds to     *)
(* TypeOK that the layout loop has not started while the listing is read  *)
(* and parsed (self.symbols only grows before the loop), and that the      *)
(* collecting loop stays within the listing.                               *)
(***************************************************************************)
EXTENDS SymbolTool, WellFoundedInduction, FiniteSetTheorems, SequenceTheorems, TLAPS

(* A nonempty set of natural numbers has a least element, so the first     *)
(* marker line of lines 45-48 and 56-60 is well defined.                   *)
LEMMA LeastElement ==
    ASSUME NEW S \in SUBSET Nat, S # {}
    PROVE  \E m \in S : \A j \in S : m <= j
<1>1. \E x \in S : \A y \in S : ~(<<y, x>> \in OpToRel(<, Nat))
  BY NatLessThanWellFounded, WFMin
<1>2. PICK x \in S : \A y \in S : ~(<<y, x>> \in OpToRel(<, Nat))
  BY <1>1
<1>3. \A y \in S : y < x => <<y, x>> \in OpToRel(<, Nat)
  BY Zenon DEF OpToRel
<1>4. \A y \in S : ~(y < x)
  BY <1>2, <1>3, Zenon
<1>. QED  BY <1>4

LEMMA FirstIsLeast ==
    ASSUME NEW S \in SUBSET Nat, S # {}
    PROVE  First(S) \in S /\ \A j \in S : First(S) <= j
BY LeastElement DEF First

(* The table found by lines 43-64 lies within the listing.                 *)
LEMMA TableBounds ==
    ASSUME NEW f \in Seq(Line), TableStart(f) # 0
    PROVE  /\ TableStart(f) \in 1..(Len(f) + 1)
           /\ TableEnd(f, TableStart(f)) \in TableStart(f)..(Len(f) + 1)
<1>. DEFINE starts == {i \in 1..Len(f) : Split(f[i]) = SymbolTableMarker}
            s == TableStart(f)
            ends == {i \in s..Len(f) : IsTextDisassembly(f[i])}
<1>1. starts # {} /\ s = First(starts) + 1
  BY DEF TableStart
<1>2. First(starts) \in starts
  <2>1. starts \in SUBSET Nat
    OBVIOUS
  <2>. QED  BY <1>1, <2>1, FirstIsLeast
<1>3. s \in 1..(Len(f) + 1)
  BY <1>1, <1>2
<1>4. CASE ends = {}
  BY <1>3, <1>4 DEF TableEnd
<1>5. CASE ends # {}
  <2>1. ends \in SUBSET Nat
    BY <1>3
  <2>2. First(ends) \in ends
    BY <1>5, <2>1, FirstIsLeast
  <2>. QED  BY <1>3, <1>5, <2>2 DEF TableEnd
<1>. QED  BY <1>3, <1>4, <1>5

(* What parse_symbols appends is a symbol record.                          *)
LEMMA SymbolType ==
    ASSUME NEW l \in Line, NEW n \in Nat, IsSymbolLine(Split(l))
    PROVE  Symbol(Split(l), n) \in SymbolRecord
<1>. USE SymbolToolAssumption
<1>1. Split(l) \in Seq(Tok)
  <2>1. l \in Seq(Seq(Tok)) /\ Len(l) \in {1, 5}
    BY DEF Line
  <2>2. CASE Len(l) = 5
    <3>1. \A i \in 1..5 : l[i] \in Seq(Tok)
      BY <2>1, <2>2, ElementOfSeq
    <3>. QED  BY <2>2, <3>1 DEF Split
  <2>3. CASE Len(l) = 1
    <3>1. 1 \in 1..Len(l)
      BY <2>3
    <3>2. l[1] \in Seq(Tok)
      BY <2>1, <3>1, ElementOfSeq
    <3>. QED  BY <2>3, <3>2 DEF Split
  <2>. QED  BY <2>1, <2>2, <2>3
<1>. DEFINE parts == Split(l)
<1>2. Len(parts) >= 5 /\ parts[1] \in Hex16
  BY DEF IsSymbolLine
<1>3. \A i \in 1..Len(parts) : parts[i] \in Tok
  BY <1>1
<1>4. SubSeq(parts, 6, Len(parts)) \in Seq(Tok)
  BY <1>1, <1>2, SubSeqProperties
<1>5. \A t \in Tok : SizeOf(t) \in Nat
  BY DEF SizeOf
<1>6. HexVal[parts[1]] \in Nat
  BY <1>2
<1>7. <<parts[5]>> \in Seq(Tok)
  BY <1>2, <1>3
<1>8. /\ parts[2] \in Tok /\ parts[3] \in Tok /\ parts[4] \in Tok
      /\ SizeOf(parts[4]) \in Nat /\ SizeOf(parts[5]) \in Nat
  BY <1>2, <1>3, <1>5
<1>9. NoText \in Tok
  OBVIOUS
<1>. HIDE DEF NoText
<1>10. CASE HasType(parts)
  <2>1. Symbol(parts, n) =
          [address |-> HexVal[parts[1]], flags |-> parts[2], type |-> parts[3],
           section |-> parts[4], size |-> SizeOf(parts[5]),
           name |-> SubSeq(parts, 6, Len(parts)), line_num |-> n]
    BY <1>10 DEF Symbol
  <2>. QED  BY <1>4, <1>6, <1>8, <2>1 DEF SymbolRecord
<1>11. CASE ~HasType(parts)
  <2>1. Symbol(parts, n) =
          [address |-> HexVal[parts[1]], flags |-> parts[2], type |-> NoText,
           section |-> parts[3], size |-> SizeOf(parts[4]),
           name |-> <<parts[5]>>, line_num |-> n]
    BY <1>11 DEF Symbol
  <2>. QED  BY <1>6, <1>7, <1>8, <1>9, <2>1 DEF SymbolRecord
<1>. QED  BY <1>10, <1>11

-----------------------------------------------------------------------------
(* The inductive invariant.                                                *)
IInv ==
    /\ TypeOK
    /\ SectionExtentsMatch
    /\ stage \in {"read", "collect", "parse"} => k = 1
    /\ stage = "collect" => 1 <= pos /\ pos <= tableEnd /\ tableEnd <= Len(lines) + 1

LEMMA InitIInv == Init => IInv
<1>. SUFFICES ASSUME Init PROVE IInv
  OBVIOUS
<1>. USE SymbolToolAssumption
<1>1. TypeOK
  <2>1. lines \in Seq(Line)
    BY DEF Init
  <2>2. symbolLines \in Seq(Line) /\ symbols \in Seq(SymbolRecord)
    BY EmptySeq DEF Init
  <2>3. idx \in 1..(Len(symbolLines) + 1) /\ k \in 1..(Len(symbols) + 1)
    BY DEF Init
  <2>4. DOMAIN layout = {}
    BY DEF Init
  <2>. QED  BY <2>1, <2>2, <2>3, <2>4 DEF Init, TypeOK
<1>2. SectionExtentsMatch
  <2>1. DOMAIN layout = {} /\ k = 1
    BY DEF Init
  <2>. QED  BY <2>1 DEF SectionExtentsMatch
<1>. QED  BY <1>1, <1>2 DEF Init, IInv

(* One pass of lines 202-215 keeps the dict exact for the longer prefix.   *)
LEMMA AnalyzeSymbolExtents ==
    ASSUME TypeOK, SectionExtentsMatch, AnalyzeSymbol
    PROVE  SectionExtentsMatch'
<1>. DEFINE sym == symbols[k]
            t == sym.section
            r == IF t \in DOMAIN layout THEN layout[t] ELSE Opened(sym)
<1>1. /\ k \in 1..Len(symbols) /\ k' = k + 1 /\ symbols' = symbols
      /\ layout' = [u \in DOMAIN layout \cup {t} |-> IF u = t THEN Updated(r, sym) ELSE layout[u]]
  <2>1. /\ k \in Nat /\ k >= 1 /\ k <= Len(symbols)
        /\ k' = k + 1 /\ symbols' = symbols
        /\ layout' = AddToLayout(layout, sym)
    BY DEF AnalyzeSymbol, TypeOK
  <2>2. AddToLayout(layout, sym)
          = [u \in DOMAIN layout \cup {t} |-> IF u = t THEN Updated(r, sym) ELSE layout[u]]
    BY DEF AddToLayout
  <2>. QED  BY <2>1, <2>2
<1>2. sym \in SymbolRecord
  BY <1>1 DEF TypeOK
<1>3. DOMAIN layout' = {symbols'[j].section : j \in 1..(k' - 1)}
  BY <1>1 DEF SectionExtentsMatch
<1>4. ASSUME NEW u \in DOMAIN layout', u # t
      PROVE  /\ layout'[u] = layout[u]
             /\ Seen(u)' = Seen(u)
             /\ u \in DOMAIN layout
  BY <1>1, <1>4 DEF Seen
<1>. SUFFICES ASSUME NEW u \in DOMAIN layout'
              PROVE  /\ layout'[u].count = Cardinality(Seen(u)')
                     /\ \A j \in Seen(u)' : layout'[u].min_addr <= symbols'[j].address
                                           /\ symbols'[j].address <= layout'[u].max_addr
                     /\ \E j \in Seen(u)' : symbols'[j].address = layout'[u].min_addr
                     /\ \E j \in Seen(u)' : symbols'[j].address = layout'[u].max_addr
  BY <1>3 DEF SectionExtentsMatch
<1>5. CASE u # t
  <2>1. layout'[u] = layout[u] /\ Seen(u)' = Seen(u) /\ u \in DOMAIN layout
    BY <1>4, <1>5
  <2>2. symbols' = symbols
    BY <1>1
  <2>. QED  BY <2>1, <2>2 DEF SectionExtentsMatch
<1>6. CASE u = t
  <2>1. Seen(u)' = Seen(u) \cup {k} /\ k \notin Seen(u)
    BY <1>1, <1>6 DEF Seen
  <2>2. IsFiniteSet(Seen(u))
    <3>1. Seen(u) \subseteq 1..(k - 1) /\ k - 1 \in Nat
      BY <1>1 DEF Seen
    <3>2. IsFiniteSet(1..(k - 1))
      BY <3>1, FS_Interval
    <3>. QED  BY <3>1, <3>2, FS_Subset
  <2>3. Cardinality(Seen(u)') = Cardinality(Seen(u)) + 1
    BY <2>1, <2>2, FS_AddElement
  <2>4. sym.address \in Nat
    BY <1>2 DEF SymbolRecord
  <2>5. CASE u \in DOMAIN layout
    <3>1. layout[u] \in [min_addr: Nat, max_addr: Nat, count: Nat, symbol_size_sum: Nat]
      BY <2>5 DEF TypeOK
    <3>2. layout'[u] = Updated(layout[u], sym)
      BY <1>1, <1>6, <2>5
    <3>3. /\ layout[u].count = Cardinality(Seen(u))
          /\ \A j \in Seen(u) : layout[u].min_addr <= symbols[j].address
                                /\ symbols[j].address <= layout[u].max_addr
          /\ \E j \in Seen(u) : symbols[j].address = layout[u].min_addr
          /\ \E j \in Seen(u) : symbols[j].address = layout[u].max_addr
      BY <2>5 DEF SectionExtentsMatch
    <3>4. symbols' = symbols /\ symbols[k] = sym
      BY <1>1
    <3>5. layout'[u].count = Cardinality(Seen(u)')
      BY <2>3, <3>2, <3>3 DEF Updated
    <3>6. \A j \in Seen(u)' : layout'[u].min_addr <= symbols'[j].address
                              /\ symbols'[j].address <= layout'[u].max_addr
      <4>. SUFFICES ASSUME NEW j \in Seen(u)'
                    PROVE  /\ layout'[u].min_addr <= symbols[j].address
                           /\ symbols[j].address <= layout'[u].max_addr
        BY <3>4
      <4>1. CASE j = k
        BY <2>4, <3>1, <3>2, <3>4, <4>1 DEF Updated
      <4>2. CASE j \in Seen(u)
        <5>0. j \in 1..Len(symbols) /\ symbols \in Seq(SymbolRecord)
          BY <1>1, <4>2 DEF Seen, TypeOK
        <5>1. symbols[j] \in SymbolRecord
          BY <5>0, ElementOfSeq
        <5>3. symbols[j].address \in Nat
          BY <5>1 DEF SymbolRecord
        <5>2. layout[u].min_addr <= symbols[j].address /\ symbols[j].address <= layout[u].max_addr
          BY <3>3, <4>2
        <5>. QED  BY <2>4, <3>1, <3>2, <5>3, <5>2 DEF Updated
      <4>. QED  BY <2>1, <4>1, <4>2
    <3>7. \E j \in Seen(u)' : symbols'[j].address = layout'[u].min_addr
      BY <2>1, <3>2, <3>3, <3>4 DEF Updated
    <3>8. \E j \in Seen(u)' : symbols'[j].address = layout'[u].max_addr
      BY <2>1, <3>2, <3>3, <3>4 DEF Updated
    <3>. QED  BY <3>5, <3>6, <3>7, <3>8
  <2>6. CASE u \notin DOMAIN layout
    <3>1. Seen(u) = {}
      BY <2>6 DEF SectionExtentsMatch, Seen
    <3>2. layout'[u] = Updated(Opened(sym), sym) /\ Seen(u)' = {k}
      BY <1>1, <1>6, <2>1, <2>6, <3>1
    <3>3. Cardinality(Seen(u)') = 1
      BY <2>3, <3>1, FS_EmptySet
    <3>4. symbols' = symbols /\ symbols[k] = sym
      BY <1>1
    <3>. QED  BY <2>4, <3>2, <3>3, <3>4 DEF Updated, Opened
  <2>. QED  BY <2>5, <2>6
<1>. QED  BY <1>5, <1>6

(* A step that leaves the symbols, the dict and the loop index alone       *)
(* keeps the dict exact.                                                   *)
LEMMA ExtentsUnchanged ==
    ASSUME SectionExtentsMatch, UNCHANGED <<symbols, layout, k>>
    PROVE  SectionExtentsMatch'
BY DEF SectionExtentsMatch, Seen

(* The conjuncts of TypeOK that only the reading and parsing steps change. *)
TypeRest ==
    /\ fileState \in {"ok", "missing", "undecodable"}
    /\ listSections \in BOOLEAN /\ sectionArg \in SectionArgs
    /\ \A t \in DOMAIN layout :
          layout[t] \in [min_addr: Nat, max_addr: Nat, count: Nat, symbol_size_sum: Nat]
    /\ report \in {"none", "list", "section", "analysis"}
    /\ stage \in {"read", "collect", "parse", "layout", "done", "failed"}

LEMMA TypeOKSplit ==
    TypeOK <=> /\ lines \in Seq(Line) /\ symbolLines \in Seq(Line)
               /\ idx \in 1..(Len(symbolLines) + 1)
               /\ symbols \in Seq(SymbolRecord)
               /\ k \in 1..(Len(symbols) + 1)
               /\ pos \in Nat /\ tableEnd \in Nat
               /\ TypeRest
BY DEF TypeOK, TypeRest

LEMMA FindTableIInv ==
    ASSUME IInv, FindTable
    PROVE  IInv'
<1>1. TypeOK /\ SectionExtentsMatch /\ stage = "read" /\ k = 1
  BY DEF IInv, FindTable
<1>2. lines \in Seq(Line) /\ TypeRest /\ UNCHANGED <<symbols, layout, k, symbolLines, idx>>
  BY <1>1, TypeOKSplit DEF FindTable
<1>3. SectionExtentsMatch'
  BY <1>1, <1>2, ExtentsUnchanged
<1>4. CASE fileState # "ok" \/ TableStart(lines) = 0
  <2>1. stage' = "failed" /\ UNCHANGED <<pos, tableEnd>>
    BY <1>4 DEF FindTable
  <2>2. TypeRest'
    BY <1>2, <2>1 DEF FindTable, TypeRest
  <2>3. TypeOK'
    BY <1>1, <1>2, <2>1, <2>2 DEF FindTable, TypeOK, TypeRest
  <2>. QED  BY <1>3, <2>1, <2>3 DEF IInv
<1>5. CASE ~(fileState # "ok" \/ TableStart(lines) = 0)
  <2>1. /\ pos' = TableStart(lines) /\ tableEnd' = TableEnd(lines, TableStart(lines))
        /\ stage' = "collect"
    BY <1>5 DEF FindTable
  <2>2. pos' \in 1..(Len(lines) + 1) /\ tableEnd' \in pos'..(Len(lines) + 1)
    BY <1>2, <1>5, <2>1, TableBounds
  <2>3. TypeRest'
    BY <1>2, <2>1 DEF FindTable, TypeRest
  <2>4. lines' = lines
    BY DEF FindTable
  <2>5. TypeOK'
    BY <1>1, <1>2, <2>1, <2>2, <2>3, <2>4 DEF FindTable, TypeOK, TypeRest
  <2>. QED  BY <1>1, <1>2, <1>3, <2>1, <2>2, <2>4, <2>5 DEF IInv
<1>. QED  BY <1>4, <1>5

LEMMA CollectLineIInv ==
    ASSUME IInv, CollectLine
    PROVE  IInv'
<1>1. /\ TypeOK /\ SectionExtentsMatch /\ stage = "collect" /\ k = 1
      /\ 1 <= pos /\ pos < tableEnd /\ tableEnd <= Len(lines) + 1
  BY DEF IInv, CollectLine
<1>2. lines \in Seq(Line) /\ symbolLines \in Seq(Line) /\ TypeRest /\ pos \in Nat /\ tableEnd \in Nat
  BY <1>1, TypeOKSplit
<1>3. lines[pos] \in Line
  <2>1. pos \in 1..Len(lines)
    BY <1>1, <1>2
  <2>. QED  BY <1>2, <2>1, ElementOfSeq
<1>4. symbolLines' \in Seq(Line) /\ Len(symbolLines) <= Len(symbolLines')
  BY <1>2, <1>3, AppendProperties DEF CollectLine
<1>5. SectionExtentsMatch'
  BY <1>1, ExtentsUnchanged DEF CollectLine
<1>6. TypeOK'
  BY <1>1, <1>2, <1>4 DEF CollectLine, TypeOK, TypeRest
<1>7. pos' = pos + 1 /\ UNCHANGED <<tableEnd, lines, k, stage>>
  BY DEF CollectLine
<1>. QED  BY <1>1, <1>2, <1>5, <1>6, <1>7 DEF IInv

LEMMA EndCollectIInv ==
    ASSUME IInv, EndCollect
    PROVE  IInv'
<1>1. TypeOK /\ SectionExtentsMatch /\ k = 1 /\ stage' \in {"failed", "parse"}
  BY DEF IInv, EndCollect
<1>2. SectionExtentsMatch'
  BY <1>1, ExtentsUnchanged DEF EndCollect
<1>3. TypeOK'
  BY <1>1 DEF EndCollect, TypeOK
<1>. QED  BY <1>1, <1>2, <1>3 DEF IInv, EndCollect

LEMMA ParseLineIInv ==
    ASSUME IInv, ParseLine
    PROVE  IInv'
<1>. DEFINE parts == Split(symbolLines[idx])
<1>1. TypeOK /\ SectionExtentsMatch /\ stage = "parse" /\ k = 1 /\ idx \in 1..Len(symbolLines)
  BY DEF IInv, ParseLine, TypeOK
<1>2. symbolLines \in Seq(Line) /\ symbols \in Seq(SymbolRecord) /\ TypeRest
  BY <1>1, TypeOKSplit
<1>3. symbolLines[idx] \in Line
  BY <1>1, <1>2, ElementOfSeq
<1>4. symbols' \in Seq(SymbolRecord) /\ Len(symbols) <= Len(symbols')
  <2>1. CASE IsSymbolLine(parts)
    <3>1. Symbol(parts, idx) \in SymbolRecord
      BY <1>1, <1>3, <2>1, SymbolType
    <3>. QED  BY <1>2, <2>1, <3>1, AppendProperties DEF ParseLine
  <2>2. CASE ~IsSymbolLine(parts)
    BY <1>2, <2>2 DEF ParseLine
  <2>. QED  BY <2>1, <2>2
<1>5. DOMAIN layout = {}
  BY <1>1 DEF SectionExtentsMatch
<1>6. SectionExtentsMatch'
  BY <1>1, <1>5 DEF ParseLine, SectionExtentsMatch
<1>7. TypeOK'
  BY <1>1, <1>2, <1>4 DEF ParseLine, TypeOK, TypeRest
<1>. QED  BY <1>1, <1>6, <1>7 DEF IInv, ParseLine

(* The three reports end the run: only report, out and stage change.       *)
LEMMA ReportIInv ==
    ASSUME IInv, ListSections \/ PrintSectionSymbols \/ PrintSectionAnalysis
    PROVE  IInv'
<1>1. TypeOK /\ SectionExtentsMatch
  BY DEF IInv
<1>2. /\ UNCHANGED <<lines, fileState, listSections, sectionArg, pos, tableEnd,
                     symbolLines, idx, symbols, layout, k>>
      /\ report' \in {"list", "section", "analysis"} /\ stage' = "done"
  BY DEF ListSections, PrintSectionSymbols, PrintSectionAnalysis
<1>3. SectionExtentsMatch'
  BY <1>1, <1>2, ExtentsUnchanged
<1>4. TypeOK'
  BY <1>1, <1>2 DEF TypeOK
<1>. QED  BY <1>2, <1>3, <1>4 DEF IInv

LEMMA StartAnalysisIInv ==
    ASSUME IInv, StartAnalysis
    PROVE  IInv'
<1>1. TypeOK /\ SectionExtentsMatch
  BY DEF IInv
<1>2. SectionExtentsMatch'
  BY <1>1, ExtentsUnchanged DEF StartAnalysis
<1>3. TypeOK'
  BY <1>1 DEF StartAnalysis, TypeOK
<1>. QED  BY <1>2, <1>3 DEF IInv, StartAnalysis

LEMMA AnalyzeSymbolIInv ==
    ASSUME IInv, AnalyzeSymbol
    PROVE  IInv'
<1>1. TypeOK /\ SectionExtentsMatch /\ k \in 1..Len(symbols) /\ stage = "layout"
  BY DEF IInv, AnalyzeSymbol, TypeOK
<1>2. SectionExtentsMatch'
  BY <1>1, AnalyzeSymbolExtents
<1>3. symbols[k] \in SymbolRecord
  BY <1>1, ElementOfSeq DEF TypeOK
<1>4. \A t \in DOMAIN layout' :
         layout'[t] \in [min_addr: Nat, max_addr: Nat, count: Nat, symbol_size_sum: Nat]
  <2>. DEFINE sym == symbols[k]
              r == IF sym.section \in DOMAIN layout THEN layout[sym.section] ELSE Opened(sym)
              R == [min_addr: Nat, max_addr: Nat, count: Nat, symbol_size_sum: Nat]
  <2>1. sym.address \in Nat /\ sym.size \in Nat
    BY <1>3 DEF SymbolRecord
  <2>2. r \in R
    BY <1>1, <2>1 DEF TypeOK, Opened
  <2>3. Updated(r, sym) \in R
    BY <2>1, <2>2 DEF Updated
  <2>4. layout' = [u \in DOMAIN layout \cup {sym.section} |->
                     IF u = sym.section THEN Updated(r, sym) ELSE layout[u]]
    BY DEF AnalyzeSymbol, AddToLayout
  <2>. QED  BY <1>1, <2>3, <2>4 DEF TypeOK
<1>5. TypeOK'
  BY <1>1, <1>4 DEF AnalyzeSymbol, TypeOK
<1>. QED  BY <1>1, <1>2, <1>5 DEF IInv, AnalyzeSymbol

LEMMA StutterIInv ==
    ASSUME IInv, UNCHANGED vars
    PROVE  IInv'
<1>1. TypeOK /\ SectionExtentsMatch /\ UNCHANGED <<symbols, layout, k>>
  BY DEF IInv, vars
<1>2. SectionExtentsMatch'
  BY <1>1, ExtentsUnchanged
<1>3. TypeOK'
  BY <1>1 DEF TypeOK, vars
<1>. QED  BY <1>2, <1>3 DEF IInv, vars

LEMMA NextIInv == IInv /\ [Next]_vars => IInv'
<1>. SUFFICES ASSUME IInv, [Next]_vars PROVE IInv'
  OBVIOUS
<1>1. CASE FindTable  BY <1>1, FindTableIInv
<1>2. CASE CollectLine  BY <1>2, CollectLineIInv
<1>3. CASE EndCollect  BY <1>3, EndCollectIInv
<1>4. CASE ParseLine  BY <1>4, ParseLineIInv
<1>5. CASE ListSections \/ PrintSectionSymbols \/ PrintSectionAnalysis
  BY <1>5, ReportIInv
<1>6. CASE StartAnalysis  BY <1>6, StartAnalysisIInv
<1>7. CASE AnalyzeSymbol  BY <1>7, AnalyzeSymbolIInv
<1>8. CASE Exited \/ UNCHANGED vars  BY <1>8, StutterIInv DEF Exited
<1>. QED  BY <1>1, <1>2, <1>3, <1>4, <1>5, <1>6, <1>7, <1>8 DEF Next

(* Every state of a run is well typed (the records parse_symbols builds    *)
(* included).                                                              *)
THEOREM TypeCorrect == Spec => []TypeOK
<1>1. IInv => TypeOK
  BY DEF IInv
<1>. QED  BY InitIInv, NextIInv, <1>1, PTL DEF Spec

(* analyze_memory_layout's dict holds, for every section met so far, the  *)
(* exact count and the least and greatest address of its symbols, at      *)
(* every iteration of the loop of lines 202-215.                           *)
THEOREM LayoutExtents == Spec => []SectionExtentsMatch
<1>1. IInv => SectionExtentsMatch
  BY DEF IInv
<1>. QED  BY InitIInv, NextIInv, <1>1, PTL DEF Spec

-----------------------------------------------------------------------------
(* The parts after the f flag groups, the section and the size are the    *)
(* tokens of the name.                                                     *)
NameAfter(parts, f, name) == \A i \in 1..Len(name) : parts[f + 3 + i] = name[i]

(* The columns of a five-column row of the documented layouts.            *)
LEMMA RowColumns ==
    ASSUME NEW l \in Line, Len(l) = 5, RowShaped(l)
    PROVE  /\ l[1] \in Seq(Tok) /\ l[2] \in Seq(Tok) /\ l[3] \in Seq(Tok)
           /\ l[4] \in Seq(Tok) /\ l[5] \in Seq(Tok)
           /\ Len(l[1]) = 1 /\ Len(l[3]) = 1 /\ Len(l[4]) = 1
           /\ Len(l[2]) \in {1, 2} /\ Len(l[5]) \in Nat /\ Len(l[5]) >= 1
           /\ Len(l[2]) = 1 => Len(l[5]) = 1
<1>1. l \in Seq(Seq(Tok))
  BY DEF Line
<1>2. \A c \in 1..5 : l[c] \in Seq(Tok)
  BY <1>1, ElementOfSeq
<1>3. Len(l[5]) \in Nat
  BY <1>2, LenProperties
<1>4. /\ Len(l[1]) = 1 /\ Len(l[3]) = 1 /\ Len(l[4]) = 1
      /\ Len(l[2]) \in {1, 2} /\ Len(l[5]) >= 1
      /\ Len(l[2]) = 1 => Len(l[5]) = 1
  BY DEF RowShaped
<1>. QED  BY <1>2, <1>3, <1>4

(* The tokens re.split gives of a five-column row of the documented       *)
(* layouts: the address first, then the flag groups, the section, the      *)
(* size and the name.                                                      *)
LEMMA RowParts ==
    ASSUME NEW l \in Line, Len(l) = 5, RowShaped(l)
    PROVE  LET f == Len(l[2]) IN
           /\ Split(l) \in Seq(Tok)
           /\ Len(Split(l)) = f + 3 + Len(l[5])
           /\ Split(l)[1] = l[1][1]
           /\ Split(l)[f + 2] = l[3][1]
           /\ Split(l)[f + 3] = l[4][1]
           /\ NameAfter(Split(l), f, l[5])
<1>. DEFINE f == Len(l[2])
            s12 == l[1] \o l[2]
            s123 == s12 \o l[3]
            s1234 == s123 \o l[4]
            parts == s1234 \o l[5]
<1>1. /\ l[1] \in Seq(Tok) /\ l[2] \in Seq(Tok) /\ l[3] \in Seq(Tok)
      /\ l[4] \in Seq(Tok) /\ l[5] \in Seq(Tok)
      /\ Len(l[1]) = 1 /\ Len(l[3]) = 1 /\ Len(l[4]) = 1
      /\ f \in {1, 2} /\ Len(l[5]) \in Nat
  BY RowColumns
<1>2. /\ s12 \in Seq(Tok) /\ Len(s12) = 1 + f /\ s12[1] = l[1][1]
  BY <1>1, ConcatProperties
<1>3. /\ s123 \in Seq(Tok) /\ Len(s123) = f + 2
      /\ s123[1] = l[1][1] /\ s123[f + 2] = l[3][1]
  BY <1>1, <1>2, ConcatProperties
<1>4. /\ s1234 \in Seq(Tok) /\ Len(s1234) = f + 3
      /\ s1234[1] = l[1][1] /\ s1234[f + 2] = l[3][1] /\ s1234[f + 3] = l[4][1]
  BY <1>1, <1>3, ConcatProperties
<1>. HIDE DEF s12, s123, s1234
<1>5. /\ parts \in Seq(Tok) /\ Len(parts) = Len(s1234) + Len(l[5])
      /\ \A i \in 1..(Len(s1234) + Len(l[5])) :
            parts[i] = IF i <= Len(s1234) THEN s1234[i] ELSE l[5][i - Len(s1234)]
  <2>1. s1234 \in Seq(Tok) /\ l[5] \in Seq(Tok)
    BY <1>1, <1>4
  <2>. QED  BY <2>1, ConcatProperties
<1>6. /\ parts[1] = l[1][1] /\ parts[f + 2] = l[3][1] /\ parts[f + 3] = l[4][1]
  BY <1>1, <1>4, <1>5
<1>7. NameAfter(parts, f, l[5])
  BY <1>1, <1>4, <1>5 DEF NameAfter
<1>8. Split(l) = parts
  BY DEF Split, s12, s123, s1234
<1>. QED  BY <1>4, <1>5, <1>6, <1>7, <1>8

(* The lengths of a row's parts: p parts, f flag groups, m name tokens.    *)
LEMMA RowLengths ==
    ASSUME NEW m \in Nat, NEW p \in Nat, NEW f \in {1, 2},
           m >= 1, f = 1 => m = 1, p = f + 3 + m
    PROVE  /\ p >= 5 /\ 1 \in 1..m
           /\ f = 1 => p = 5 /\ ~(p >= 6) /\ f + 3 + 1 = 5
           /\ f = 2 => p >= 6 /\ p - 6 + 1 = m
OBVIOUS

(* parse_symbols reads parts as a row of f flag groups: a symbol exactly   *)
(* when they start with 16 hex digits, with the address, the section, the  *)
(* size and the name of the row.                                           *)
ReadAsRow(parts, f, name, n) ==
    /\ IsSymbolLine(parts) <=> parts[1] \in Hex16
    /\ IsSymbolLine(parts) =>
          /\ Symbol(parts, n).address = HexVal[parts[1]]
          /\ Symbol(parts, n).section = parts[f + 2]
          /\ Symbol(parts, n).size = SizeOf(parts[f + 3])
          /\ Symbol(parts, n).name = name
          /\ Symbol(parts, n).line_num = n

(* The symbol read from the parts of a row: the address, f flag groups,   *)
(* the section, the size and the name.                                     *)
LEMMA RowSymbol ==
    ASSUME NEW parts \in Seq(Tok), NEW f \in {1, 2}, NEW name \in Seq(Tok),
           NEW n \in Nat,
           Len(name) >= 1, f = 1 => Len(name) = 1,
           Len(parts) = f + 3 + Len(name),
           NameAfter(parts, f, name)
    PROVE  ReadAsRow(parts, f, name, n)
<1>. SUFFICES /\ IsSymbolLine(parts) <=> parts[1] \in Hex16
              /\ IsSymbolLine(parts) =>
                    /\ Symbol(parts, n).address = HexVal[parts[1]]
                    /\ Symbol(parts, n).section = parts[f + 2]
                    /\ Symbol(parts, n).size = SizeOf(parts[f + 3])
                    /\ Symbol(parts, n).name = name
                    /\ Symbol(parts, n).line_num = n
  BY DEF ReadAsRow
<1>1. Len(name) \in Nat /\ Len(parts) \in Nat
  BY LenProperties
<1>2. /\ Len(parts) >= 5 /\ 1 \in 1..Len(name)
      /\ f = 1 => Len(parts) = 5 /\ ~(Len(parts) >= 6) /\ f + 3 + 1 = 5
      /\ f = 2 => Len(parts) >= 6 /\ Len(parts) - 6 + 1 = Len(name)
  BY <1>1, RowLengths, Zenon
<1>3. IsSymbolLine(parts) <=> parts[1] \in Hex16
  BY <1>2 DEF IsSymbolLine
<1>4. CASE f = 1
  <2>1. Len(parts) = 5 /\ ~HasType(parts)
    BY <1>2, <1>4 DEF HasType
  <2>2. <<parts[5]>> = name
    <3>1. parts[f + 3 + 1] = name[1]
      BY <1>2 DEF NameAfter
    <3>2. parts[5] = name[1]
      BY <1>2, <1>4, <3>1
    <3>3. Len(name) = 1
      BY <1>4
    <3>. QED  BY <3>2, <3>3, SeqEqual
  <2>3. /\ Symbol(parts, n).address = HexVal[parts[1]]
        /\ Symbol(parts, n).section = parts[3]
        /\ Symbol(parts, n).size = SizeOf(parts[4])
        /\ Symbol(parts, n).name = <<parts[5]>>
        /\ Symbol(parts, n).line_num = n
    BY <2>1 DEF Symbol
  <2>4. f + 2 = 3 /\ f + 3 = 4
    BY <1>4
  <2>. QED  BY <1>3, <2>2, <2>3, <2>4
<1>5. CASE f = 2
  <2>1. Len(parts) >= 6 /\ HasType(parts)
    BY <1>2, <1>5 DEF HasType
  <2>2. SubSeq(parts, 6, Len(parts)) = name
    <3>1. \A i \in 6..Len(parts) : parts[i] \in Tok
      BY <1>1, ElementOfSeq
    <3>2. /\ SubSeq(parts, 6, Len(parts)) \in Seq(Tok)
          /\ Len(SubSeq(parts, 6, Len(parts))) = Len(parts) - 6 + 1
          /\ \A i \in 1..(Len(parts) - 6 + 1) :
                SubSeq(parts, 6, Len(parts))[i] = parts[6 + i - 1]
      BY <1>1, <2>1, <3>1, SubSeqProperties
    <3>3. Len(SubSeq(parts, 6, Len(parts))) = Len(name)
      BY <1>2, <1>5, <3>2
    <3>4. \A i \in 1..Len(name) : parts[6 + i - 1] = name[i]
      <4>1. \A i \in 1..Len(name) : parts[f + 3 + i] = name[i]
        BY DEF NameAfter
      <4>2. \A i \in 1..Len(name) : 6 + i - 1 = f + 3 + i
        BY <1>1, <1>5
      <4>. QED  BY <4>1, <4>2
    <3>5. \A i \in 1..Len(name) : SubSeq(parts, 6, Len(parts))[i] = name[i]
      BY <1>2, <1>5, <3>2, <3>4
    <3>. QED  BY <3>2, <3>3, <3>5, SeqEqual
  <2>3. /\ Symbol(parts, n).address = HexVal[parts[1]]
        /\ Symbol(parts, n).section = parts[4]
        /\ Symbol(parts, n).size = SizeOf(parts[5])
        /\ Symbol(parts, n).name = SubSeq(parts, 6, Len(parts))
        /\ Symbol(parts, n).line_num = n
    BY <2>1 DEF Symbol
  <2>4. f + 2 = 4 /\ f + 3 = 5
    BY <1>5
  <2>. QED  BY <1>3, <2>2, <2>3, <2>4
<1>. QED  BY <1>4, <1>5

(* parse_symbols takes line l, numbered n, for a symbol exactly when it is *)
(* a row with a 16-digit address, and then reads the address, section,     *)
(* size and name from the row's own columns.                               *)
RowRead(l, n) ==
    /\ IsSymbolLine(Split(l)) <=> Len(l) = 5 /\ l[1][1] \in Hex16
    /\ IsSymbolLine(Split(l)) =>
          /\ Symbol(Split(l), n).address = HexVal[l[1][1]]
          /\ Symbol(Split(l), n).section = l[3][1]
          /\ Symbol(Split(l), n).size = SizeOf(l[4][1])
          /\ Symbol(Split(l), n).name = l[5]
          /\ Symbol(Split(l), n).line_num = n

(* RowRead holds for every line of the documented layouts, with one flag  *)
(* group (five parts) as with two (six parts or more).                     *)
LEMMA SymbolOfRow ==
    ASSUME NEW l \in Line, NEW n \in Nat, RowShaped(l)
    PROVE  RowRead(l, n)
<1>. SUFFICES /\ IsSymbolLine(Split(l)) <=> Len(l) = 5 /\ l[1][1] \in Hex16
              /\ IsSymbolLine(Split(l)) =>
                    /\ Symbol(Split(l), n).address = HexVal[l[1][1]]
                    /\ Symbol(Split(l), n).section = l[3][1]
                    /\ Symbol(Split(l), n).size = SizeOf(l[4][1])
                    /\ Symbol(Split(l), n).name = l[5]
                    /\ Symbol(Split(l), n).line_num = n
  BY DEF RowRead
<1>1. CASE Len(l) # 5
  BY <1>1 DEF RowShaped
<1>2. CASE Len(l) = 5
  <2>1. /\ Split(l) \in Seq(Tok) /\ Len(Split(l)) = Len(l[2]) + 3 + Len(l[5])
        /\ Split(l)[1] = l[1][1] /\ Split(l)[Len(l[2]) + 2] = l[3][1]
        /\ Split(l)[Len(l[2]) + 3] = l[4][1]
        /\ NameAfter(Split(l), Len(l[2]), l[5])
    BY <1>2, RowParts
  <2>2. /\ Len(l[2]) \in {1, 2} /\ l[5] \in Seq(Tok) /\ Len(l[5]) >= 1
        /\ Len(l[2]) = 1 => Len(l[5]) = 1
    BY <1>2, RowColumns
  <2>3. ReadAsRow(Split(l), Len(l[2]), l[5], n)
    BY <2>1, <2>2, RowSymbol, Zenon
  <2>. QED  BY <1>2, <2>1, <2>3 DEF ReadAsRow
<1>. QED  BY <1>1, <1>2

-----------------------------------------------------------------------------
(* ParsedAsColumns for a listing of the documented layouts.  It is not     *)
(* inductive alone: CollectLine appends to the table, which is safe only   *)
(* while nothing is parsed yet, and ParseLine reads the table's lines,     *)
(* which must keep the listing's layout.                                   *)
ColumnsInv ==
    DocumentedLayout(lines) =>
        /\ DocumentedLayout(symbolLines)
        /\ stage \in {"read", "collect"} => idx = 1 /\ symbols = <<>>
        /\ ParsedAsColumns

(* Before the parse loop the claim is empty.                               *)
LEMMA NothingParsed ==
    ASSUME symbols = <<>>, idx = 1, symbolLines \in Seq(Line)
    PROVE  ParsedAsColumns
<1>1. {i \in RowLines : i < idx} = {}
  BY DEF RowLines
<1>2. 1..Len(symbols) = {}
  BY EmptySeq
<1>. QED  BY <1>1, <1>2 DEF ParsedAsColumns

LEMMA InitColumns == Init => ColumnsInv
<1>. SUFFICES ASSUME Init PROVE ColumnsInv
  OBVIOUS
<1>1. symbolLines = <<>> /\ symbols = <<>> /\ idx = 1
  BY DEF Init
<1>2. DocumentedLayout(symbolLines)
  BY <1>1, EmptySeq DEF DocumentedLayout
<1>3. ParsedAsColumns
  BY <1>1, EmptySeq, NothingParsed
<1>. QED  BY <1>1, <1>2, <1>3 DEF ColumnsInv

(* A step that leaves the listing, the table, the loop position and the    *)
(* symbols alone and does not go back to reading keeps ColumnsInv.         *)
LEMMA FramedColumns ==
    ASSUME ColumnsInv, UNCHANGED <<lines, symbolLines, idx, symbols>>,
           stage' \in {"read", "collect"} => stage \in {"read", "collect"}
    PROVE  ColumnsInv'
<1>1. ParsedAsColumns' = ParsedAsColumns
  BY DEF ParsedAsColumns, RowLines
<1>. QED  BY <1>1 DEF ColumnsInv

LEMMA CollectLineColumns ==
    ASSUME IInv, ColumnsInv, CollectLine
    PROVE  ColumnsInv'
<1>1. lines' = lines /\ UNCHANGED <<idx, symbols>> /\ stage = "collect" /\ stage' = "collect"
  BY DEF CollectLine
<1>. SUFFICES ASSUME DocumentedLayout(lines)
              PROVE  DocumentedLayout(symbolLines') /\ idx' = 1 /\ symbols' = <<>>
                     /\ ParsedAsColumns'
  BY <1>1 DEF ColumnsInv
<1>2. DocumentedLayout(symbolLines) /\ idx = 1 /\ symbols = <<>>
  BY <1>1 DEF ColumnsInv
<1>3. lines \in Seq(Line) /\ symbolLines \in Seq(Line) /\ pos \in 1..Len(lines)
  BY <1>1 DEF IInv, TypeOK, CollectLine
<1>4. lines[pos] \in Line /\ RowShaped(lines[pos])
  BY <1>3, ElementOfSeq DEF DocumentedLayout
<1>5. symbolLines' \in Seq(Line) /\ DocumentedLayout(symbolLines')
  <2>1. CASE Split(lines[pos]) # <<>>
    <3>1. symbolLines' = Append(symbolLines, lines[pos])
      BY <2>1 DEF CollectLine
    <3>2. /\ symbolLines' \in Seq(Line) /\ Len(symbolLines') = Len(symbolLines) + 1
          /\ \A i \in 1..Len(symbolLines) : symbolLines'[i] = symbolLines[i]
          /\ symbolLines'[Len(symbolLines) + 1] = lines[pos]
      BY <1>3, <1>4, <3>1, AppendProperties
    <3>. QED  BY <1>2, <1>3, <1>4, <3>2 DEF DocumentedLayout
  <2>2. CASE Split(lines[pos]) = <<>>
    BY <1>2, <1>3, <2>2 DEF CollectLine
  <2>. QED  BY <2>1, <2>2
<1>6. ParsedAsColumns'
  <2>1. {i \in RowLines' : i < idx'} = {} /\ 1..Len(symbols') = {}
    BY <1>1, <1>2, EmptySeq DEF RowLines
  <2>. QED  BY <2>1 DEF ParsedAsColumns
<1>. QED  BY <1>1, <1>2, <1>5, <1>6

LEMMA ParseLineColumns ==
    ASSUME IInv, ColumnsInv, ParseLine
    PROVE  ColumnsInv'
<1>1. /\ UNCHANGED <<lines, symbolLines>> /\ stage = "parse" /\ stage' = "parse"
      /\ idx' = idx + 1
  BY DEF ParseLine
<1>. SUFFICES ASSUME DocumentedLayout(lines)
              PROVE  DocumentedLayout(symbolLines') /\ ParsedAsColumns'
  BY <1>1 DEF ColumnsInv
<1>2. DocumentedLayout(symbolLines) /\ ParsedAsColumns
  BY DEF ColumnsInv
<1>. DEFINE l == symbolLines[idx]
            parts == Split(l)
            s == Symbol(parts, idx)
            N == Len(symbols)
            Old == {i \in RowLines : i < idx}
<1>3. /\ symbolLines \in Seq(Line) /\ idx \in 1..Len(symbolLines)
      /\ symbols \in Seq(SymbolRecord)
  BY DEF IInv, TypeOK, ParseLine
<1>4. l \in Line /\ RowShaped(l)
  BY <1>2, <1>3, ElementOfSeq DEF DocumentedLayout
<1>5. /\ IsSymbolLine(parts) <=> Len(l) = 5 /\ l[1][1] \in Hex16
      /\ IsSymbolLine(parts) =>
            /\ s.address = HexVal[l[1][1]] /\ s.section = l[3][1]
            /\ s.size = SizeOf(l[4][1]) /\ s.name = l[5] /\ s.line_num = idx
  <2>1. idx \in Nat
    BY <1>3
  <2>2. RowRead(l, idx)
    BY <1>4, <2>1, SymbolOfRow, Zenon
  <2>. QED  BY <2>2 DEF RowRead
<1>6. IsSymbolLine(parts) <=> idx \in RowLines
  BY <1>3, <1>4, <1>5 DEF RowLines, RowShaped
<1>7. RowLines' = RowLines /\ DocumentedLayout(symbolLines')
  BY <1>1, <1>2 DEF RowLines
<1>8. \A j \in 1..N : symbols[j].line_num \in Old
  BY <1>2 DEF ParsedAsColumns
<1>9. CASE ~IsSymbolLine(parts)
  <2>1. symbols' = symbols
    BY <1>9 DEF ParseLine
  <2>2. {i \in RowLines' : i < idx'} = Old
    BY <1>1, <1>3, <1>6, <1>7, <1>9 DEF RowLines
  <2>. QED  BY <1>1, <1>2, <1>7, <2>1, <2>2 DEF ParsedAsColumns
<1>10. CASE IsSymbolLine(parts)
  <2>1. s \in SymbolRecord
    BY <1>3, <1>4, <1>10, SymbolType
  <2>2. /\ symbols' \in Seq(SymbolRecord) /\ Len(symbols') = N + 1
        /\ \A j \in 1..N : symbols'[j] = symbols[j]
        /\ symbols'[N + 1] = s
    BY <1>3, <1>10, <2>1, AppendProperties DEF ParseLine
  <2>3. {symbols'[j].line_num : j \in 1..Len(symbols')} = {i \in RowLines' : i < idx'}
    <3>1. {symbols'[j].line_num : j \in 1..Len(symbols')}
            = {symbols[j].line_num : j \in 1..N} \cup {idx}
      <4>1. N \in Nat
        BY <1>3, LenProperties
      <4>2. symbols'[N + 1].line_num = idx
        BY <1>5, <1>10, <2>2
      <4>3. \A j \in 1..N : symbols'[j].line_num = symbols[j].line_num
        BY <2>2
      <4>. QED  BY <2>2, <4>1, <4>2, <4>3
    <3>2. {i \in RowLines' : i < idx'} = Old \cup {idx}
      BY <1>1, <1>3, <1>6, <1>7, <1>10 DEF RowLines
    <3>. QED  BY <1>2, <3>1, <3>2 DEF ParsedAsColumns
  <2>4. \A i, j \in 1..Len(symbols') :
           i < j => symbols'[i].line_num < symbols'[j].line_num
    <3>1. \A j \in 1..N : symbols[j].line_num < idx
      BY <1>8 DEF RowLines
    <3>2. N \in Nat /\ Len(symbols') = N + 1
      BY <1>3, <2>2
    <3> SUFFICES ASSUME NEW i \in 1..N + 1, NEW j \in 1..N + 1, i < j
                 PROVE  symbols'[i].line_num < symbols'[j].line_num
      BY <3>2
    <3>3. CASE j <= N
      <4>1. symbols[i].line_num < symbols[j].line_num
        BY <1>2, <3>2, <3>3 DEF ParsedAsColumns
      <4>. QED  BY <2>2, <3>2, <3>3, <4>1
    <3>4. CASE j = N + 1
      <4>1. symbols'[j].line_num = idx
        BY <1>5, <1>10, <2>2, <3>4
      <4>2. i \in 1..N /\ symbols'[i] = symbols[i]
        BY <2>2, <3>2, <3>4
      <4>. QED  BY <3>1, <4>1, <4>2
    <3>5. j <= N \/ j = N + 1
      BY <3>2
    <3>. QED  BY <3>3, <3>4, <3>5, Zenon
  <2>5. \A j \in 1..Len(symbols') :
           LET m == symbolLines'[symbols'[j].line_num] IN
           /\ symbols'[j].address = HexVal[m[1][1]]
           /\ symbols'[j].section = m[3][1]
           /\ symbols'[j].size = SizeOf(m[4][1])
           /\ symbols'[j].name = m[5]
    <3>1. N \in Nat /\ Len(symbols') = N + 1 /\ symbolLines' = symbolLines
      BY <1>1, <1>3, <2>2
    <3> SUFFICES ASSUME NEW j \in 1..N + 1
                 PROVE  LET m == symbolLines[symbols'[j].line_num] IN
                        /\ symbols'[j].address = HexVal[m[1][1]]
                        /\ symbols'[j].section = m[3][1]
                        /\ symbols'[j].size = SizeOf(m[4][1])
                        /\ symbols'[j].name = m[5]
      BY <3>1
    <3>2. CASE j <= N
      <4>1. j \in 1..N /\ symbols'[j] = symbols[j]
        BY <2>2, <3>1, <3>2
      <4>. QED  BY <1>2, <4>1 DEF ParsedAsColumns
    <3>3. CASE j = N + 1
      <4>1. symbols'[j] = s
        BY <2>2, <3>3
      <4>. QED  BY <1>5, <1>10, <4>1
    <3>4. j <= N \/ j = N + 1
      BY <3>1
    <3>. QED  BY <3>2, <3>3, <3>4, Zenon
  <2>. QED  BY <1>7, <2>3, <2>4, <2>5 DEF ParsedAsColumns
<1>. QED  BY <1>9, <1>10

LEMMA NextColumns == IInv /\ ColumnsInv /\ [Next]_vars => ColumnsInv'
<1>. SUFFICES ASSUME IInv, ColumnsInv, [Next]_vars PROVE ColumnsInv'
  OBVIOUS
<1>1. CASE CollectLine  BY <1>1, CollectLineColumns
<1>2. CASE ParseLine  BY <1>2, ParseLineColumns
<1>3. CASE FindTable \/ EndCollect
  BY <1>3, FramedColumns DEF FindTable, EndCollect
<1>4. CASE ListSections \/ PrintSectionSymbols \/ PrintSectionAnalysis
  BY <1>4, FramedColumns DEF ListSections, PrintSectionSymbols, PrintSectionAnalysis
<1>5. CASE StartAnalysis \/ AnalyzeSymbol
  BY <1>5, FramedColumns DEF StartAnalysis, AnalyzeSymbol
<1>6. CASE Exited \/ UNCHANGED vars
  BY <1>6, FramedColumns DEF Exited, vars
<1>. QED  BY <1>1, <1>2, <1>3, <1>4, <1>5, <1>6 DEF Next

(* parse_symbols reads every listing of the two layouts the docstring of  *)
(* lines 89-96 names as its columns say: at every step the symbols are    *)
(* the table's rows before the loop position, once each, in file order,   *)
(* with each row's address, section, size and name.                       *)
THEOREM ColumnsParsed == Spec => [](DocumentedLayout(lines) => ParsedAsColumns)
<1>1. IInv /\ ColumnsInv => (DocumentedLayout(lines) => ParsedAsColumns)
  BY DEF ColumnsInv
<1>. QED  BY InitIInv, NextIInv, InitColumns, NextColumns, <1>1, PTL DEF Spec

=============================================================================

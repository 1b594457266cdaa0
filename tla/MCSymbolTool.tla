--------------------------- MODULE MCSymbolTool ----------------------------
(* Model-checking instance of SymbolTool: objdump listings of a small      *)
(* image with a .text, a .text.boot, a .bss and an *ABS* section.          *)
(* Addresses are small so that TLC's integers hold them.                   *)
EXTENDS SymbolTool, TLC

H0 == "0000000000000000"
H8 == "0000000000000008"
H10 == "0000000000000010"
H20 == "0000000000000020"
H40 == "0000000000000040"
H100 == "0000000000000100"
A32 == "40080000"          \* an address of a 32-bit listing

MCHex16 == {H0, H8, H10, H20, H40, H100}

(* Every token int(t, 16) accepts, flag groups included.                   *)
MCHexable == MCHex16 \cup {A32, "d", "F", "df"}

MCHexVal ==
    [t \in MCHexable |->
        CASE t = H0 -> 0 [] t = H8 -> 8 [] t = H10 -> 16 [] t = H20 -> 32
          [] t = H40 -> 64 [] t = H100 -> 256 [] t = A32 -> 1074266112
          [] t = "d" -> 13 [] t = "F" -> 15 [] OTHER -> 223]

MCTok ==
    MCHexable \cup
    {"", "l", "g", "O", "i", ".text", ".text.boot", ".bss", "*ABS*",
     "_start", "from_el3_to_el1", "stack", "boot_entry", "boot.c", "memcpy",
     "SYMBOL", "TABLE:", "Disassembly", "of", "section", ".text:",
     "avatar.elf:", "file", "format", "elf64-littleaarch64", "<_start>:"}

(* Python's  a in b  on the tokens the properties compare.                 *)
MCInStr(a, b) == a = "" \/ a = b \/ <<a, b>> = <<".text", ".text.boot">>

Row(a, f, s, z, n) == <<<<a>>, f, <<s>>, <<z>>, <<n>>>>

Text(ws) == <<ws>>

Hdr == Text(<<"avatar.elf:", "file", "format", "elf64-littleaarch64">>)
Blank == Text(<<>>)
SymTab == Text(SymbolTableMarker)
TextDis == Text(TextDisassemblyMarker)
DisLine == Text(<<H0, "<_start>:">>)

R1 == Row(H0, <<"l", "d">>, ".text", H0, ".text")             \* section symbol
R2 == Row(H20, <<"l">>, ".text", H8, "from_el3_to_el1")       \* five parts
R3 == Row(H0, <<"g", "F">>, ".text", H10, "_start")
R4 == Row(H100, <<"g", "O">>, ".bss", H40, "stack")
R5 == Row(H40, <<"g", "F">>, ".text.boot", H8, "boot_entry")
R6 == Row(H0, <<"l", "df">>, "*ABS*", H0, "boot.c")
R32 == Row(A32, <<"g", "F">>, ".text", H10, "_start")         \* 8-digit address

(* A full listing; one without the .text disassembly marker; one with an   *)
(* empty symbol table; one without a symbol table.                         *)
MCFiles ==
    { <<Hdr, Blank, SymTab, R2, R1, Blank, R3, R4, R5, R6, R32, Blank, TextDis, DisLine>>,
      <<SymTab, R4, R3>>,
      <<SymTab, Blank, TextDis>>,
      <<Hdr, TextDis, DisLine>> }

MCSectionArgs == {"", ".text", ".bss"}
=============================================================================

------------------------------ MODULE MCPdasm ------------------------------
(***************************************************************************)
(* ELF and PE files with every reason to be refused, with no code section, *)
(* one and two, in the file and past its end, under every command with up  *)
(* to two options for info and up to three for disassemble; and files with *)
(* symbols and relocations, well formed or strayed from in one place,      *)
(* under the commands that use the reader. What the x86 decoder reads is   *)
(* the same sixteen bytes over and over, with two bytes of any value, so   *)
(* that every long listing takes every way through them.                   *)
(***************************************************************************)
EXTENDS PdasmWhole

Code(flags, at, n) == [NoSection EXCEPT !.type = "progbits", !.flags = flags, !.off = at,
                                        !.size = n, !.addr = 100 + at, !.entsize = 0]
Other(type, entry) == [NoSection EXCEPT !.type = type, !.entsize = entry]

Elf == [size |-> 72, magic |-> "ELF", class |-> "64", data |-> TRUE, machine |-> "PVCpu",
        phoff |-> 64, phnum |-> 0, phentsize |-> 56, shoff |-> 64, shstrndx |-> 1,
        sections |-> <<>>, last_nul |-> 71]
Pe  == [size |-> 72, magic |-> "MZ", lfanew |-> 64, signature |-> TRUE, opt |-> "PE32+",
        opt_size |-> 112, machine |-> "x64", symtab |-> 0, symbols |-> 0, long_names |-> {},
        symbol_sections |-> {},
        sections |-> <<>>, last_nul |-> 71]

ElfSectionTables ==
    { <<Other("strtab", 0)>>,
      <<Other("strtab", 0), Code({"exec", "alloc"}, 60, 8), Code({"exec"}, 52, 4)>>,
      <<Code({"alloc"}, 52, 8), Other("strtab", 0), Code({"exec", "alloc"}, 80, 8)>>,
      <<Other("strtab", 0), Other("symtab", 24), Other("strtab", 0), Other("rel", 24)>>,
      <<Other("symtab", 0), Other("strtab", 0), Code({"exec"}, 70, 6)>>,
      <<Other("rel", 0)>> }

SmallFiles ==
    { [Elf EXCEPT !.size = 0], [Elf EXCEPT !.size = 12], [Elf EXCEPT !.magic = "other"],
      [Elf EXCEPT !.class = "other"], [Elf EXCEPT !.data = FALSE],
      [Elf EXCEPT !.class = "other", !.sections = <<Code({"exec"}, 52, 4)>>],
      [Pe EXCEPT !.size = 12], [Pe EXCEPT !.lfanew = 68], [Pe EXCEPT !.lfanew = 90],
      [Pe EXCEPT !.signature = FALSE, !.sections = <<Code({"code"}, 60, 4)>>],
      [Pe EXCEPT !.opt = "other"] }

ElfFiles == { [Elf EXCEPT !.class = c, !.machine = m, !.sections = s, !.shoff = o] :
                  c \in {"32", "64"}, m \in {"PVCpu", "PVCpuC", "x64", "unknown"},
                  s \in ElfSectionTables, o \in {64, 90} }
PeFiles  == { [Pe EXCEPT !.machine = m, !.symtab = n, !.symbols = n, !.sections = s, !.opt = o] :
                  m \in {"x86", "PVCpu"}, n \in {0, 2}, o \in {"PE32", "PE32+"},
                  s \in {<<>>, <<Code({"data"}, 68, 4), Code({"code"}, 64, 4)>>} }

-----------------------------------------------------------------------------
(* Files with symbols: the header, code at 64, the names of symbols at 72 and *)
(* of sections at 80, the symbols from 96 and their relocations from 168, the *)
(* program header at 216 and six sections from 272.                           *)

Symbols     == <<[name |-> 0, shndx |-> SHN_UNDEF], [name |-> 2, shndx |-> 1], [name |-> 5, shndx |-> SHN_ABS]>>
Relocations == <<1, 2>>

Names(at)   == [NoSection EXCEPT !.type = "strtab", !.off = at, !.size = 8, !.entsize = 0, !.name = 7]
Rows(class, type, sym, link, rows) ==
    [NoSection EXCEPT !.type = type, !.entsize = sym, !.off = IF type = "symtab" THEN 96 ELSE 168,
                      !.size = sym * Len(rows), !.rows = rows, !.link = link, !.name = 3]

\* The string table of the symbols comes before that of the sections, or after it.
Linked(class, type, first) ==
    LET sizes == Sizeof([class |-> class])
        names == IF first THEN 3 ELSE 6
    IN [Elf EXCEPT
          !.class = class, !.size = 656, !.phoff = 216, !.phnum = 1, !.phentsize = sizes.phdr,
          !.shoff = 272, !.last_nul = 640, !.shstrndx = IF first THEN 6 ELSE 3,
          !.sections = <<NoSection, Code({"exec"}, 64, 3), Names(IF first THEN 72 ELSE 80),
                         Rows(class, "symtab", sizes.sym, names, Symbols),
                         Rows(class, type, sizes[type], 4, Relocations),
                         Names(IF first THEN 80 ELSE 72)>>]

LinkedFiles == {Linked(class, type, first) :
                    class \in {"32", "64"}, type \in {"rel", "rela"}, first \in BOOLEAN}

Good == Linked("64", "rel", TRUE)

\* Two more tables for the dynamic symbols, before the others, and relocations for
\* both kinds of symbols.
Dynamic(type) ==
    LET reloc == Rows("64", type, Sizeof(Good)[type], 4, Relocations) IN
    [Good EXCEPT
        !.size = 848, !.last_nul = 840, !.shstrndx = 7,
        !.sections = <<NoSection, Code({"exec"}, 64, 3), Names(88),
                       [Rows("64", "symtab", 24, 3, Symbols) EXCEPT !.type = "dynsym"],
                       reloc, [reloc EXCEPT !.link = 8], Names(80),
                       Rows("64", "symtab", 24, 9, Symbols), Names(72)>>]
DynamicFiles == {Dynamic("rel"), Dynamic("rela")}

\* Strayed from: a table, a count, a name, a link or an index is outside, and the
\* last is well formed but for its last string table, which is for no symbols.
StrayFiles ==
    { [Good EXCEPT !.shoff = 300], [Good EXCEPT !.phoff = 610], [Good EXCEPT !.phnum = 9],
      [Good EXCEPT !.shstrndx = 9], [Good EXCEPT !.last_nul = 74],
      [Good EXCEPT !.sections[4].size = 24 * 30], [Good EXCEPT !.sections[5].size = 16 * 40],
      [Good EXCEPT !.sections[4].rows[2].name = 700], [Good EXCEPT !.sections[4].rows[2].shndx = 9],
      [Good EXCEPT !.sections[5].rows[1] = 9], [Good EXCEPT !.sections[5].link = 9],
      [Good EXCEPT !.sections[4].link = 9], [Good EXCEPT !.sections[5].name = 700],
      [Good EXCEPT !.sections = Append(@, Names(88))] }

PeGood == [Pe EXCEPT !.size = 280, !.sections = <<Code({"data"}, 72, 4), Code({"code"}, 80, 3)>>,
                     !.last_nul = 279]
PeLinkedFiles ==
    { PeGood, [PeGood EXCEPT !.size = 230], [PeGood EXCEPT !.opt_size = 200],
      [PeGood EXCEPT !.symtab = 88, !.symbols = 2], [PeGood EXCEPT !.symtab = 264, !.symbols = 2],
      [PeGood EXCEPT !.symtab = 88, !.symbols = 2, !.long_names = {4, 200}],
      [PeGood EXCEPT !.symtab = 88, !.symbols = 2, !.symbol_sections = {1, 9}],
      [PeGood EXCEPT !.symtab = 88, !.symbols = 2, !.symbol_sections = {2}, !.opt_size = 150] }

-----------------------------------------------------------------------------
InfoTokens == {"--all", "--program", "--symbols", "--relocs", "--bogus"}
DasmTokens == {"--binary", "--arch", "pvcpu", "amd64"}

InfoLines == {[cmd |-> "info", input |-> TRUE, opts |-> o] : o \in BoundedSeq(InfoTokens, 2)}
DasmLines == {[cmd |-> "disassemble", input |-> TRUE, opts |-> o] : o \in BoundedSeq(DasmTokens, 3)}
BareLines == {[cmd |-> c, input |-> FALSE, opts |-> <<>>] : c \in {"none", "help", "info", "dasm", "bogus"}}

ReaderLines == InfoLines
    \cup {[cmd |-> "info", input |-> TRUE, opts |-> <<o>>] : o \in {"--basic", "--sections"}}
    \cup {[cmd |-> "dasm", input |-> TRUE, opts |-> <<>>]}

PdasmCalls == { [lines |-> BareLines \cup InfoLines \cup DasmLines,
                 files |-> SmallFiles \cup ElfFiles \cup PeFiles],
                [lines |-> ReaderLines,
                 files |-> LinkedFiles \cup DynamicFiles \cup StrayFiles \cup PeLinkedFiles] }

SizeT        == 0..(Modulus - 1)
PdasmLengths == 1..(MaxPrefixes + 11)

\* 48 C7 84 05, a displacement and an immediate, and 0F AF 05 C3.
CodeBytes  == <<72, 199, 132, 5, 0, 0, 0, 0, 0, 0, 0, 0, 15, 175, 5, 195>>
PdasmKnown == [p \in (0..150) \ {64, 65} |-> CodeBytes[(p % 16) + 1]]
PdasmBytes == {5, 15, 72, 132, 175, 199}
=============================================================================

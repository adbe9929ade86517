---------------------------- MODULE PdasmReader ----------------------------
(***************************************************************************)
(* shared_src/reader.c: what the reader makes of an executable file, as    *)
(* functions of the file.  A report is one table the reader prints; of its *)
(* rows, the names it gives to symbols are kept, as the place in the file  *)
(* where a name starts.                                                    *)
(*                                                                         *)
(* A file is the header fields the reader looks at and the rows of its     *)
(* tables.  The reader compares the start of some tables with the end of   *)
(* the file and nothing else: it strays when something it follows is       *)
(* outside the file, or no row the file has.  It then reads any value,     *)
(* which is the one the record holds, or the read kills the process.       *)
(***************************************************************************)
EXTENDS Integers, SequencesExt

SHN_UNDEF == 0
SHN_ABS   == 65521

Machines == {"x86", "x64", "PVCpu", "PVCpuC", "unknown"}

\* magic is "MZ", "ELF" or "other"; last_nul is where the file has its last NUL.
\* PE files have lfanew (where the PE header is), signature, opt and opt_size, the
\* place and number of the symbols, long_names, the offsets of those whose name is
\* in the string table, and symbol_sections, the sections they name; ELF files have class, data, the places of the two
\* tables, phnum, phentsize and shstrndx.  The rows of a symbol table are records
\* of name and shndx, those of a relocation section numbers of symbols.  Symbols,
\* and the sections shndx names, are counted from 0, sections otherwise from 1.
NoSection == [type |-> "none", flags |-> {}, off |-> 0, size |-> 0, addr |-> 0, entsize |-> 1,
              name |-> 0, link |-> 1, rows |-> <<>>]

-----------------------------------------------------------------------------
(* The validators. *)

validate_elf(src) == /\ src.size >= 16
                     /\ src.magic = "ELF"
                     /\ src.class \in {"32", "64"}
                     /\ src.data

is_pe(src) == src.size >= 2 /\ src.magic = "MZ"

validate_pe(src) == /\ src.size >= 64
                    /\ src.magic = "MZ"
                    /\ src.lfanew + 4 < src.size
                    /\ src.signature
                    /\ src.opt \in {"PE32", "PE32+"}

Accepted(src) == IF is_pe(src) THEN validate_pe(src) ELSE validate_elf(src)

-----------------------------------------------------------------------------
(* What the disassembler asks of a file. *)

r_get_arch_unchecked(src) ==
    IF src.machine \in (IF is_pe(src) THEN {"x86", "x64"} ELSE Machines) THEN src.machine
    ELSE "unknown"
r_get_arch(src) == IF Accepted(src) THEN r_get_arch_unchecked(src) ELSE "unknown"

\* A 32-bit section must have the one flag and no other, a 64-bit one must have it.
IsCode(src, section) ==
    IF is_pe(src) THEN "code" \in section.flags
    ELSE /\ section.type = "progbits"
         /\ IF src.class = "32" THEN section.flags = {"exec"} ELSE "exec" \in section.flags

CodeSections(src) == {k \in DOMAIN src.sections : Accepted(src) /\ IsCode(src, src.sections[k])}

FirstOf(tables) == CHOOSE k \in tables : \A j \in tables : k <= j
LastOf(tables)  == CHOOSE k \in tables : \A j \in tables : j <= k

\* The section that is disassembled: the first with code, or an empty one.
r_get_codeoff_last(src) ==
    IF CodeSections(src) = {} THEN NoSection ELSE src.sections[LastOf(CodeSections(src))]
r_get_codeoff(src) ==
    IF CodeSections(src) = {} THEN NoSection ELSE src.sections[FirstOf(CodeSections(src))]

-----------------------------------------------------------------------------
(* Where the reader looks. *)

\* sizeof of the structures of one class.
Sizeof(src) ==
    IF src.class = "64" THEN [ehdr |-> 64, phdr |-> 56, shdr |-> 64, sym |-> 24, rel |-> 16, rela |-> 24]
    ELSE [ehdr |-> 52, phdr |-> 32, shdr |-> 40, sym |-> 16, rel |-> 8, rela |-> 12]

OfType(src, types) == {k \in DOMAIN src.sections : src.sections[k].type \in types}

\* The last table of its type is the one that is used, for the names of symbols
\* the last that does not hold the names of sections.
SymbolTables(src)    == OfType(src, {"symtab"})
StringTablesAll(src) == OfType(src, {"strtab"})
StringTables(src)    == OfType(src, {"strtab"}) \ {src.shstrndx}

CountInclusive(section) == IF section.entsize = 0 THEN 0 ELSE section.size \div section.entsize + 1
Count(section) == IF section.entsize = 0 THEN 0 ELSE section.size \div section.entsize

NameAt(src, table, name) == src.sections[table].off + name

\* The symbols a table is said to have and has, and what they are called with
\* the given string table.
NamesFrom(src, symtab, strtab, symbols) ==
    {<<symtab, n, NameAt(src, strtab, src.sections[symtab].rows[n + 1].name)>> :
        n \in {m \in symbols : m < Len(src.sections[symtab].rows)}}

Past(src, from, n) == from + n > src.size

\* A name outside the file, or in a table that is no section.
NameStrays(src, table, name) ==
    table \notin DOMAIN src.sections \/ NameAt(src, table, name) > src.last_nul

TableStrays(src) == \/ Past(src, src.shoff, Len(src.sections) * Sizeof(src).shdr)
                    \/ Past(src, src.shoff, src.shstrndx * Sizeof(src).shdr)

\* Looking for the first section with code, in a table of rows of n bytes.
CodeSectionStrays(src, table, n) ==
    \E k \in DOMAIN src.sections : /\ Past(src, table, k * n)
                                  /\ \A j \in 1..(k - 1) : ~IsCode(src, src.sections[j])

ProgramsStray(src) ==
    /\ src.phoff < src.size /\ src.phnum > 0
    /\ Past(src, src.phoff + (src.phnum - 1) * src.phentsize, Sizeof(src).phdr)

SectionsStray(src) ==
    /\ src.shoff < src.size
    /\ TableStrays(src) \/ \E k \in DOMAIN src.sections :
                               NameStrays(src, src.shstrndx, src.sections[k].name)

\* More rows than there are, or outside the file.
RowsStray(src, section, row_size) ==
    Count(section) > Len(section.rows) \/ Past(src, section.off, Count(section) * row_size)

\* A section index that is neither of the two the reader knows is followed.
SectionOfSymbolStrays(src, shndx) ==
    /\ shndx \notin {SHN_UNDEF, SHN_ABS}
    /\ \/ shndx + 1 \notin DOMAIN src.sections
       \/ NameStrays(src, src.shstrndx, src.sections[shndx + 1].name)

SymbolsStray(src) ==
    /\ src.shoff < src.size
    /\ \/ TableStrays(src)
       \/ /\ SymbolTables(src) # {} /\ StringTables(src) # {}
          /\ LET symtab == src.sections[LastOf(SymbolTables(src))] IN
             \/ RowsStray(src, symtab, Sizeof(src).sym)
             \/ \E row \in ToSet(symtab.rows) :
                   \/ NameStrays(src, LastOf(StringTables(src)), row.name)
                   \/ SectionOfSymbolStrays(src, row.shndx)

RelocsStray(src) ==
    /\ src.shoff < src.size
    /\ \/ TableStrays(src)
       \/ \E k \in OfType(src, {"rel", "rela"}) :
             LET s == src.sections[k] IN
             \/ NameStrays(src, src.shstrndx, s.name)
             \/ RowsStray(src, s, Sizeof(src)[s.type])
             \/ s.link \notin DOMAIN src.sections
             \/ LET symtab == src.sections[s.link] IN
                \/ symtab.link \notin DOMAIN src.sections
                \/ \E n \in ToSet(s.rows) \ {0} :
                      \/ n >= Len(symtab.rows) \/ Past(src, symtab.off, (n + 1) * Sizeof(src).sym)
                      \/ NameStrays(src, symtab.link, symtab.rows[n + 1].name)

\* PE: sizeof is 64 for the DOS header, 24 for the PE header, 40 for a section
\* and, with its padding, 24 for a symbol; the optional header is read to its 70th
\* byte.
PeHeaderStrays(src)   == src.lfanew < src.size /\ Past(src, src.lfanew, 24)
PeOptionalStrays(src) == src.lfanew < src.size /\ Past(src, src.lfanew + 24, 70)
PeTable(src)          == src.lfanew + 24 + src.opt_size
PeSectionsStray(src)  ==
    src.lfanew < src.size /\ Past(src, PeTable(src), 40 * Len(src.sections))
PeSymbolsStray(src) ==
    /\ src.lfanew < src.size
    /\ \/ PeHeaderStrays(src)
       \/ /\ src.symtab # 0 /\ src.symbols # 0
          /\ \/ Past(src, src.symtab, 24 * src.symbols)
             \/ \E name \in src.long_names : src.symtab + 24 * src.symbols + name > src.last_nul
             \/ \E n \in src.symbol_sections \cap DOMAIN src.sections :
                   Past(src, PeTable(src) + 40 * (n - 1), 8)

-----------------------------------------------------------------------------
(* The tables.  Each print_ function looks at the place of its own table.  *)

NamedReport(table, at, src, names) ==
    IF at >= src.size THEN [table |-> table, outcome |-> "truncated", names |-> {}]
    ELSE [table |-> table, outcome |-> "shown", names |-> names]
Report(table, at, src) == NamedReport(table, at, src, {})
Shown(table)           == [table |-> table, outcome |-> "shown", names |-> {}]
Refused                == Shown("error")
NoSymbols              == [table |-> "symbols", outcome |-> "none", names |-> {}]

\* Without a symbol table or a string table there are no symbols to print.
print_elf_symbols(src) ==
    IF src.shoff < src.size /\ (SymbolTables(src) = {} \/ StringTables(src) = {}) THEN NoSymbols
    ELSE LET symtab == LastOf(SymbolTables(src)) IN
         IF src.shoff >= src.size THEN Report("symbols", src.shoff, src)
         ELSE NamedReport("symbols", src.shoff, src,
                  NamesFrom(src, symtab, LastOf(StringTables(src)),
                            0..(Count(src.sections[symtab]) - 1)))

print_pe_symbols(src) ==
    IF src.lfanew < src.size /\ (src.symtab = 0 \/ src.symbols = 0) THEN NoSymbols
    ELSE Report("symbols", src.lfanew, src)

\* The symbols of a relocation section are those of the table it links to, with
\* the names that one links to.
print_elf_relocations(src) ==
    NamedReport("relocations", src.shoff, src,
        UNION {LET s == src.sections[k] IN
               IF s.link \in DOMAIN src.sections /\ src.sections[s.link].link \in DOMAIN src.sections
               THEN NamesFrom(src, s.link, src.sections[s.link].link,
                              {s.rows[i] : i \in {m \in DOMAIN s.rows : m <= Count(s)}} \ {0})
               ELSE {} : k \in OfType(src, {"rel", "rela"})})

ElfHeader        == Shown("ELF header")
ElfPrograms(src) == Report("program headers", src.phoff, src)
ElfSections(src) == Report("section headers", src.shoff, src)

DosHeader        == Shown("DOS header")
PeHeader(src)    == Report("PE header", src.lfanew, src)
PeOptional(src)  == Report("optional header", src.lfanew, src)
PeSections(src)  == Report("section headers", src.lfanew, src)

AllElfWithoutRelocs(src) ==
    <<ElfHeader, ElfPrograms(src), ElfSections(src), print_elf_symbols(src)>>
print_all_elf(src) ==
    <<ElfHeader, ElfPrograms(src), ElfSections(src), print_elf_symbols(src), print_elf_relocations(src)>>
print_all_pe(src) ==
    <<DosHeader, PeHeader(src), PeOptional(src), PeSections(src), print_pe_symbols(src)>>

\* What an option of the info command prints of a file.
ElfTables(src) ==
    [basic    |-> <<ElfHeader>>,
     program  |-> <<ElfPrograms(src)>>,
     sections |-> <<ElfSections(src)>>,
     symbols  |-> <<print_elf_symbols(src)>>,
     relocs   |-> <<print_elf_relocations(src)>>,
     all      |-> print_all_elf(src)]
PeTables(src) ==
    [basic    |-> <<DosHeader, PeHeader(src), PeOptional(src)>>,
     program  |-> <<PeOptional(src)>>,
     sections |-> <<PeSections(src)>>,
     symbols  |-> <<print_pe_symbols(src)>>,
     relocs   |-> <<PeOptional(src)>>,
     all      |-> print_all_pe(src)]

\* Three of the six do not validate a PE file.
Checks(option, src) == ~is_pe(src) \/ option \in {"basic", "sections", "all", "dasm"}

Info(option, src) ==
    IF Checks(option, src) /\ ~Accepted(src) THEN <<Refused>>
    ELSE IF is_pe(src) THEN PeTables(src)[option] ELSE ElfTables(src)[option]

\* The symbols divide by the entry size of the symbol tables, the relocations by
\* that of the relocation sections: an entry size of 0 ends the process.
DividesByZero(option, src) ==
    /\ validate_elf(src) /\ ~is_pe(src) /\ src.shoff < src.size
    /\ \E k \in OfType(src, CASE option = "symbols" -> {"symtab"}
                              [] option = "relocs"  -> {"rel", "rela"}
                              [] option = "all"     -> {"symtab", "rel", "rela"}
                              [] OTHER              -> {}) : src.sections[k].entsize = 0

\* What an option may read outside the file; r_get_codeoff, for the disassembler,
\* does not even look at the place of the section table.
ElfStrays(src) ==
    [basic    |-> FALSE,
     program  |-> ProgramsStray(src),
     sections |-> SectionsStray(src),
     symbols  |-> SymbolsStray(src),
     relocs   |-> RelocsStray(src),
     all      |-> ProgramsStray(src) \/ SectionsStray(src) \/ SymbolsStray(src) \/ RelocsStray(src),
     dasm     |-> CodeSectionStrays(src, src.shoff, Sizeof(src).shdr)]
PeStrays(src) ==
    [basic    |-> PeHeaderStrays(src) \/ PeOptionalStrays(src),
     program  |-> PeOptionalStrays(src),
     sections |-> PeSectionsStray(src),
     symbols  |-> PeSymbolsStray(src),
     relocs   |-> PeOptionalStrays(src),
     all      |-> PeOptionalStrays(src) \/ PeSectionsStray(src) \/ PeSymbolsStray(src),
     dasm     |-> PeOptionalStrays(src) \/ CodeSectionStrays(src, PeTable(src), 40)]

\* The headers are read as soon as the file is taken for one of the two, the kind
\* of the optional header once the signature is there.
Strays(option, src) ==
    IF is_pe(src)
    THEN IF Checks(option, src)
         THEN /\ src.size >= 64 /\ src.lfanew + 4 < src.size /\ src.signature
              /\ Past(src, src.lfanew + 24, 2) \/ (validate_pe(src) /\ PeStrays(src)[option])
         ELSE src.size < 64 \/ PeStrays(src)[option]
    ELSE validate_elf(src) /\ (src.size < Sizeof(src).ehdr \/ ElfStrays(src)[option])

-----------------------------------------------------------------------------
(* Files, for the properties of PDASM. *)

\* What every file is, with the values a size_t has.
FileShape(f, sizes) ==
    /\ f.size \in sizes /\ Len(f.sections) \in Nat
    /\ DOMAIN f.sections = 1..Len(f.sections)
    /\ \A k \in DOMAIN f.sections :
          LET s == f.sections[k] IN
          /\ s.off \in sizes /\ s.size \in sizes /\ s.addr \in sizes /\ s.name \in Nat
          /\ Len(s.rows) \in Nat /\ DOMAIN s.rows = 1..Len(s.rows)
          /\ s.type \in {"symtab", "dynsym"} => \A n \in DOMAIN s.rows : s.rows[n].name \in Nat
    /\ f.magic = "MZ" => f.lfanew \in Nat /\ f.opt_size \in Nat
    /\ f.magic = "ELF" => f.phoff \in Nat /\ f.phnum \in Nat /\ f.shoff \in Nat /\ f.last_nul \in Nat

\* A file as its format wants it: headers, tables and sections are inside it,
\* string tables end with a NUL, and what refers to a row of a table or to a name
\* refers to one there is.  (An index of neither a section nor the two the reader
\* knows, as of common symbols, is left out, and so are the symbols of PE files,
\* which are 18 bytes there and 24 in pecoff.h:535-542.)
WellFormedElf(f) ==
    /\ validate_elf(f) /\ ~Past(f, 0, Sizeof(f).ehdr)
    /\ f.phentsize = Sizeof(f).phdr /\ ~Past(f, f.phoff, f.phnum * f.phentsize)
    /\ ~Past(f, f.shoff, Len(f.sections) * Sizeof(f).shdr)
    /\ f.shstrndx \in OfType(f, {"strtab"})
    /\ \A k \in DOMAIN f.sections : LET s == f.sections[k] IN
          /\ ~Past(f, s.off, s.size) /\ s.name < f.sections[f.shstrndx].size
          /\ s.type = "strtab" => s.off + s.size - 1 <= f.last_nul
          /\ s.type \in {"symtab", "dynsym"} =>
                /\ s.entsize = Sizeof(f).sym /\ s.size = s.entsize * Len(s.rows)
                /\ s.link \in OfType(f, {"strtab"})
                /\ \A row \in ToSet(s.rows) :
                      /\ row.name < f.sections[s.link].size
                      /\ row.shndx \in {SHN_ABS} \cup 0..(Len(f.sections) - 1)
          /\ s.type \in {"rel", "rela"} =>
                /\ s.entsize = Sizeof(f)[s.type] /\ s.size = s.entsize * Len(s.rows)
                /\ s.link \in OfType(f, {"symtab", "dynsym"})
                /\ ToSet(s.rows) \subseteq 0..(Len(f.sections[s.link].rows) - 1)
WellFormedPe(f) ==
    /\ validate_pe(f) /\ f.opt_size >= 70 /\ f.symbols = 0
    /\ ~Past(f, f.lfanew + 24 + f.opt_size, 40 * Len(f.sections))
WellFormed(f) == IF is_pe(f) THEN WellFormedPe(f) ELSE WellFormedElf(f)

\* The last symbol table links to the last string table that is not for sections,
\* as linkers write it; other symbol tables, as that of the dynamic symbols, link
\* to whichever they want.
LastLinksToLast(f) ==
    LET others == OfType(f, {"strtab"}) \ {f.shstrndx} IN
    OfType(f, {"symtab"}) # {} /\ others # {} =>
        f.sections[LastOf(OfType(f, {"symtab"}))].link = LastOf(others)
=============================================================================

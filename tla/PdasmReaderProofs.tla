------------------------- MODULE PdasmReaderProofs -------------------------
(***************************************************************************)
(* Lemmas about PdasmReader, for every file: what it follows stays inside  *)
(* a well-formed file, a symbol has one name, and --all is all.            *)
(***************************************************************************)
EXTENDS PdasmReader, SequenceTheorems, WellFoundedInduction, TLAPS

Options == {"basic", "program", "sections", "symbols", "relocs", "all"}

(* The first and the last of some rows. *)

LEMMA FirstExists ==
    ASSUME NEW S \in SUBSET Nat, S # {}
    PROVE  FirstOf(S) \in S /\ \A j \in S : FirstOf(S) <= j
<1>1. PICK k \in S : \A j \in S : ~(<<j, k>> \in OpToRel(<, Nat))
  BY NatLessThanWellFounded, WFMin
<1>2. ASSUME NEW j \in S PROVE k <= j
  <2>1. j < k => <<j, k>> \in OpToRel(<, Nat)
    BY Zenon DEF OpToRel
  <2>2. ~(j < k)
    BY <1>1, <2>1, Zenon
  <2> QED
    BY <2>2
<1> QED
  BY <1>2 DEF FirstOf

LEMMA LastExists ==
    ASSUME NEW n \in Nat, NEW S \in SUBSET (1..n), S # {}
    PROVE  LastOf(S) \in S /\ \A j \in S : j <= LastOf(S)
<1> DEFINE T == {n - j : j \in S}
<1>1. T \in SUBSET Nat /\ T # {}
  <2>1. \A j \in S : n - j \in Nat
    BY SMT
  <2> QED
    BY <2>1, Zenon
<1>2. FirstOf(T) \in T /\ \A t \in T : FirstOf(T) <= t
  BY <1>1, FirstExists
<1>3. PICK k \in S : FirstOf(T) = n - k
  BY <1>2
<1>4. \A j \in S : n - k <= n - j
  BY <1>2, <1>3
<1>5. \A j \in S : j <= k
  BY <1>4
<1> QED
  BY <1>5 DEF LastOf

\* The section r_get_codeoff returns has code, and none before it has.
LEMMA FirstCode ==
    ASSUME NEW f, DOMAIN f.sections = 1..Len(f.sections), Len(f.sections) \in Nat,
           CodeSections(f) # {}
    PROVE  \E k \in DOMAIN f.sections :
              /\ r_get_codeoff(f) = f.sections[k] /\ IsCode(f, f.sections[k])
              /\ \A j \in 1..(k - 1) : ~IsCode(f, f.sections[j])
<1> DEFINE k == FirstOf(CodeSections(f))
<1>1. CodeSections(f) \in SUBSET (1..Len(f.sections))
  BY DEF CodeSections
<1>2. k \in CodeSections(f) /\ \A j \in CodeSections(f) : k <= j
  BY <1>1, FirstExists
<1>3. r_get_codeoff(f) = f.sections[k]
  BY DEF r_get_codeoff
<1> HIDE DEF k
<1>4. k \in 1..Len(f.sections) /\ Accepted(f) /\ IsCode(f, f.sections[k])
  BY <1>2 DEF CodeSections
<1>5. ASSUME NEW j \in 1..(k - 1) PROVE ~IsCode(f, f.sections[j])
  <2>1. j \in DOMAIN f.sections /\ ~(k <= j)
    BY <1>4
  <2> QED
    BY <1>2, <1>4, <2>1 DEF CodeSections
<1> QED
  BY <1>3, <1>4, <1>5

-----------------------------------------------------------------------------
(* A well-formed ELF file: where everything is. *)

LEMMA StructureSizes ==
    ASSUME NEW f, f.class \in {"32", "64"}
    PROVE  LET z == Sizeof(f) IN
           \/ /\ z.ehdr = 64 /\ z.phdr = 56 /\ z.shdr = 64 /\ z.sym = 24
              /\ z.rel = 16 /\ z.rela = 24
           \/ /\ z.ehdr = 52 /\ z.phdr = 32 /\ z.shdr = 40 /\ z.sym = 16
              /\ z.rel = 8 /\ z.rela = 12
<1>1. CASE f.class = "64"
  BY <1>1 DEF Sizeof
<1>2. CASE f.class = "32"
  BY <1>2 DEF Sizeof
<1> QED
  BY <1>1, <1>2

\* A table of rows of the right size has as many rows as its section says.
LEMMA CountIsLength ==
    ASSUME NEW s, Len(s.rows) \in Nat, s.entsize \in {8, 12, 16, 24},
           s.size = s.entsize * Len(s.rows)
    PROVE  Count(s) = Len(s.rows)
<1>1. \A n \in Nat : (8 * n) \div 8 = n /\ (12 * n) \div 12 = n /\ (16 * n) \div 16 = n /\ (24 * n) \div 24 = n
  OBVIOUS
<1> QED
  BY <1>1 DEF Count

\* Rows of e bytes that fill a section of the file are in the file.
LEMMA RowsFit ==
    ASSUME NEW off \in Nat, NEW n \in Nat, NEW end \in Nat, NEW e \in {8, 12, 16, 24},
           off + e * n <= end, NEW m \in 0..n
    PROVE  off + m * e <= end
<1>1. CASE e = 8
  BY <1>1
<1>2. CASE e = 12
  BY <1>2
<1>3. CASE e = 16
  BY <1>3
<1>4. CASE e = 24
  BY <1>4
<1> QED
  BY <1>1, <1>2, <1>3, <1>4

\* Every section is in the table and in the file, and has a name.
LEMMA SectionsInFile ==
    ASSUME NEW f, NEW sizes \in SUBSET Nat, FileShape(f, sizes), WellFormedElf(f),
           NEW k \in DOMAIN f.sections
    PROVE  /\ k \in Nat /\ k >= 1 /\ k <= Len(f.sections)
           /\ ~Past(f, f.shoff, k * Sizeof(f).shdr)
           /\ ~Past(f, f.sections[k].off, f.sections[k].size)
           /\ ~NameStrays(f, f.shstrndx, f.sections[k].name)
<1>1. k \in Nat /\ k >= 1 /\ k <= Len(f.sections) /\ Len(f.sections) \in Nat
  BY DEF FileShape
<1>2. f.shoff \in Nat /\ f.size \in Nat /\ f.last_nul \in Nat /\ f.class \in {"32", "64"}
  BY DEF FileShape, WellFormedElf, validate_elf
<1>3. ~Past(f, f.shoff, k * Sizeof(f).shdr)
  <2>1. ~Past(f, f.shoff, Len(f.sections) * Sizeof(f).shdr)
    BY DEF WellFormedElf
  <2>2. Sizeof(f).shdr \in {64, 40}
    BY <1>2, StructureSizes
  <2> DEFINE row == Sizeof(f).shdr
             last == Len(f.sections)
  <2> HIDE DEF row, last
  <2>3. f.shoff + last * row <= f.size
    BY <1>1, <1>2, <2>1, <2>2 DEF Past, row, last
  <2>4. f.shoff + k * row <= f.size
    <3>1. CASE row = 64
      BY <1>1, <1>2, <2>3, <3>1 DEF last
    <3>2. CASE row = 40
      BY <1>1, <1>2, <2>3, <3>2 DEF last
    <3> QED
      BY <2>2, <3>1, <3>2 DEF row
  <2> QED
    BY <1>1, <1>2, <2>2, <2>4 DEF Past, row
<1>4. ~Past(f, f.sections[k].off, f.sections[k].size)
  BY DEF WellFormedElf
<1>5. f.shstrndx \in DOMAIN f.sections /\ f.sections[f.shstrndx].type = "strtab"
  BY DEF WellFormedElf, OfType
<1>6. /\ f.sections[f.shstrndx].off \in Nat /\ f.sections[f.shstrndx].size \in Nat
      /\ f.sections[k].name \in Nat
  BY <1>5 DEF FileShape
<1>7. /\ f.sections[f.shstrndx].off + f.sections[f.shstrndx].size - 1 <= f.last_nul
      /\ f.sections[k].name < f.sections[f.shstrndx].size
  BY <1>5 DEF WellFormedElf
<1>8. ~NameStrays(f, f.shstrndx, f.sections[k].name)
  BY <1>2, <1>5, <1>6, <1>7 DEF NameStrays, NameAt
<1> QED
  BY <1>1, <1>3, <1>4, <1>8

LEMMA TableInFile ==
    ASSUME NEW f, NEW sizes \in SUBSET Nat, FileShape(f, sizes), WellFormedElf(f)
    PROVE  ~TableStrays(f) /\ f.shstrndx \in DOMAIN f.sections
<1>1. f.shstrndx \in DOMAIN f.sections
  BY DEF WellFormedElf, OfType
<1>2. ~Past(f, f.shoff, Len(f.sections) * Sizeof(f).shdr)
  BY DEF WellFormedElf
<1> QED
  BY <1>1, <1>2, SectionsInFile DEF TableStrays

\* The symbols of a symbol table, and their names in the table it links to.
LEMMA SymbolsInFile ==
    ASSUME NEW f, NEW sizes \in SUBSET Nat, FileShape(f, sizes), WellFormedElf(f),
           NEW k \in OfType(f, {"symtab", "dynsym"})
    PROVE  LET s == f.sections[k] IN
           /\ s.link \in DOMAIN f.sections /\ Count(s) = Len(s.rows)
           /\ ~RowsStray(f, s, Sizeof(f).sym)
           /\ \A n \in 1..Len(s.rows) : /\ ~Past(f, s.off, n * Sizeof(f).sym)
                                        /\ ~NameStrays(f, s.link, s.rows[n].name)
                                        /\ ~SectionOfSymbolStrays(f, s.rows[n].shndx)
<1> DEFINE s == f.sections[k]
           t == f.sections[s.link]
<1>1. k \in DOMAIN f.sections /\ s.type \in {"symtab", "dynsym"}
  BY DEF OfType
<1>2. f.size \in Nat /\ f.last_nul \in Nat /\ f.class \in {"32", "64"}
      /\ Len(f.sections) \in Nat /\ DOMAIN f.sections = 1..Len(f.sections)
  BY DEF FileShape, WellFormedElf, validate_elf
<1>3. /\ s.off \in Nat /\ s.size \in Nat /\ Len(s.rows) \in Nat /\ DOMAIN s.rows = 1..Len(s.rows)
      /\ \A n \in DOMAIN s.rows : s.rows[n].name \in Nat
  BY <1>1 DEF FileShape
<1>4. s.entsize = Sizeof(f).sym /\ s.size = s.entsize * Len(s.rows) /\ s.link \in OfType(f, {"strtab"})
  BY <1>1 DEF WellFormedElf
<1>5. Sizeof(f).sym \in {16, 24}
  BY <1>2, StructureSizes
<1>6. Count(s) = Len(s.rows)
  BY <1>3, <1>4, <1>5, CountIsLength
<1>7. s.off + s.size <= f.size
  BY <1>1, <1>2, <1>3, SectionsInFile DEF Past
<1>8. s.link \in DOMAIN f.sections /\ t.type = "strtab"
  BY <1>4 DEF OfType
<1>9. t.off \in Nat /\ t.size \in Nat /\ t.off + t.size - 1 <= f.last_nul
  BY <1>8 DEF FileShape, WellFormedElf
<1>10. \A n \in DOMAIN s.rows :
          /\ s.rows[n].name < t.size
          /\ s.rows[n].shndx # SHN_ABS => s.rows[n].shndx \in 0..(Len(f.sections) - 1)
  <2>1. \A n \in DOMAIN s.rows : s.rows[n] \in ToSet(s.rows)
    BY DEF ToSet
  <2> QED
    BY <1>1, <2>1 DEF WellFormedElf
<1> HIDE DEF s, t
<1>11. ASSUME NEW n \in 1..Len(s.rows)
       PROVE  /\ ~Past(f, s.off, n * Sizeof(f).sym)
              /\ ~NameStrays(f, s.link, s.rows[n].name)
              /\ ~SectionOfSymbolStrays(f, s.rows[n].shndx)
  <2>1. n \in Nat /\ n \in 0..Len(s.rows) /\ n \in DOMAIN s.rows
    BY <1>3
  <2>2. /\ s.rows[n].name < t.size
        /\ s.rows[n].shndx # SHN_ABS => s.rows[n].shndx \in 0..(Len(f.sections) - 1)
    BY <1>10, <2>1
  <2>3. ~Past(f, s.off, n * Sizeof(f).sym)
    <3>1. s.off + Sizeof(f).sym * Len(s.rows) <= f.size
      BY <1>4, <1>7
    <3>2. s.off + n * Sizeof(f).sym <= f.size
      BY <1>2, <1>3, <1>5, <2>1, <3>1, RowsFit
    <3> QED
      BY <1>2, <1>3, <1>5, <3>2 DEF Past
  <2>4. ~NameStrays(f, s.link, s.rows[n].name)
    <3>1. s.rows[n].name \in Nat
      BY <1>3, <2>1
    <3>2. t.off + s.rows[n].name <= f.last_nul
      <4> DEFINE name == s.rows[n].name
      <4>1. name \in Nat /\ name < t.size
        BY <2>2, <3>1
      <4> HIDE DEF name
      <4>2. t.off + name <= f.last_nul
        BY <1>2, <1>9, <4>1
      <4> QED
        BY <4>2 DEF name
    <3> QED
      BY <1>2, <1>8, <1>9, <3>1, <3>2 DEF NameStrays, NameAt, t
  <2>5. ~SectionOfSymbolStrays(f, s.rows[n].shndx)
    <3>1. s.rows[n].shndx # SHN_ABS => s.rows[n].shndx + 1 \in DOMAIN f.sections
      BY <1>2, <2>2
    <3> QED
      BY <3>1, SectionsInFile DEF SectionOfSymbolStrays
  <2> QED
    BY <2>3, <2>4, <2>5
<1>12. ~RowsStray(f, s, Sizeof(f).sym)
  <2>1. s.off + Sizeof(f).sym * Len(s.rows) <= f.size
    BY <1>4, <1>7
  <2>2. Len(s.rows) \in 0..Len(s.rows)
    BY <1>3
  <2>3. s.off + Len(s.rows) * Sizeof(f).sym <= f.size
    BY <1>2, <1>3, <1>5, <2>1, <2>2, RowsFit
  <2> QED
    BY <1>2, <1>3, <1>5, <1>6, <2>3 DEF RowsStray, Past
<1> QED
  BY <1>6, <1>8, <1>11, <1>12 DEF s

\* The rows of a relocation section, and the symbols they name.
LEMMA RelocationsInFile ==
    ASSUME NEW f, NEW sizes \in SUBSET Nat, FileShape(f, sizes), WellFormedElf(f),
           NEW k \in OfType(f, {"rel", "rela"})
    PROVE  LET s == f.sections[k] IN
           /\ s.link \in OfType(f, {"symtab", "dynsym"}) /\ s.entsize # 0
           /\ ~RowsStray(f, s, Sizeof(f)[s.type])
           /\ \A n \in ToSet(s.rows) : n \in Nat /\ n < Len(f.sections[s.link].rows)
<1> DEFINE s == f.sections[k]
           z == Sizeof(f)[s.type]
<1>1. k \in DOMAIN f.sections /\ s.type \in {"rel", "rela"}
  BY DEF OfType
<1>2. f.size \in Nat /\ f.class \in {"32", "64"}
  BY DEF FileShape, WellFormedElf, validate_elf
<1>3. s.off \in Nat /\ s.size \in Nat /\ Len(s.rows) \in Nat
  BY <1>1 DEF FileShape
<1>4. /\ s.entsize = z /\ s.size = s.entsize * Len(s.rows)
      /\ s.link \in OfType(f, {"symtab", "dynsym"})
      /\ ToSet(s.rows) \subseteq 0..(Len(f.sections[s.link].rows) - 1)
  BY <1>1 DEF WellFormedElf
<1>5. z \in {8, 12, 16, 24}
  BY <1>1, <1>2, StructureSizes
<1>6. Count(s) = Len(s.rows)
  BY <1>3, <1>4, <1>5, CountIsLength
<1>7. s.off + s.size <= f.size
  BY <1>1, <1>2, <1>3, SectionsInFile DEF Past
<1> HIDE DEF s, z
<1>8. ~RowsStray(f, s, z)
  <2>1. s.off + z * Len(s.rows) <= f.size
    BY <1>4, <1>7
  <2>2. Len(s.rows) \in 0..Len(s.rows)
    BY <1>3
  <2>3. s.off + Len(s.rows) * z <= f.size
    BY <1>2, <1>3, <1>5, <2>1, <2>2, RowsFit
  <2> QED
    BY <1>2, <1>3, <1>5, <1>6, <2>3 DEF RowsStray, Past
<1>9. Len(f.sections[s.link].rows) \in Nat
  BY <1>4 DEF FileShape, OfType
<1> QED
  BY <1>4, <1>5, <1>8, <1>9 DEF s, z

-----------------------------------------------------------------------------
(* Well-formed files are read inside. *)

\* The table print_elf_symbols names symbols from is the one their table links to.
LEMMA LastStringTable ==
    ASSUME NEW f, LastLinksToLast(f), SymbolTables(f) # {}, StringTables(f) # {}
    PROVE  f.sections[LastOf(SymbolTables(f))].link = LastOf(StringTables(f))
BY DEF LastLinksToLast, SymbolTables, StringTables

LEMMA ElfReadInside ==
    ASSUME NEW f, NEW sizes \in SUBSET Nat, FileShape(f, sizes),
           WellFormedElf(f), LastLinksToLast(f), NEW o \in Options \cup {"dasm"}
    PROVE  ~Strays(o, f) /\ ~DividesByZero(o, f)
<1>1. /\ f.size \in Nat /\ f.phoff \in Nat /\ f.phnum \in Nat
      /\ f.class \in {"32", "64"} /\ f.magic = "ELF" /\ f.phentsize = Sizeof(f).phdr
      /\ DOMAIN f.sections = 1..Len(f.sections) /\ Len(f.sections) \in Nat
      /\ f.size >= Sizeof(f).ehdr
  <2>1. Sizeof(f).ehdr \in {64, 52}
    BY StructureSizes DEF WellFormedElf, validate_elf
  <2>2. f.size \in Nat /\ ~(0 + Sizeof(f).ehdr > f.size)
    BY DEF WellFormedElf, FileShape, Past
  <2>3. f.size >= Sizeof(f).ehdr
    BY <2>1, <2>2
  <2> QED
    BY <2>3 DEF WellFormedElf, validate_elf, FileShape
<1>2. ~is_pe(f)
  BY <1>1 DEF is_pe
<1>3. ~ProgramsStray(f)
  <2> SUFFICES ASSUME f.phnum > 0
               PROVE  ~Past(f, f.phoff + (f.phnum - 1) * f.phentsize, Sizeof(f).phdr)
    BY DEF ProgramsStray
  <2>1. ~Past(f, f.phoff, f.phnum * f.phentsize)
    BY DEF WellFormedElf
  <2>2. Sizeof(f).phdr \in {56, 32}
    BY <1>1, StructureSizes
  <2>3. CASE Sizeof(f).phdr = 56
    BY <1>1, <2>1, <2>3 DEF Past
  <2>4. CASE Sizeof(f).phdr = 32
    BY <1>1, <2>1, <2>4 DEF Past
  <2> QED
    BY <2>2, <2>3, <2>4
<1>4. ~SectionsStray(f)
  BY TableInFile, SectionsInFile DEF SectionsStray
<1>5. ~SymbolsStray(f)
  <2> SUFFICES ASSUME SymbolTables(f) # {}, StringTables(f) # {}
               PROVE  LET s == f.sections[LastOf(SymbolTables(f))] IN
                      /\ ~RowsStray(f, s, Sizeof(f).sym)
                      /\ \A row \in ToSet(s.rows) :
                            /\ ~NameStrays(f, LastOf(StringTables(f)), row.name)
                            /\ ~SectionOfSymbolStrays(f, row.shndx)
    BY TableInFile DEF SymbolsStray
  <2> DEFINE k == LastOf(SymbolTables(f))
             s == f.sections[k]
  <2>1. k \in OfType(f, {"symtab"})
    <3>1. SymbolTables(f) \in SUBSET (1..Len(f.sections))
      BY <1>1 DEF SymbolTables, OfType
    <3> QED
      BY <1>1, <3>1, LastExists DEF SymbolTables
  <2>2. s.link = LastOf(StringTables(f))
    BY LastStringTable
  <2>3. DOMAIN s.rows = 1..Len(s.rows)
    BY <2>1 DEF OfType, FileShape
  <2> HIDE DEF k
  <2>4. k \in OfType(f, {"symtab", "dynsym"}) /\ ~RowsStray(f, s, Sizeof(f).sym)
    <3>1. k \in OfType(f, {"symtab", "dynsym"})
      BY <2>1 DEF OfType
    <3> QED
      BY <3>1, SymbolsInFile
  <2>5. ASSUME NEW row \in ToSet(s.rows)
        PROVE  ~NameStrays(f, LastOf(StringTables(f)), row.name) /\ ~SectionOfSymbolStrays(f, row.shndx)
    <3> PICK n \in 1..Len(s.rows) : row = s.rows[n]
      BY <2>3 DEF ToSet
    <3> QED
      BY <2>2, <2>4, SymbolsInFile
  <2> QED
    BY <2>4, <2>5 DEF k
<1>6. ~RelocsStray(f)
  <2> SUFFICES ASSUME NEW k \in OfType(f, {"rel", "rela"})
               PROVE  LET s == f.sections[k] IN
                      /\ ~NameStrays(f, f.shstrndx, s.name)
                      /\ ~RowsStray(f, s, Sizeof(f)[s.type])
                      /\ s.link \in DOMAIN f.sections
                      /\ LET symtab == f.sections[s.link] IN
                         /\ symtab.link \in DOMAIN f.sections
                         /\ \A n \in ToSet(s.rows) \ {0} :
                               /\ ~(n >= Len(symtab.rows))
                               /\ ~Past(f, symtab.off, (n + 1) * Sizeof(f).sym)
                               /\ ~NameStrays(f, symtab.link, symtab.rows[n + 1].name)
    BY TableInFile DEF RelocsStray
  <2> DEFINE s == f.sections[k]
             symtab == f.sections[s.link]
  <2>1. k \in DOMAIN f.sections
    BY DEF OfType
  <2>2. /\ s.link \in OfType(f, {"symtab", "dynsym"}) /\ ~RowsStray(f, s, Sizeof(f)[s.type])
        /\ \A n \in ToSet(s.rows) : n \in Nat /\ n < Len(symtab.rows)
    BY RelocationsInFile
  <2>3. s.link \in DOMAIN f.sections
    BY <2>2 DEF OfType
  <2>4. Len(symtab.rows) \in Nat
    BY <2>3 DEF FileShape
  <2>5. /\ symtab.link \in DOMAIN f.sections
        /\ \A n \in 1..Len(symtab.rows) : /\ ~Past(f, symtab.off, n * Sizeof(f).sym)
                                          /\ ~NameStrays(f, symtab.link, symtab.rows[n].name)
    BY <2>2, SymbolsInFile
  <2>6. ~NameStrays(f, f.shstrndx, s.name)
    BY <2>1, SectionsInFile
  <2> HIDE DEF s, symtab
  <2>7. ASSUME NEW n \in ToSet(s.rows)
        PROVE  /\ ~(n >= Len(symtab.rows)) /\ ~Past(f, symtab.off, (n + 1) * Sizeof(f).sym)
               /\ ~NameStrays(f, symtab.link, symtab.rows[n + 1].name)
    <3>1. n \in Nat /\ n < Len(symtab.rows) /\ n + 1 \in 1..Len(symtab.rows)
      BY <2>2, <2>4
    <3> QED
      BY <2>4, <2>5, <3>1
  <2> QED
    BY <2>2, <2>3, <2>5, <2>6, <2>7 DEF s, symtab
<1>7. ~CodeSectionStrays(f, f.shoff, Sizeof(f).shdr)
  BY SectionsInFile DEF CodeSectionStrays
<1>8. ~Strays(o, f)
  <2>1. ~ElfStrays(f)[o]
    <3>1. CASE o = "basic"
      BY <1>3, <1>4, <1>5, <1>6, <1>7, <3>1, Zenon DEF ElfStrays
    <3>2. CASE o = "program"
      BY <1>3, <1>4, <1>5, <1>6, <1>7, <3>2, Zenon DEF ElfStrays
    <3>3. CASE o = "sections"
      BY <1>3, <1>4, <1>5, <1>6, <1>7, <3>3, Zenon DEF ElfStrays
    <3>4. CASE o = "symbols"
      BY <1>3, <1>4, <1>5, <1>6, <1>7, <3>4, Zenon DEF ElfStrays
    <3>5. CASE o = "relocs"
      BY <1>3, <1>4, <1>5, <1>6, <1>7, <3>5, Zenon DEF ElfStrays
    <3>6. CASE o = "all"
      BY <1>3, <1>4, <1>5, <1>6, <1>7, <3>6, Zenon DEF ElfStrays
    <3>7. CASE o = "dasm"
      BY <1>3, <1>4, <1>5, <1>6, <1>7, <3>7, Zenon DEF ElfStrays
    <3> QED
      BY <3>1, <3>2, <3>3, <3>4, <3>5, <3>6, <3>7 DEF Options
  <2>2. ~(f.size < Sizeof(f).ehdr)
    BY <1>1, StructureSizes
  <2> QED
    BY <1>2, <2>1, <2>2 DEF Strays
<1>9. ~DividesByZero(o, f)
  <2>1. \A k \in OfType(f, {"symtab"}) : f.sections[k].entsize # 0
    <3>1. \A k \in OfType(f, {"symtab"}) : f.sections[k].entsize = Sizeof(f).sym
      BY DEF WellFormedElf, OfType
    <3> QED
      BY <1>1, <3>1, StructureSizes
  <2>2. \A k \in OfType(f, {"rel", "rela"}) : f.sections[k].entsize # 0
    BY RelocationsInFile
  <2>3. \A k \in OfType(f, {"symtab", "rel", "rela"}) : f.sections[k].entsize # 0
    BY <2>1, <2>2 DEF OfType
  <2> QED
    BY <2>1, <2>2, <2>3 DEF DividesByZero, Options, OfType
<1> QED
  BY <1>8, <1>9

LEMMA PeReadInside ==
    ASSUME NEW f, NEW sizes \in SUBSET Nat, FileShape(f, sizes), WellFormedPe(f),
           is_pe(f), NEW o \in Options \cup {"dasm"}
    PROVE  ~Strays(o, f) /\ ~DividesByZero(o, f)
<1>1. /\ f.size \in Nat /\ f.lfanew \in Nat /\ f.opt_size \in Nat /\ Len(f.sections) \in Nat
      /\ f.opt_size >= 70 /\ f.size >= 64 /\ f.symbols = 0
      /\ DOMAIN f.sections = 1..Len(f.sections)
      /\ f.lfanew + 24 + f.opt_size + 40 * Len(f.sections) <= f.size
  <2>1. /\ f.magic = "MZ" /\ f.size >= 64 /\ f.opt_size >= 70 /\ f.symbols = 0
        /\ ~(f.lfanew + 24 + f.opt_size + 40 * Len(f.sections) > f.size)
    BY DEF WellFormedPe, validate_pe, Past
  <2>2. /\ f.size \in Nat /\ Len(f.sections) \in Nat /\ DOMAIN f.sections = 1..Len(f.sections)
        /\ f.lfanew \in Nat /\ f.opt_size \in Nat
    BY <2>1 DEF FileShape
  <2> QED
    BY <2>1, <2>2
<1>2. ~Past(f, f.lfanew + 24, 2) /\ ~PeOptionalStrays(f) /\ ~PeHeaderStrays(f)
  <2>1. f.lfanew + 24 + 70 <= f.size
    BY <1>1
  <2> QED
    BY <1>1, <2>1 DEF Past, PeOptionalStrays, PeHeaderStrays
<1>3. ~PeSectionsStray(f) /\ ~CodeSectionStrays(f, PeTable(f), 40)
  <2>1. ~Past(f, PeTable(f), 40 * Len(f.sections))
    BY <1>1 DEF Past, PeTable
  <2>2. ASSUME NEW k \in DOMAIN f.sections PROVE ~Past(f, PeTable(f), k * 40)
    <3> DEFINE count == Len(f.sections)
    <3> DEFINE table == PeTable(f)
    <3>1. k \in 1..count /\ count \in Nat
      BY <1>1
    <3>2. table \in Nat /\ f.size \in Nat /\ table + 40 * count <= f.size
      BY <1>1 DEF PeTable
    <3> HIDE DEF count, table
    <3>3. k \in Nat /\ k * 40 <= 40 * count
      BY <3>1
    <3>4. ~(table + k * 40 > f.size)
      BY <3>1, <3>2, <3>3
    <3> QED
      BY <3>4 DEF Past, table
  <2> QED
    BY <2>1, <2>2 DEF PeSectionsStray, CodeSectionStrays
<1>4. ~PeSymbolsStray(f)
  BY <1>1, <1>2 DEF PeSymbolsStray
<1>5. ~PeStrays(f)[o]
  <2>1. CASE o = "basic"
    BY <1>2, <1>3, <1>4, <2>1, Zenon DEF PeStrays
  <2>2. CASE o = "program"
    BY <1>2, <1>3, <1>4, <2>2, Zenon DEF PeStrays
  <2>3. CASE o = "sections"
    BY <1>2, <1>3, <1>4, <2>3, Zenon DEF PeStrays
  <2>4. CASE o = "symbols"
    BY <1>2, <1>3, <1>4, <2>4, Zenon DEF PeStrays
  <2>5. CASE o = "relocs"
    BY <1>2, <1>3, <1>4, <2>5, Zenon DEF PeStrays
  <2>6. CASE o = "all"
    BY <1>2, <1>3, <1>4, <2>6, Zenon DEF PeStrays
  <2>7. CASE o = "dasm"
    BY <1>2, <1>3, <1>4, <2>7, Zenon DEF PeStrays
  <2> QED
    BY <2>1, <2>2, <2>3, <2>4, <2>5, <2>6, <2>7 DEF Options
<1>6. ~Strays(o, f)
  BY <1>1, <1>2, <1>5 DEF Strays
<1> QED
  BY <1>6 DEF DividesByZero

LEMMA WellFormedReadInside ==
    ASSUME NEW f, NEW sizes \in SUBSET Nat, FileShape(f, sizes), WellFormed(f),
           is_pe(f) \/ LastLinksToLast(f), NEW o \in Options \cup {"dasm"}
    PROVE  ~Strays(o, f) /\ ~DividesByZero(o, f)
BY ElfReadInside, PeReadInside DEF WellFormed

-----------------------------------------------------------------------------
(* What is printed. *)

Outcomes == {"shown", "truncated", "none"}

Reports(f) ==
    IF is_pe(f)
    THEN {Refused, DosHeader, PeHeader(f), PeOptional(f), PeSections(f), print_pe_symbols(f)}
    ELSE {Refused, ElfHeader, ElfPrograms(f), ElfSections(f), print_elf_symbols(f),
          print_elf_relocations(f)}

\* An option prints reports of the file.
LEMMA InfoIsSeq ==
    ASSUME NEW f, NEW o \in Options
    PROVE  Info(o, f) \in Seq(Reports(f))
<1>1. CASE Checks(o, f) /\ ~Accepted(f)
  <2>1. Info(o, f) = <<Refused>> /\ Refused \in Reports(f)
    BY <1>1, Zenon DEF Info, Reports
  <2> HIDE DEF Refused
  <2> QED
    BY <2>1
<1>2. CASE ~(Checks(o, f) /\ ~Accepted(f)) /\ is_pe(f)
  <2> DEFINE R == Reports(f)
  <2>1. Info(o, f) = PeTables(f)[o]
    BY <1>2, Zenon DEF Info
  <2>2. /\ DosHeader \in R /\ PeHeader(f) \in R /\ PeOptional(f) \in R /\ PeSections(f) \in R
        /\ print_pe_symbols(f) \in R
    BY <1>2, Zenon DEF Reports
  <2> HIDE DEF R
  <2>3. PeTables(f)[o] \in Seq(R)
    <3>1. ASSUME NEW a \in R, NEW b \in R, NEW c \in R, NEW d \in R, NEW e \in R
          PROVE  <<a>> \in Seq(R) /\ <<a, b, c>> \in Seq(R) /\ <<a, b, c, d, e>> \in Seq(R)
      OBVIOUS
    <3>2. /\ <<DosHeader, PeHeader(f), PeOptional(f)>> \in Seq(R)
          /\ <<PeOptional(f)>> \in Seq(R) /\ <<PeSections(f)>> \in Seq(R)
          /\ <<print_pe_symbols(f)>> \in Seq(R) /\ print_all_pe(f) \in Seq(R)
      BY <2>2, <3>1, Zenon DEF print_all_pe
    <3>3. PeTables(f)[o] \in {<<DosHeader, PeHeader(f), PeOptional(f)>>, <<PeOptional(f)>>,
                              <<PeSections(f)>>, <<print_pe_symbols(f)>>, print_all_pe(f)}
      BY DEF PeTables, Options
    <3> QED
      BY <3>2, <3>3, Zenon
  <2> QED
    BY <2>1, <2>3 DEF R
<1>3. CASE ~(Checks(o, f) /\ ~Accepted(f)) /\ ~is_pe(f)
  <2> DEFINE R == Reports(f)
  <2>1. Info(o, f) = ElfTables(f)[o]
    BY <1>3, Zenon DEF Info
  <2>2. /\ ElfHeader \in R /\ ElfPrograms(f) \in R /\ ElfSections(f) \in R
        /\ print_elf_symbols(f) \in R /\ print_elf_relocations(f) \in R
    BY <1>3, Zenon DEF Reports
  <2> HIDE DEF R
  <2>3. ElfTables(f)[o] \in Seq(R)
    <3>1. ASSUME NEW a \in R, NEW b \in R, NEW c \in R, NEW d \in R, NEW e \in R
          PROVE  <<a>> \in Seq(R) /\ <<a, b, c, d, e>> \in Seq(R)
      OBVIOUS
    <3>2. /\ <<ElfHeader>> \in Seq(R) /\ <<ElfPrograms(f)>> \in Seq(R)
          /\ <<ElfSections(f)>> \in Seq(R) /\ <<print_elf_symbols(f)>> \in Seq(R)
          /\ <<print_elf_relocations(f)>> \in Seq(R) /\ print_all_elf(f) \in Seq(R)
      BY <2>2, <3>1, Zenon DEF print_all_elf
    <3>3. ElfTables(f)[o] \in {<<ElfHeader>>, <<ElfPrograms(f)>>, <<ElfSections(f)>>,
                               <<print_elf_symbols(f)>>, <<print_elf_relocations(f)>>,
                               print_all_elf(f)}
      BY DEF ElfTables, Options
    <3> QED
      BY <3>2, <3>3, Zenon
  <2> QED
    BY <2>1, <2>3 DEF R
<1> QED
  BY <1>1, <1>2, <1>3

LEMMA ReportOutcome ==
    ASSUME NEW f, NEW r \in Reports(f)
    PROVE  r.outcome \in Outcomes
<1>1. ASSUME NEW t, NEW at, NEW names
      PROVE  NamedReport(t, at, f, names).outcome \in Outcomes
  BY DEF NamedReport, Outcomes
<1>2. ASSUME NEW t, NEW at PROVE Report(t, at, f).outcome \in Outcomes
  BY <1>1 DEF Report
<1>3. ASSUME NEW t PROVE Shown(t).outcome \in Outcomes
  BY DEF Shown, Outcomes
<1>4. NoSymbols.outcome \in Outcomes
  BY DEF NoSymbols, Outcomes
<1>5. print_elf_symbols(f).outcome \in Outcomes /\ print_pe_symbols(f).outcome \in Outcomes
  BY <1>1, <1>2, <1>4, Zenon DEF print_elf_symbols, print_pe_symbols
<1>6. print_elf_relocations(f).outcome \in Outcomes
  BY <1>1, Zenon DEF print_elf_relocations
<1>7. /\ ElfPrograms(f).outcome \in Outcomes /\ ElfSections(f).outcome \in Outcomes
      /\ PeHeader(f).outcome \in Outcomes /\ PeOptional(f).outcome \in Outcomes
      /\ PeSections(f).outcome \in Outcomes
  BY <1>2, Zenon DEF ElfPrograms, ElfSections, PeHeader, PeOptional, PeSections
<1>8. Refused.outcome \in Outcomes /\ ElfHeader.outcome \in Outcomes /\ DosHeader.outcome \in Outcomes
  BY <1>3, Zenon DEF Refused, ElfHeader, DosHeader
<1> QED
  BY <1>5, <1>6, <1>7, <1>8, Zenon DEF Reports

\* Of an accepted file, --all prints what any option prints.
LEMMA AllIsAll ==
    ASSUME NEW f, Accepted(f), NEW o \in Options
    PROVE  ToSet(Info(o, f)) \subseteq ToSet(Info("all", f))
<1>1. CASE is_pe(f)
  <2>1. Info(o, f) = PeTables(f)[o] /\ Info("all", f) = print_all_pe(f)
    BY <1>1, Zenon DEF Info, PeTables
  <2>2. ToSet(PeTables(f)[o]) \subseteq
            {DosHeader, PeHeader(f), PeOptional(f), PeSections(f), print_pe_symbols(f)}
    BY DEF PeTables, Options, print_all_pe, ToSet
  <2>3. ToSet(print_all_pe(f)) =
            {DosHeader, PeHeader(f), PeOptional(f), PeSections(f), print_pe_symbols(f)}
    BY DEF print_all_pe, ToSet
  <2> QED
    BY <2>1, <2>2, <2>3, Zenon
<1>2. CASE ~is_pe(f)
  <2>1. Info(o, f) = ElfTables(f)[o] /\ Info("all", f) = print_all_elf(f)
    BY <1>2, Zenon DEF Info, ElfTables
  <2>2. ToSet(ElfTables(f)[o]) \subseteq
            {ElfHeader, ElfPrograms(f), ElfSections(f), print_elf_symbols(f), print_elf_relocations(f)}
    BY DEF ElfTables, Options, print_all_elf, ToSet
  <2>3. ToSet(print_all_elf(f)) =
            {ElfHeader, ElfPrograms(f), ElfSections(f), print_elf_symbols(f), print_elf_relocations(f)}
    BY DEF print_all_elf, ToSet
  <2> QED
    BY <2>1, <2>2, <2>3, Zenon
<1> QED
  BY <1>1, <1>2

\* Refused is what basic prints of the files the reader does not accept.
LEMMA RefusedIsRefused ==
    ASSUME NEW f, Refused \in ToSet(Info("basic", f))
    PROVE  ~Accepted(f)
<1> SUFFICES ASSUME Accepted(f) PROVE FALSE
  OBVIOUS
<1>1. /\ Refused.table = "error" /\ ElfHeader.table = "ELF header" /\ DosHeader.table = "DOS header"
      /\ PeHeader(f).table = "PE header" /\ PeOptional(f).table = "optional header"
  BY DEF Refused, ElfHeader, DosHeader, PeHeader, PeOptional, Shown, Report, NamedReport
<1>2. ToSet(Info("basic", f)) \subseteq {ElfHeader, DosHeader, PeHeader(f), PeOptional(f)}
  BY DEF Info, ElfTables, PeTables, ToSet
<1> QED
  BY <1>1, <1>2, Zenon

\* The name of a symbol is where the table its symbol table links to has it.
LEMMA NamesAgree ==
    ASSUME NEW f, NEW sizes \in SUBSET Nat, FileShape(f, sizes),
           WellFormedElf(f), LastLinksToLast(f), NEW r \in Reports(f), NEW a \in r.names
    PROVE  a[3] = NameAt(f, f.sections[a[1]].link, f.sections[a[1]].rows[a[2] + 1].name)
<1> DEFINE Named(b) == b[3] = NameAt(f, f.sections[b[1]].link, f.sections[b[1]].rows[b[2] + 1].name)
<1>1. ~is_pe(f)
  BY DEF WellFormedElf, validate_elf, is_pe
<1>2. ASSUME NEW k, NEW S, NEW b \in NamesFrom(f, k, f.sections[k].link, S) PROVE Named(b)
  BY DEF NamesFrom
<1> HIDE DEF Named
<1>3. ASSUME NEW x, NEW at, NEW names, \A b \in names : Named(b)
      PROVE  \A b \in NamedReport(x, at, f, names).names : Named(b)
  BY <1>3 DEF NamedReport
<1>4. ASSUME NEW x, NEW at PROVE \A b \in Report(x, at, f).names : Named(b)
  BY <1>3 DEF Report
<1>5. \A b \in print_elf_symbols(f).names : Named(b)
  <2>1. CASE f.shoff < f.size /\ (SymbolTables(f) = {} \/ StringTables(f) = {})
    BY <2>1 DEF print_elf_symbols, NoSymbols
  <2>2. CASE f.shoff >= f.size
    <3>1. print_elf_symbols(f).names = {}
      BY <2>2 DEF print_elf_symbols, NoSymbols, Report, NamedReport
    <3> QED
      BY <3>1
  <2>3. CASE ~(f.shoff >= f.size) /\ SymbolTables(f) # {} /\ StringTables(f) # {}
    <3> DEFINE k == LastOf(SymbolTables(f))
               N == NamesFrom(f, k, LastOf(StringTables(f)), 0..(Count(f.sections[k]) - 1))
    <3>1. print_elf_symbols(f) = NamedReport("symbols", f.shoff, f, N)
      BY <2>3, Zenon DEF print_elf_symbols
    <3>2. f.sections[k].link = LastOf(StringTables(f))
      BY <2>3, LastStringTable, Zenon
    <3>3. \A b \in N : Named(b)
      BY <1>2, <3>2, Zenon
    <3> QED
      BY <1>3, <3>1, <3>3, Zenon
  <2>4. f.shoff \in Nat /\ f.size \in Nat
    BY DEF WellFormedElf, validate_elf, FileShape
  <2> QED
    BY <2>1, <2>2, <2>3, <2>4
<1>6. \A b \in print_elf_relocations(f).names : Named(b)
  <2> DEFINE N(k) == LET s == f.sections[k] IN
                 IF s.link \in DOMAIN f.sections /\ f.sections[s.link].link \in DOMAIN f.sections
                 THEN NamesFrom(f, s.link, f.sections[s.link].link,
                              {s.rows[i] : i \in {m \in DOMAIN s.rows : m <= Count(s)}} \ {0})
                 ELSE {}
  <2>1. ASSUME NEW k \in OfType(f, {"rel", "rela"}) PROVE \A b \in N(k) : Named(b)
    BY <1>2, Zenon
  <2>2. print_elf_relocations(f) =
            NamedReport("relocations", f.shoff, f, UNION {N(k) : k \in OfType(f, {"rel", "rela"})})
    BY Zenon DEF print_elf_relocations
  <2> HIDE DEF N
  <2>3. \A b \in UNION {N(k) : k \in OfType(f, {"rel", "rela"})} : Named(b)
    BY <2>1, Zenon
  <2> QED
    BY <1>3, <2>2, <2>3, Zenon
<1>7. /\ \A b \in Refused.names : Named(b)
      /\ \A b \in ElfHeader.names : Named(b)
  BY DEF Refused, ElfHeader, Shown
<1>8. /\ \A b \in ElfPrograms(f).names : Named(b)
      /\ \A b \in ElfSections(f).names : Named(b)
  BY <1>4, Zenon DEF ElfPrograms, ElfSections
<1>9. Named(a)
  BY <1>1, <1>5, <1>6, <1>7, <1>8, Zenon DEF Reports
<1> QED
  BY <1>9, Zenon DEF Named

=============================================================================

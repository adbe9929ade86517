------------------------- MODULE PdasmDecodeProofs -------------------------
(***************************************************************************)
(* Proofs about PdasmDecode, for every section of every file, every        *)
(* address and every set of x86 lengths.                                   *)
(***************************************************************************)
EXTENDS PdasmDecode, FiniteSetTheorems, TLAPS

(* Arithmetic modulo M: two additions are one. *)

LEMMA DivMod ==
    ASSUME NEW x \in Int, NEW M \in Nat \ {0}
    PROVE  x = M * (x \div M) + (x % M) /\ x % M \in 0..(M - 1) /\ x \div M \in Int
BY SMT

LEMMA MultipleIsLarge ==
    ASSUME NEW q \in Int, NEW M \in Nat \ {0}, q >= 1
    PROVE  M * q >= M
BY SMT

LEMMA RemainderUnique ==
    ASSUME NEW M \in Nat \ {0}, NEW p \in Int, NEW q \in Int,
           NEW r \in 0..(M - 1), NEW s \in 0..(M - 1), M * p + r = M * q + s
    PROVE  r = s
<1>1. M * (p - q) = s - r
  BY SMT
<1>2. CASE p - q >= 1
  <2>1. M * (p - q) >= M
    BY <1>2, MultipleIsLarge, p - q \in Int
  <2> QED
    BY <1>1, <2>1
<1>3. CASE q - p >= 1
  <2>1. M * (q - p) >= M
    BY <1>3, MultipleIsLarge, q - p \in Int
  <2>2. M * (q - p) = r - s
    BY SMT
  <2> QED
    BY <2>1, <2>2
<1>4. CASE p = q
  BY <1>1, <1>4
<1> QED
  BY <1>2, <1>3, <1>4

LEMMA AddAfterMod ==
    ASSUME NEW M \in Nat \ {0}, NEW x \in Int, NEW y \in Int
    PROVE  ((x % M) + y) % M = (x + y) % M
<1> DEFINE a == x \div M
           b == ((x % M) + y) \div M
           c == (x + y) \div M
           d == a + b
           r == ((x % M) + y) % M
           s == (x + y) % M
<1>1. x = M * a + (x % M) /\ a \in Int /\ x % M \in Int
  BY DivMod
<1>2. (x % M) + y = M * b + r /\ b \in Int /\ r \in 0..(M - 1)
  <2>1. (x % M) + y \in Int
    BY <1>1
  <2> QED
    BY <2>1, DivMod
<1>3. x + y = M * c + s /\ c \in Int /\ s \in 0..(M - 1)
  BY DivMod
<1> HIDE DEF a, b, c, r, s
<1>4. M * d = M * a + M * b /\ d \in Int
  BY <1>1, <1>2
<1>5. M * d + r = M * c + s
  BY <1>1, <1>2, <1>3, <1>4
<1> HIDE DEF d
<1>6. r = s
  BY <1>2, <1>3, <1>4, <1>5, RemainderUnique
<1> QED
  BY <1>6 DEF r, s

-----------------------------------------------------------------------------
(* The lengths. *)

LEMMA FlagsAreFinite == ASSUME NEW flags \in SUBSET Flag
                        PROVE  IsFiniteSet(flags) /\ IsFiniteSet(flags \ {"valid"})
<1>1. Flag = {"valid"} \cup ({"imm"} \cup ({"disp64"} \cup {"ext"}))
  BY DEF Flag
<1>2. IsFiniteSet(Flag)
  BY <1>1, FS_Singleton, FS_Union
<1> QED
  BY <1>2, FS_Subset

\* An instruction has at least its word; read alike by both programs, it has
\* the same length in both.
LEMMA LengthFacts ==
    ASSUME NEW flags \in SUBSET Flag
    PROVE  /\ Length(flags) \in Nat \ {0}
           /\ LoaderNeeds(flags) \in Nat
           /\ ~ReadDifferently(flags) => Length(flags) = LoaderNeeds(flags)
<1>1. Cardinality(flags \ {"valid"}) \in Nat
  BY FlagsAreFinite, FS_CardinalityType
<1>2. Length(flags) \in Nat \ {0} /\ LoaderNeeds(flags) \in Nat
  BY <1>1 DEF Length, LoaderNeeds
<1>3. ASSUME ~ReadDifferently(flags), "valid" \in flags
      PROVE  Length(flags) = LoaderNeeds(flags)
  <2>1. CASE flags \cap {"imm", "disp64"} = {}
    <3>1. flags \ {"valid"} = {}
      BY <1>3, <2>1 DEF ReadDifferently, Flag
    <3>2. Cardinality(flags \ {"valid"}) = 0
      BY <3>1, FS_EmptySet
    <3> QED
      BY <1>3, <2>1, <3>2 DEF Length, LoaderNeeds
  <2>2. CASE flags \cap {"imm", "disp64"} # {}
    <3>1. \E f : flags \ {"valid"} = {f}
      BY <1>3, <2>2 DEF ReadDifferently, Flag
    <3>2. Cardinality(flags \ {"valid"}) = 1
      BY <3>1, FS_Singleton
    <3> QED
      BY <1>3, <2>2, <3>2 DEF Length, LoaderNeeds
  <2> QED
    BY <2>1, <2>2
<1>4. ASSUME "valid" \notin flags PROVE Length(flags) = LoaderNeeds(flags)
  BY <1>4 DEF Length, LoaderNeeds
<1> QED
  BY <1>2, <1>3, <1>4

-----------------------------------------------------------------------------
(* The invariant: the offset, the last offset, the address and the last line *)
(* move together.                                                            *)

PlaceInv ==
    /\ last_off = off /\ off >= soff
    /\ vaddr = (svaddr + (off - soff)) % Modulus
    /\ line = NoLine => off = soff
    /\ line # NoLine => line.at + line.len = off /\ line.at >= soff
    /\ dpc \in {"start", "loop"} => said = "nothing"
    /\ dpc = "done" /\ said = "nothing" => off >= End

\* The buffer is dirty only until the first line is printed.
TextInv ==
    /\ out = "indeterminate" => line = NoLine
    /\ OnlyFirstLineIndeterminate

DInv == DTypeOK /\ PlaceInv /\ TextInv /\ AgreesWithLoader

LEMMA ArgumentRanges ==
    ASSUME DTypeOK
    PROVE  /\ size \in 0..(Modulus - 1) /\ svaddr \in 0..(Modulus - 1)
           /\ soff \in 0..(Modulus - 1) /\ code_size \in 0..(Modulus - 1)
           /\ Modulus \in Nat \ {0}
BY ArgumentsAssumption, ModulusAssumption DEF DTypeOK

\* The end of the section is where it is, or nearer when it wraps.
LEMMA EndIsReal == ASSUME DTypeOK PROVE End \in Int /\ End <= soff + code_size
<1>1. /\ code_size \in Nat /\ soff \in Nat /\ Modulus \in Nat \ {0}
  BY ArgumentRanges
<1> DEFINE x == code_size + soff
<1>2. x \in Nat
  BY <1>1
<1> HIDE DEF x
<1>3. x % Modulus \in Int /\ x % Modulus <= x
  BY <1>1, <1>2, SMT
<1> QED
  BY <1>1, <1>3 DEF x, End

LEMMA InitDInv == DInit => DInv
<1> SUFFICES ASSUME DInit PROVE DInv
  OBVIOUS
<1>1. /\ soff \in 0..(Modulus - 1) /\ svaddr \in 0..(Modulus - 1) /\ Modulus \in Nat \ {0}
      /\ code_size \in 0..(Modulus - 1)
  BY ArgumentsAssumption, ModulusAssumption DEF DInit
<1>2. svaddr = (svaddr + (soff - soff)) % Modulus
  BY <1>1, SMT
<1>3. DTypeOK
  <2>1. off \in Nat /\ last_off \in Nat /\ vaddr \in 0..(Modulus - 1) /\ loader_at \in Nat
    BY <1>1 DEF DInit, Entry
  <2>2. line \in Line \cup {NoLine} /\ overread \in BOOLEAN /\ differ \in BOOLEAN
    BY DEF DInit, Entry
  <2> QED
    BY <2>1, <2>2 DEF DInit, Entry, DTypeOK, DFinal
<1>4. PlaceInv
  BY <1>1, <1>2 DEF DInit, Entry, PlaceInv
<1>5. TextInv
  BY DEF DInit, Entry, TextInv, OnlyFirstLineIndeterminate, NoLine
<1>6. AgreesWithLoader
  BY <1>1 DEF DInit, Entry, AgreesWithLoader
<1> QED
  BY <1>3, <1>4, <1>5, <1>6 DEF DInv

\* A step that prints no line leaves everything but dpc and the message alone.
LEMMA QuietStepKeepsDInv ==
    ASSUME DInv,
           UNCHANGED <<args, off, last_off, vaddr, out, line, overread, loader_at, differ>>,
           dpc' \in DFinal \cup {"loop"}, said' \in {"nothing", "truncated", "unsupported"},
           dpc' = "loop" => said' = "nothing",
           dpc' = "done" /\ said' = "nothing" => off >= End
    PROVE  DInv'
<1>1. DTypeOK'
  BY DEF DInv, DTypeOK, args
<1>2. PlaceInv'
  BY DEF DInv, PlaceInv, End, args, DFinal
<1>3. TextInv' /\ AgreesWithLoader'
  BY DEF DInv, TextInv, OnlyFirstLineIndeterminate, AgreesWithLoader, args
<1> QED
  BY <1>1, <1>2, <1>3 DEF DInv

\* What a printed line leaves of the invariant, and where the line is.
LEMMA PrintKeepsPlace ==
    ASSUME DInv, dpc = "loop", InSection,
           NEW len \in Nat \ {0}, NEW prefix \in {"indeterminate", "empty"},
           PrintLine(len, prefix)
    PROVE  /\ PlaceInv' /\ off' = off + len
           /\ off' \in Nat /\ last_off' \in Nat /\ vaddr' \in 0..(Modulus - 1)
           /\ line' \in Line /\ line' # NoLine /\ line'.at = off
           /\ line'.at = IF line = NoLine THEN soff ELSE line.at + line.len
           /\ line'.at < End
           /\ line'.addr = (svaddr + (line'.at - soff)) % Modulus
<1>1. /\ off \in Nat /\ soff \in Nat /\ svaddr \in Nat /\ Modulus \in Nat \ {0}
      /\ last_off = off /\ off >= soff /\ vaddr = (svaddr + (off - soff)) % Modulus
      /\ vaddr \in 0..(Modulus - 1)
  BY ArgumentRanges DEF DInv, DTypeOK, PlaceInv
<1>2. /\ off' = off + len /\ last_off' = off + len
      /\ line' = [addr |-> vaddr, at |-> off, len |-> len, prefix |-> prefix]
      /\ vaddr' = (vaddr + (off' - last_off)) % Modulus
      /\ UNCHANGED <<args, dpc, said>>
  BY DEF PrintLine, NextOff, NextVaddr
<1>3. vaddr' = (vaddr + len) % Modulus
  <2>1. off' - last_off = len
    BY <1>1, <1>2
  <2> QED
    BY <1>2, <2>1
<1>4. vaddr' = (svaddr + (off' - soff)) % Modulus
  <2> DEFINE x == svaddr + (off - soff)
  <2>1. x \in Int /\ len \in Int /\ x + len = svaddr + (off' - soff)
    BY <1>1, <1>2
  <2>2. vaddr = x % Modulus
    BY <1>1
  <2> HIDE DEF x
  <2>3. ((x % Modulus) + len) % Modulus = (x + len) % Modulus
    BY <1>1, <2>1, AddAfterMod
  <2> QED
    BY <1>3, <2>1, <2>2, <2>3
<1>5. vaddr' \in 0..(Modulus - 1)
  <2>1. vaddr + len \in Int
    BY <1>1
  <2> QED
    BY <1>1, <1>3, <2>1, DivMod
<1>6. line' \in Line /\ line' # NoLine /\ line'.at = off /\ line'.len = len /\ line'.addr = vaddr
  BY <1>1, <1>2 DEF Line, NoLine
<1>7. line'.at = IF line = NoLine THEN soff ELSE line.at + line.len
  BY <1>6 DEF DInv, PlaceInv
<1>8. off' >= soff /\ line'.at >= soff /\ line'.at + line'.len = off'
  BY <1>1, <1>2, <1>6
<1>9. PlaceInv'
  BY <1>2, <1>4, <1>6, <1>8 DEF DInv, PlaceInv, args
<1> QED
  BY <1>1, <1>2, <1>5, <1>6, <1>7, <1>9 DEF InSection

LEMMA NextDInv == DInv /\ [DNext]_dvars => DInv'
<1> SUFFICES ASSUME DInv, [DNext]_dvars PROVE DInv'
  OBVIOUS
<1>0. said \in {"nothing", "truncated", "unsupported"} /\ dpc \in DFinal \cup {"start", "loop"}
  BY DEF DInv, DTypeOK
<1>1. CASE Truncated \/ Unsupported
  BY <1>1, QuietStepKeepsDInv DEF Truncated, Unsupported, Refuse, DFinal
<1>2. CASE Supported
  <2>1. said' = "nothing"
    BY <1>2 DEF Supported, DInv, PlaceInv
  <2> QED
    BY <1>2, <2>1, QuietStepKeepsDInv DEF Supported, DFinal
<1>3. CASE LineX86
  <2> PICK len \in X86Lengths : PrintLine(len, "empty")
    BY <1>3 DEF LineX86
  <2>1. len \in Nat \ {0} /\ dpc = "loop" /\ InSection /\ arch \in X86Archs
    BY <1>3, LengthsAssumption DEF LineX86
  <2>2. /\ PlaceInv' /\ off' \in Nat /\ last_off' \in Nat /\ vaddr' \in 0..(Modulus - 1)
        /\ line' \in Line
    BY <2>1, PrintKeepsPlace
  <2>3. /\ UNCHANGED <<args, dpc, said, loader_at, differ>> /\ out' = "empty"
        /\ line'.prefix = "empty" /\ overread' \in BOOLEAN
    BY <1>3 DEF LineX86, PrintLine, OutAfterLine
  <2>4. DTypeOK'
    BY <2>2, <2>3 DEF DInv, DTypeOK, args
  <2>5. TextInv' /\ AgreesWithLoader'
    BY <2>1, <2>3 DEF TextInv, OnlyFirstLineIndeterminate, AgreesWithLoader, args, X86Archs
  <2> QED
    BY <2>2, <2>4, <2>5 DEF DInv
<1>4. CASE LinePVCpu
  <2> PICK flags \in SUBSET Flag :
        /\ PrintLine(Length(flags), IF "valid" \in flags THEN out ELSE "empty")
        /\ loader_at' = loader_at + LoaderLength(flags, code_size - loader_at)
        /\ differ' = (differ \/ ReadDifferently(flags))
    BY <1>4 DEF LinePVCpu
  <2> DEFINE prefix == IF "valid" \in flags THEN out ELSE "empty"
  <2>1. /\ dpc = "loop" /\ InSection /\ arch = "PVCpu"
        /\ prefix \in {"indeterminate", "empty"}
    BY <1>4 DEF LinePVCpu, DInv, DTypeOK
  <2>2. /\ Length(flags) \in Nat \ {0} /\ LoaderLength(flags, code_size - loader_at) \in Nat
        /\ ~ReadDifferently(flags) => Length(flags) = LoaderNeeds(flags)
    BY LengthFacts DEF LoaderLength
  <2>3. /\ PlaceInv' /\ off' \in Nat /\ last_off' \in Nat /\ vaddr' \in 0..(Modulus - 1)
        /\ line' \in Line /\ line'.at = off /\ off' = off + Length(flags)
    BY <2>1, <2>2, PrintKeepsPlace
  <2>4. /\ UNCHANGED <<args, dpc, said>> /\ out' = "empty"
        /\ line'.prefix = prefix /\ overread' \in BOOLEAN
    BY DEF PrintLine, OutAfterLine
  <2>5. DTypeOK'
    <3>1. loader_at' \in Nat /\ differ' \in BOOLEAN
      BY <2>2 DEF DInv, DTypeOK
    <3> QED
      BY <2>3, <2>4, <3>1 DEF DInv, DTypeOK, args
  <2>6. TextInv'
    <3>1. prefix = "indeterminate" => off = soff
      BY DEF DInv, TextInv, PlaceInv
    <3> QED
      BY <2>1, <2>3, <2>4, <3>1 DEF TextInv, OnlyFirstLineIndeterminate, args
  <2>7. AgreesWithLoader'
    <3>1. off \in Nat /\ soff \in Nat /\ loader_at \in Nat /\ code_size \in Nat
      BY ArgumentRanges DEF DInv, DTypeOK
    <3>2. CASE ~differ'
      <4>1. ~differ /\ ~ReadDifferently(flags)
        BY <3>2
      <4>2. off - soff < code_size
        BY <2>1, <3>1, EndIsReal DEF DInv, InSection
      <4>3. loader_at = off - soff
        BY <2>1, <3>1, <4>1, <4>2 DEF DInv, AgreesWithLoader
      <4>4. loader_at' = IF off' - soff <= code_size THEN off' - soff ELSE off - soff
        <5>1. LoaderLength(flags, code_size - loader_at) =
                  IF Length(flags) > code_size - loader_at THEN 0 ELSE Length(flags)
          BY <2>2, <4>1 DEF LoaderLength, ReadDifferently
        <5>2. off' - soff <= code_size <=> ~(Length(flags) > code_size - loader_at)
          BY <2>2, <2>3, <3>1, <4>3
        <5> QED
          BY <2>2, <2>3, <3>1, <4>3, <5>1, <5>2
      <4> QED
        BY <2>3, <2>4, <4>4 DEF AgreesWithLoader, args
    <3> QED
      BY <3>2 DEF AgreesWithLoader
  <2> QED
    BY <2>3, <2>5, <2>6, <2>7 DEF DInv
<1>5. CASE OutsideBuffer
  BY <1>0, <1>5, QuietStepKeepsDInv DEF OutsideBuffer, DFinal
<1>6. CASE ReadFault
  BY <1>0, <1>6, QuietStepKeepsDInv DEF ReadFault, DFinal
<1>7. CASE EndOfSection
  <2>1. off >= End
    <3>1. End \in Int
      BY ArgumentRanges, DivMod DEF DInv, End
    <3> QED
      BY <1>7, <3>1 DEF EndOfSection, InSection, DInv, DTypeOK
  <2> QED
    BY <1>0, <1>7, <2>1, QuietStepKeepsDInv DEF EndOfSection, DFinal
<1>8. CASE UNCHANGED dvars
  BY <1>8 DEF dvars, args, DInv, DTypeOK, PlaceInv, End, TextInv,
              OnlyFirstLineIndeterminate, AgreesWithLoader
<1> QED
  BY <1>1, <1>2, <1>3, <1>4, <1>5, <1>6, <1>7, <1>8 DEF DNext, DStep

-----------------------------------------------------------------------------
\* The state of the listing loop (main.c:179-216) keeps its shape.
THEOREM DecodeTypeCorrect == DSpec => []DTypeOK
<1>1. DInv => DTypeOK
  BY DEF DInv
<1> QED
  BY InitDInv, NextDInv, <1>1, PTL DEF DSpec

\* Only the first line of a listing starts with what the stack held (main.c:188).
THEOREM LaterLinesStartClean == DSpec => []OnlyFirstLineIndeterminate
<1>1. DInv => OnlyFirstLineIndeterminate
  BY DEF DInv, TextInv
<1> QED
  BY InitDInv, NextDInv, <1>1, PTL DEF DSpec

\* PDASM and pvcpu divide a section into instructions alike (decoder_pvcpu.c:135-158,
\* pvcpu-isa.h:89-125), up to the first word they read differently.
THEOREM DividesLikeLoader == DSpec => []AgreesWithLoader
<1>1. DInv => AgreesWithLoader
  BY DEF DInv
<1> QED
  BY InitDInv, NextDInv, <1>1, PTL DEF DSpec

LEMMA DInvListedToTheEnd == DInv => ListedToTheEnd
<1> SUFFICES ASSUME DInv, dpc = "done", said = "nothing", code_size > 0,
                    soff + code_size < Modulus
             PROVE  line.at + line.len >= soff + code_size
  BY DEF ListedToTheEnd
<1>1. soff \in Nat /\ code_size \in Nat /\ Modulus \in Nat \ {0} /\ off \in Nat
  BY ArgumentRanges DEF DInv, DTypeOK
<1>2. End = soff + code_size
  BY <1>1, SMT DEF End
<1>3. off >= soff + code_size
  BY <1>2 DEF DInv, PlaceInv
<1>4. line # NoLine
  BY <1>1, <1>3 DEF DInv, PlaceInv
<1> QED
  BY <1>3, <1>4 DEF DInv, PlaceInv

\* A listing that ends has shown the section to its last byte (main.c:193, 203).
THEOREM ListedWhole == DSpec => []ListedToTheEnd
BY InitDInv, NextDInv, DInvListedToTheEnd, PTL DEF DSpec

\* What LinesTile says of a step.
Tiled == line' # line =>
    /\ line'.at = IF line = NoLine THEN soff ELSE line.at + line.len
    /\ line'.at < End
    /\ line'.addr = (svaddr + (line'.at - soff)) % Modulus

\* A line is printed by the two actions that print lines.
LEMMA WhoPrints ==
    ASSUME [DNext]_dvars
    PROVE  /\ UNCHANGED args
           /\ line' # line => LineX86 \/ LinePVCpu
BY DEF DNext, DStep, Truncated, Unsupported, Refuse, Supported, LineX86, LinePVCpu,
       PrintLine, OutsideBuffer, ReadFault, EndOfSection, dvars

LEMMA NextTiled == DInv /\ [DNext]_dvars => [Tiled]_dvars
<1> SUFFICES ASSUME DInv, [DNext]_dvars, line' # line PROVE Tiled
  BY DEF Tiled
<1>1. CASE LineX86
  <2> PICK len \in X86Lengths : PrintLine(len, "empty")
    BY <1>1 DEF LineX86
  <2>1. len \in Nat \ {0} /\ dpc = "loop" /\ InSection
    BY <1>1, LengthsAssumption DEF LineX86
  <2> QED
    BY <2>1, PrintKeepsPlace DEF Tiled
<1>2. CASE LinePVCpu
  <2> PICK flags \in SUBSET Flag :
        PrintLine(Length(flags), IF "valid" \in flags THEN out ELSE "empty")
    BY <1>2 DEF LinePVCpu
  <2>1. /\ Length(flags) \in Nat \ {0} /\ dpc = "loop" /\ InSection
        /\ (IF "valid" \in flags THEN out ELSE "empty") \in {"indeterminate", "empty"}
    BY <1>2, LengthFacts DEF LinePVCpu, DInv, DTypeOK
  <2> QED
    BY <2>1, PrintKeepsPlace DEF Tiled
<1> QED
  BY <1>1, <1>2, WhoPrints

\* The lines tile the section, each under its own address (main.c:193-210).
THEOREM LinesTileSection == DSpec => LinesTile
BY InitDInv, NextDInv, NextTiled, PTL DEF DSpec, LinesTile, Tiled

-----------------------------------------------------------------------------
(* Reading past the end of the file. *)

\* What NoOverread assumes: room behind the section for the rest of the longest
\* instruction.
RoomBehind == \A len \in Lengths : soff + code_size + len <= size + 1

\* A line that starts in the section ends in the file.
LEMMA LineInFile ==
    ASSUME DInv, RoomBehind, InSection, NEW len \in Lengths
    PROVE  off + len <= size
<1>1. /\ soff \in Nat /\ code_size \in Nat /\ size \in Nat /\ Modulus \in Nat \ {0}
      /\ size < Modulus /\ off \in Nat
  BY ArgumentRanges DEF DInv, DTypeOK
<1>2. len \in Nat \ {0}
  BY LengthFacts, LengthsAssumption DEF Lengths
<1>3. soff + code_size + len <= size + 1
  BY DEF RoomBehind
<1>4. End = soff + code_size
  BY <1>1, <1>2, <1>3, SMT DEF End
<1> QED
  BY <1>1, <1>2, <1>3, <1>4 DEF InSection

LEMMA NextNoOverread == DInv /\ NoOverread /\ [DNext]_dvars => NoOverread'
<1> SUFFICES ASSUME DInv, NoOverread, [DNext]_dvars, RoomBehind'
             PROVE  ~overread' /\ dpc' # "crashed"
  BY DEF NoOverread, RoomBehind
<1>1. UNCHANGED args
  BY WhoPrints
<1>2. RoomBehind /\ ~overread /\ dpc # "crashed"
  BY <1>1 DEF RoomBehind, Lengths, NoOverread, args
<1>3. CASE LineX86
  <2> PICK len \in X86Lengths : PrintLine(len, "empty")
    BY <1>3 DEF LineX86
  <2>1. len \in Lengths /\ InSection /\ dpc = "loop"
    BY <1>3 DEF LineX86, Lengths, X86Archs
  <2>2. off + len <= size
    BY <1>2, <2>1, LineInFile
  <2>3. off \in Nat /\ size \in Nat /\ len \in Nat
    BY ArgumentRanges, LengthsAssumption DEF DInv, DTypeOK
  <2>4. ~(off + len > size)
    BY <2>2, <2>3
  <2>5. overread' = (overread \/ off + len > size) /\ dpc' = dpc
    BY DEF PrintLine
  <2> QED
    BY <1>2, <2>4, <2>5, Zenon
<1>4. CASE LinePVCpu
  <2> PICK flags \in SUBSET Flag :
        PrintLine(Length(flags), IF "valid" \in flags THEN out ELSE "empty")
    BY <1>4 DEF LinePVCpu
  <2>1. Length(flags) \in Lengths /\ InSection /\ dpc = "loop"
    BY <1>4 DEF LinePVCpu, Lengths
  <2>2. off + Length(flags) <= size
    BY <1>2, <2>1, LineInFile
  <2>3. off \in Nat /\ size \in Nat /\ Length(flags) \in Nat
    BY ArgumentRanges, LengthFacts DEF DInv, DTypeOK
  <2>4. ~(off + Length(flags) > size)
    BY <2>2, <2>3
  <2>5. overread' = (overread \/ off + Length(flags) > size) /\ dpc' = dpc
    BY DEF PrintLine
  <2> QED
    BY <1>2, <2>4, <2>5, Zenon
<1>5. CASE ReadFault
  <2>1. InSection /\ \E len \in Lengths : off + len > size
    BY <1>5 DEF ReadFault
  <2> PICK len \in Lengths : off + len > size
    BY <2>1
  <2>2. off + len <= size
    BY <1>2, <2>1, LineInFile
  <2>3. off \in Nat /\ size \in Nat /\ len \in Nat
    <3>1. len \in Nat
      BY LengthFacts, LengthsAssumption DEF Lengths
    <3> QED
      BY <3>1, ArgumentRanges DEF DInv, DTypeOK
  <2> QED
    BY <2>2, <2>3
<1>6. CASE ~LineX86 /\ ~LinePVCpu /\ ~ReadFault
  BY <1>2, <1>6 DEF DNext, DStep, Truncated, Unsupported, Refuse, Supported, OutsideBuffer,
                    EndOfSection, dvars
<1> QED
  BY <1>3, <1>4, <1>5, <1>6

\* With room behind the section, nothing past the end of the file is read
\* (main.c:193, 203 test only where an instruction starts).
THEOREM ReadsStayInFile == DSpec => []NoOverread
<1>1. DInit => NoOverread
  BY DEF DInit, Entry, NoOverread
<1> QED
  BY InitDInv, NextDInv, <1>1, NextNoOverread, PTL DEF DSpec
-----------------------------------------------------------------------------
(* decode ends: every step brings the end nearer. *)

\* The bytes of the section still to be listed.
Unlisted == IF off < End THEN End - off ELSE 0

\* An upper bound on the steps that are left: no line is empty.
DLeft ==
    IF dpc \in DFinal THEN 0
    ELSE (IF dpc = "start" THEN 2 ELSE 1) + Unlisted

LEMMA EndInNat == DTypeOK => End \in Nat /\ off \in Nat
<1> SUFFICES ASSUME DTypeOK PROVE End \in Nat /\ off \in Nat
  OBVIOUS
<1>1. code_size + soff \in Int /\ Modulus \in Nat \ {0} /\ off \in Nat
  BY ArgumentRanges DEF DTypeOK
<1>2. (code_size + soff) % Modulus \in 0..(Modulus - 1)
  BY <1>1, DivMod
<1> QED
  BY <1>1, <1>2 DEF End

LEMMA DLeftInNat == DTypeOK => Unlisted \in Nat /\ DLeft \in Nat
BY EndInNat DEF DLeft, Unlisted

\* A line moves the offset by at least one byte, and the end of the section not.
LEMMA LineLowersUnlisted ==
    ASSUME DInv, dpc = "loop", InSection,
           NEW len \in Nat \ {0}, NEW prefix \in {"indeterminate", "empty"},
           PrintLine(len, prefix)
    PROVE  dpc' = "loop" /\ Unlisted' < Unlisted
<1>1. dpc' = "loop" /\ off' = off + len /\ End' = End
  BY PrintKeepsPlace DEF PrintLine, End, args
<1>2. End \in Nat /\ off \in Nat /\ off < End
  BY EndInNat DEF DInv, InSection
<1> QED
  BY <1>1, <1>2 DEF Unlisted

LEMMA NextLowersDLeft == DInv /\ DStep => DLeft' < DLeft
<1> SUFFICES ASSUME DInv, DStep PROVE DLeft' < DLeft
  OBVIOUS
<1>1. Unlisted \in Nat
  BY DLeftInNat DEF DInv
<1>2. CASE Truncated \/ Unsupported \/ OutsideBuffer \/ ReadFault \/ EndOfSection
  <2>1. dpc \in {"start", "loop"} /\ dpc' \in DFinal
    BY <1>2 DEF Truncated, Unsupported, Refuse, OutsideBuffer, ReadFault, EndOfSection, DFinal
  <2> QED
    BY <1>1, <2>1 DEF DLeft, DFinal
<1>3. CASE Supported
  <2>1. dpc = "start" /\ dpc' = "loop" /\ Unlisted' = Unlisted
    BY <1>3 DEF Supported, Unlisted, End, args
  <2> QED
    BY <1>1, <2>1 DEF DLeft, DFinal
<1>4. CASE LineX86 \/ LinePVCpu
  <2>1. dpc = "loop" /\ dpc' = "loop" /\ Unlisted' < Unlisted
    <3>1. CASE LineX86
      <4> PICK len \in X86Lengths : PrintLine(len, "empty")
        BY <3>1 DEF LineX86
      <4> QED
        BY <3>1, LineLowersUnlisted, LengthsAssumption DEF LineX86
    <3>2. CASE LinePVCpu
      <4> PICK flags \in SUBSET Flag :
            PrintLine(Length(flags), IF "valid" \in flags THEN out ELSE "empty")
        BY <3>2 DEF LinePVCpu
      <4>1. Length(flags) \in Nat \ {0} /\ dpc = "loop" /\ InSection
            /\ (IF "valid" \in flags THEN out ELSE "empty") \in {"indeterminate", "empty"}
        BY <3>2, LengthFacts DEF LinePVCpu, DInv, DTypeOK
      <4> QED
        BY <4>1, LineLowersUnlisted
    <3> QED
      BY <1>4, <3>1, <3>2
  <2>2. Unlisted' \in Nat
    <3>1. DTypeOK'
      BY NextDInv DEF DInv, DNext
    <3>2. (Unlisted \in Nat)'
      BY <3>1, DLeftInNat, PTL
    <3> QED
      BY <3>2
  <2>3. DLeft = 1 + Unlisted /\ DLeft' = 1 + Unlisted'
    BY <2>1 DEF DLeft, DFinal
  <2> DEFINE u == Unlisted
             v == Unlisted'
  <2>4. u \in Nat /\ v \in Nat /\ v < u /\ DLeft = 1 + u /\ DLeft' = 1 + v
    BY <1>1, <2>1, <2>2, <2>3
  <2> HIDE DEF u, v
  <2> QED
    BY <2>4
<1> QED
  BY <1>2, <1>3, <1>4 DEF DStep

\* The loops of main.c:194 and 203 come to their end whatever the bytes say: a
\* natural number goes down with every step, by the bytes of a line at least.
THEOREM DecodeApproachesEnd == DSpec => [](DLeft \in Nat) /\ [][DLeft' < DLeft]_dvars
<1>1. DInv => DLeft \in Nat
  BY DLeftInNat DEF DInv
<1>2. DInv /\ [DNext]_dvars => [DLeft' < DLeft]_dvars
  BY NextLowersDLeft DEF DNext
<1> QED
  BY InitDInv, NextDInv, <1>1, <1>2, PTL DEF DSpec
=============================================================================

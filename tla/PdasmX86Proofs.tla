--------------------------- MODULE PdasmX86Proofs ---------------------------
(***************************************************************************)
(* Proofs about PdasmX86, for every value of the bytes and every number of *)
(* prefixes: decode_x86 is, for the listing loop, the step PdasmDecode     *)
(* takes it for.                                                           *)
(***************************************************************************)
EXTENDS PdasmX86, PdasmDecodeProofs

-----------------------------------------------------------------------------
(* The invariant: how far an instruction has come, and how much text it    *)
(* has, at each place.                                                     *)

Mark == IF inst.opcode16 THEN 2 ELSE 1

\* The bytes read are bounded by what can have come before.
Reach ==
    /\ xpc = "prefix" => pos - off <= MaxPrefixes
    /\ xpc = "modrm"  => pos - off \in 1..(MaxPrefixes + Mark)
    /\ xpc = "sib"    => HasModRM /\ pos - off \in 1..(MaxPrefixes + Mark + 1)
    /\ xpc = "imm"    => pos - off \in 1..(MaxPrefixes + Mark + (IF HasModRM THEN 6 ELSE 0))
    /\ xpc = "print"  => pos - off \in 1..(MaxPrefixes + 11)

TextReach ==
    /\ xpc = "prefix"          => text = 0
    /\ xpc \in {"modrm", "sib"} => text <= 19
    /\ xpc = "imm"             => text <= 108
    /\ xpc = "print"           => text <= 163

Parsing ==
    xpc # "idle" /\ dpc = "loop" =>
        /\ InSection /\ Reach /\ TextReach
        /\ xpc = "prefix" => ~inst.opcode16
        /\ xpc = "prefix" /\ pos = off => inst.rex = {} /\ ~inst.b16_prefix

\* Between two instructions the text is that of the line just printed.
LastText ==
    xpc = "idle" => text = 0 \/ (arch \in X86Archs /\ text <= 176 + 4 * (pos - line.at))

InLoop == xpc # "idle" => dpc \in {"loop", "crashed"}

XInv == DInv /\ XShape /\ InLoop /\ Parsing /\ LastText /\ InstructionBounded /\ OwnPrefixes

\* The type of the one-byte opcode, and of the local it may leave unwritten.
LEMMA ByteRange == ASSUME NEW p PROVE ByteAt(p) \subseteq 0..255
BY BytesAssumption DEF ByteAt

\* An immediate has one of five sizes, and no opcode has both a ModRM byte and
\* the longest.
ImmediateFits(op, w, b16, two, op_0f) ==
    /\ opcode_needs_imm(op, w, b16, two, op_0f) \in {0, 1, 2, 4, 8}
    /\ two => opcode_needs_imm(op, w, b16, two, op_0f) <= 4
    /\ two /\ opcode_needs_modrm(op, two, op_0f) => opcode_needs_imm(op, w, b16, two, op_0f) = 0
    /\ ~two /\ opcode_needs_modrm(op, two, op_0f) => opcode_needs_imm(op, w, b16, two, op_0f) <= 4

LEMMA ImmediateFacts ==
    ASSUME NEW op \in Nat, NEW op_0f \in Nat, NEW two \in BOOLEAN,
           NEW w \in BOOLEAN, NEW b16 \in BOOLEAN
    PROVE  ImmediateFits(op, w, b16, two, op_0f)
<1> DEFINE m == opcode_needs_modrm(op, two, op_0f)
           n == opcode_needs_imm(op, w, b16, two, op_0f)
<1>0. SUFFICES /\ n \in {0, 1, 2, 4, 8}
               /\ two => n <= 4
               /\ two /\ m => n = 0
               /\ ~two /\ m => n <= 4
  BY Zenon DEF ImmediateFits
<1> HIDE DEF m, n
<1>1. n = 4 => n \in {0, 1, 2, 4, 8} /\ n <= 4
  OBVIOUS
<1>2. n = 0 => n \in {0, 1, 2, 4, 8} /\ n <= 4
  OBVIOUS
<1>3. CASE two /\ op_0f \in 128..143
  <2>1. n = 4
    BY <1>3 DEF opcode_needs_imm, n
  <2>2. ~m
    BY <1>3 DEF opcode_needs_modrm, m
  <2> QED
    BY <1>1, <1>3, <2>1, <2>2, Zenon
<1>4. CASE two /\ op_0f \notin 128..143
  <2>1. n = 0
    BY <1>4 DEF opcode_needs_imm, n
  <2> QED
    BY <1>2, <1>4, <2>1, Zenon
<1>5. CASE ~two /\ op \in 184..191
  <2>1. n \in {2, 4, 8}
    BY <1>5 DEF opcode_needs_imm, n
  <2>2. ~m
    BY <1>5 DEF opcode_needs_modrm, m
  <2>3. n \in {0, 1, 2, 4, 8}
    BY <2>1
  <2> QED
    BY <1>5, <2>2, <2>3, Zenon
<1>6. CASE ~two /\ op \notin 184..191
  <2>1. n \in {0, 1, 2, 4}
    BY <1>6 DEF opcode_needs_imm, n
  <2>2. n \in {0, 1, 2, 4, 8} /\ n <= 4
    BY <2>1
  <2> QED
    BY <1>6, <2>2, Zenon
<1> QED
  BY <1>3, <1>4, <1>5, <1>6, Zenon

LEMMA RegisterNames == ASSUME NEW extended PROVE decode_register(extended) \in {5, 9, 10}
BY DEF decode_register
-----------------------------------------------------------------------------
(* The steps. *)

LEMMA InitXInv == XInit => XInv
<1> SUFFICES ASSUME XInit PROVE XInv
  OBVIOUS
<1>1. DInv
  BY InitDInv DEF XInit
<1>2. XShape
  BY DEF XInit, XEntry, XShape, XPlaces, ZeroInst
<1> QED
  BY <1>1, <1>2 DEF XInit, XEntry, XInv, InLoop, Parsing, LastText, InstructionBounded, OwnPrefixes

\* Reading some bytes of an instruction stutters for the loop, or kills the
\* process past the end of the file.
LEMMA TakeRefines ==
    ASSUME XInv, dpc = "loop", xpc # "idle", NEW n \in Nat, NEW next, Take(n, next),
           pos + n - off \in 1..(MaxPrefixes + 11)
    PROVE  UNCHANGED dvars \/ ReadFault
<1>1. CASE UNCHANGED dvars
  BY <1>1
<1>2. CASE /\ pos + n > size /\ dpc' = "crashed"
           /\ UNCHANGED <<xpc, pos, args, off, last_off, vaddr, out, line, overread,
                          loader_at, differ, said>>
  <2>1. InSection /\ arch \in X86Archs
    BY DEF XInv, Parsing, XShape
  <2>2. Lengths = X86Lengths
    BY <2>1 DEF Lengths, X86Archs
  <2>3. pos + n - off \in Lengths
    BY <2>2, X86LengthsAssumption
  <2>4. pos \in Nat /\ off \in Nat /\ size \in Nat
    BY ArgumentRanges DEF XInv, XShape, DInv, DTypeOK
  <2>5. off + (pos + n - off) > size
    BY <1>2, <2>4
  <2> QED
    BY <1>2, <2>1, <2>3, <2>5 DEF ReadFault
<1> QED
  BY <1>1, <1>2 DEF Take

\* A step that reads bytes keeps the invariant, if what it leaves when it
\* survives is within reach.
LEMMA TakeKeepsXInv ==
    ASSUME XInv, dpc = "loop", xpc # "idle", NEW n \in Nat, NEW next \in XPlaces \ {"idle"},
           Take(n, next), pos + n - off \in 1..(MaxPrefixes + 11),
           text' \in Nat, op_at' \in Nat, opcode' \in 0..255,
           inst' \in [rex : SUBSET {"W", "X", "B"}, b16_prefix : BOOLEAN, opcode16 : BOOLEAN,
                      opcode : 0..255, mod : 0..3],
           xpc = "prefix" \/ (inst'.rex = inst.rex /\ inst'.b16_prefix = inst.b16_prefix
                                  /\ op_at' = op_at),
           next = "prefix" => n > 0 /\ ~inst'.opcode16,
           xpc' = next /\ pos' = pos + n /\ UNCHANGED dvars =>
               Reach' /\ TextReach' /\ OwnPrefixes'
    PROVE  XInv' /\ [DNext]_dvars
<1>1. pos \in Nat /\ off \in Nat /\ xpc \in XPlaces /\ InSection
      /\ arch \in X86Archs /\ pos >= off
  BY DEF XInv, XShape, DInv, DTypeOK, Parsing
<1>2. DInv' /\ [DNext]_dvars
  <2>1. [DNext]_dvars
    BY TakeRefines DEF DNext, DStep
  <2> QED
    BY <2>1, NextDInv DEF XInv
<1>3. CASE xpc' = next /\ pos' = pos + n /\ UNCHANGED dvars
  <2>1. off' = off /\ arch' = arch /\ dpc' = dpc /\ InSection'
    BY <1>1, <1>3 DEF dvars, args, InSection, End
  <2>2. pos' \in Nat /\ pos' >= off' /\ pos' - off' <= MaxPrefixes + 11
    BY <1>1, <1>3, <2>1, PrefixesAssumption
  <2>3. XShape' /\ InLoop' /\ InstructionBounded' /\ LastText'
    BY <1>1, <1>3, <2>1, <2>2 DEF XShape, InLoop, InstructionBounded, LastText
  <2>4. CASE next # "prefix"
    BY <1>2, <1>3, <2>1, <2>3, <2>4 DEF XInv, Parsing
  <2>5. CASE next = "prefix"
    <3>1. pos' # off'
      BY <1>1, <1>3, <2>1, <2>5
    <3> QED
      BY <1>2, <1>3, <2>1, <2>3, <2>5, <3>1 DEF XInv, Parsing
  <2> QED
    BY <2>4, <2>5
<1>4. CASE /\ pos + n > size /\ dpc' = "crashed"
           /\ UNCHANGED <<xpc, pos, args, off, last_off, vaddr, out, line, overread,
                          loader_at, differ, said>>
  <2>1. XShape' /\ InLoop' /\ InstructionBounded' /\ LastText' /\ Parsing'
    BY <1>1, <1>4 DEF XInv, XShape, InLoop, InstructionBounded, LastText, Parsing, args
  <2>2. OwnPrefixes'
    BY <1>1, <1>4 DEF XInv, OwnPrefixes
  <2> QED
    BY <1>2, <2>1, <2>2 DEF XInv
<1> QED
  BY <1>3, <1>4 DEF Take

LEMMA PrefixStep == XInv /\ Prefix => XInv' /\ [DNext]_dvars
<1> SUFFICES ASSUME XInv, Prefix PROVE XInv' /\ [DNext]_dvars
  OBVIOUS
<1>1. dpc = "loop" /\ xpc = "prefix" /\ Take(1, "prefix") /\ text = 0
  BY DEF Prefix, At, XInv, Parsing, TextReach
<1>2. pos \in Nat /\ off \in Nat /\ pos >= off /\ pos - off < MaxPrefixes
  BY <1>1 DEF XInv, XShape, DInv, DTypeOK, Prefix
<1>3. inst' \in [rex : SUBSET {"W", "X", "B"}, b16_prefix : BOOLEAN, opcode16 : BOOLEAN,
                 opcode : 0..255, mod : 0..3] /\ ~inst'.opcode16
  <2>1. inst \in [rex : SUBSET {"W", "X", "B"}, b16_prefix : BOOLEAN, opcode16 : BOOLEAN,
                  opcode : 0..255, mod : 0..3] /\ ~inst.opcode16
    BY <1>1 DEF XInv, XShape, Parsing
  <2> PICK b \in ByteAt(pos) : inst' = [inst EXCEPT !.rex = Rex(b)]
                               \/ inst' = [inst EXCEPT !.b16_prefix = TRUE]
    BY Zenon DEF Prefix
  <2> DEFINE bits == Rex(b)
  <2>2. bits \in SUBSET {"W", "X", "B"}
    BY DEF Rex
  <2> HIDE DEF bits
  <2>3. inst' = [inst EXCEPT !.rex = bits] \/ inst' = [inst EXCEPT !.b16_prefix = TRUE]
    BY DEF bits
  <2>4. [inst EXCEPT !.rex = bits]
          \in [rex : SUBSET {"W", "X", "B"}, b16_prefix : BOOLEAN, opcode16 : BOOLEAN,
               opcode : 0..255, mod : 0..3]
        /\ ~[inst EXCEPT !.rex = bits].opcode16
    BY <2>1, <2>2
  <2>5. [inst EXCEPT !.b16_prefix = TRUE]
          \in [rex : SUBSET {"W", "X", "B"}, b16_prefix : BOOLEAN, opcode16 : BOOLEAN,
               opcode : 0..255, mod : 0..3]
        /\ ~[inst EXCEPT !.b16_prefix = TRUE].opcode16
    BY <2>1
  <2> QED
    BY <2>3, <2>4, <2>5
<1>4. UNCHANGED <<opcode, text, op_at>>
  BY DEF Prefix
<1>5. pos + 1 - off \in 1..(MaxPrefixes + 11) /\ 1 \in Nat
  BY <1>2, PrefixesAssumption
<1>6. ASSUME xpc' = "prefix", pos' = pos + 1, UNCHANGED dvars
      PROVE  Reach' /\ TextReach' /\ OwnPrefixes'
  <2>1. off' = off
    BY <1>6 DEF dvars
  <2> QED
    BY <1>1, <1>2, <1>4, <1>6, <2>1, PrefixesAssumption DEF Reach, TextReach, OwnPrefixes
<1>7. text' \in Nat /\ op_at' \in Nat /\ opcode' \in 0..255
  BY <1>4 DEF XInv, XShape
<1>8. "prefix" \in XPlaces \ {"idle"} /\ 1 > 0
  BY DEF XPlaces
<1> QED
  BY <1>1, <1>3, <1>5, <1>6, <1>7, <1>8, TakeKeepsXInv

LEMMA OpcodeStep == XInv /\ (OneByteOpcode \/ TwoByteOpcode) => XInv' /\ [DNext]_dvars
<1> SUFFICES ASSUME XInv, OneByteOpcode \/ TwoByteOpcode PROVE XInv' /\ [DNext]_dvars
  OBVIOUS
<1>1. /\ dpc = "loop" /\ xpc = "prefix" /\ pos \in Nat /\ off \in Nat /\ pos >= off
      /\ pos - off <= MaxPrefixes
      /\ pos = off => inst.rex = {} /\ ~inst.b16_prefix
  BY DEF OneByteOpcode, TwoByteOpcode, At, XInv, XShape, DInv, DTypeOK, Parsing, Reach
<1>2. /\ inst' \in [rex : SUBSET {"W", "X", "B"}, b16_prefix : BOOLEAN, opcode16 : BOOLEAN,
                    opcode : 0..255, mod : 0..3]
      /\ inst'.rex = inst.rex /\ inst'.b16_prefix = inst.b16_prefix
      /\ opcode' \in 0..255
  <2>1. CASE OneByteOpcode
    <3> PICK b \in ByteAt(pos) : opcode' = b /\ inst' = [inst EXCEPT !.opcode = b]
      BY <2>1 DEF OneByteOpcode
    <3>1. b \in 0..255
      BY ByteRange
    <3> QED
      BY <3>1 DEF XInv, XShape
  <2>2. CASE TwoByteOpcode
    <3>1. opcode' \in 0..255
      BY <2>2, BytesAssumption DEF TwoByteOpcode
    <3> QED
      BY <2>2, <3>1 DEF TwoByteOpcode, XInv, XShape
  <2> QED
    BY <2>1, <2>2
<1>3. text' \in 0..19 /\ op_at' = pos
  BY DEF OneByteOpcode, TwoByteOpcode
<1>4. ASSUME NEW n \in {1, 2}, Take(n, "modrm"), inst'.opcode16 => n = 2, ~inst'.opcode16 => n = 1
      PROVE  XInv' /\ [DNext]_dvars
  <2>1. n \in Nat /\ pos + n - off \in 1..(MaxPrefixes + 11)
    BY <1>1, PrefixesAssumption
  <2>2. ASSUME xpc' = "modrm", pos' = pos + n, UNCHANGED dvars
        PROVE  Reach' /\ TextReach' /\ OwnPrefixes'
    <3>1. off' = off
      BY <2>2 DEF dvars
    <3>2. OwnPrefixes'
      BY <1>1, <1>2, <1>3, <3>1 DEF OwnPrefixes
    <3>3. Mark' = n
      BY <1>2, <1>4 DEF Mark
    <3>4. pos' - off' \in 1..(MaxPrefixes + Mark')
      BY <1>1, <2>2, <3>1, <3>3, PrefixesAssumption
    <3>5. Reach'
      BY <2>2, <3>4 DEF Reach
    <3> QED
      BY <1>3, <2>2, <3>2, <3>5 DEF TextReach
  <2>3. "modrm" \in XPlaces \ {"idle"} /\ "modrm" # "prefix"
    BY DEF XPlaces
  <2>4. text' \in Nat /\ op_at' \in Nat
    BY <1>1, <1>3
  <2> QED
    BY <1>1, <1>2, <1>4, <2>1, <2>2, <2>3, <2>4, TakeKeepsXInv
<1>5. ~inst.opcode16
  BY <1>1 DEF XInv, Parsing
<1>6. CASE OneByteOpcode
  <2>1. Take(1, "modrm")
    BY <1>6 DEF OneByteOpcode
  <2>2. ~inst'.opcode16
    BY <1>5, <1>6 DEF OneByteOpcode, XInv, XShape
  <2> QED
    BY <1>4, <2>1, <2>2
<1>7. CASE TwoByteOpcode
  <2>1. Take(2, "modrm")
    BY <1>7 DEF TwoByteOpcode
  <2>2. inst'.opcode16
    BY <1>7 DEF TwoByteOpcode, XInv, XShape
  <2> QED
    BY <1>4, <2>1, <2>2
<1> QED
  BY <1>6, <1>7

\* What the steps behind the opcode share: the prefixes and the opcode are
\* those of the instruction, and stay.
LEMMA OperandStep ==
    ASSUME XInv, dpc = "loop", xpc \in {"modrm", "sib", "imm"}, UNCHANGED <<opcode, op_at>>,
           inst' = inst \/ \E mod \in 0..3 : inst' = [inst EXCEPT !.mod = mod],
           NEW n \in Nat, NEW next \in {"sib", "imm", "print"}, Take(n, next),
           pos + n - off \in 1..(MaxPrefixes + 11), text' \in Nat,
           xpc' = next /\ pos' = pos + n /\ UNCHANGED dvars => Reach' /\ TextReach'
    PROVE  XInv' /\ [DNext]_dvars
<1>1. /\ inst' \in [rex : SUBSET {"W", "X", "B"}, b16_prefix : BOOLEAN, opcode16 : BOOLEAN,
                    opcode : 0..255, mod : 0..3]
      /\ inst'.rex = inst.rex /\ inst'.b16_prefix = inst.b16_prefix
  BY DEF XInv, XShape
<1>2. op_at' \in Nat /\ op_at' = op_at /\ opcode' \in 0..255
  BY DEF XInv, XShape
<1>3. ASSUME xpc' = next, pos' = pos + n, UNCHANGED dvars
      PROVE  OwnPrefixes'
  <2>1. off' = off
    BY <1>3 DEF dvars
  <2> QED
    BY <1>1, <1>2, <1>3, <2>1 DEF OwnPrefixes, XInv
<1>4. next \in XPlaces \ {"idle"} /\ next # "prefix" /\ xpc # "idle"
  BY DEF XPlaces
<1> QED
  BY <1>1, <1>2, <1>3, <1>4, TakeKeepsXInv

\* The opcode decides alone whether there is a ModRM byte.
LEMMA OpcodeStays ==
    ASSUME XInv, opcode' = opcode,
           inst' = inst \/ \E mod \in 0..3 : inst' = [inst EXCEPT !.mod = mod]
    PROVE  Mark' = Mark /\ HasModRM' = HasModRM /\ Mark \in {1, 2}
<1>1. inst'.opcode16 = inst.opcode16 /\ inst'.opcode = inst.opcode /\ inst.opcode16 \in BOOLEAN
  BY DEF XInv, XShape
<1>2. HasModRM' = HasModRM
  BY <1>1 DEF HasModRM, opcode_needs_modrm
<1> QED
  BY <1>1, <1>2 DEF Mark

LEMMA OperandReach ==
    ASSUME XInv, dpc = "loop", xpc \in {"modrm", "sib", "imm"}
    PROVE  /\ pos \in Nat /\ off \in Nat /\ text \in Nat /\ MaxPrefixes \in Nat
           /\ xpc = "modrm" => pos - off \in 1..(MaxPrefixes + Mark) /\ text <= 19
           /\ xpc = "sib" => pos - off \in 1..(MaxPrefixes + Mark + 1) /\ text <= 19 /\ HasModRM
           /\ xpc = "imm" => pos - off \in 1..(MaxPrefixes + Mark + (IF HasModRM THEN 6 ELSE 0))
                             /\ text <= 108
BY PrefixesAssumption DEF XInv, XShape, DInv, DTypeOK, Parsing, Reach, TextReach

LEMMA NoModRMStep == XInv /\ NoModRM => XInv' /\ [DNext]_dvars
<1> SUFFICES ASSUME XInv, NoModRM PROVE XInv' /\ [DNext]_dvars
  OBVIOUS
<1>1. /\ dpc = "loop" /\ xpc = "modrm" /\ xpc' = "imm" /\ ~HasModRM
      /\ UNCHANGED <<pos, inst, opcode, text, op_at, dvars>>
  BY DEF NoModRM, At
<1>2. Mark' = Mark /\ HasModRM' = HasModRM /\ Mark \in {1, 2}
  BY <1>1, OpcodeStays
<1>3. /\ pos \in Nat /\ off \in Nat /\ text \in Nat /\ MaxPrefixes \in Nat
      /\ pos - off \in 1..(MaxPrefixes + Mark) /\ text <= 19
  BY <1>1, OperandReach
<1>4. Take(0, "imm")
  BY <1>1, <1>3 DEF Take
<1>5. pos + 0 - off \in 1..(MaxPrefixes + 11)
  BY <1>2, <1>3
<1>6. off' = off
  BY <1>1 DEF dvars
<1>7. Reach' /\ TextReach'
  BY <1>1, <1>2, <1>3, <1>6 DEF Reach, TextReach
<1> QED
  BY <1>1, <1>3, <1>4, <1>5, <1>7, OperandStep

LEMMA ModRMStep == XInv /\ ModRM => XInv' /\ [DNext]_dvars
<1> SUFFICES ASSUME XInv, ModRM PROVE XInv' /\ [DNext]_dvars
  OBVIOUS
<1>1. dpc = "loop" /\ xpc = "modrm" /\ HasModRM /\ UNCHANGED <<opcode, op_at>>
  BY DEF ModRM, At
<1> DEFINE reg == decode_register(FALSE)
<1> PICK b \in ByteAt(pos) :
      /\ inst' = [inst EXCEPT !.mod = ModOf(b)]
      /\ \/ Take(1, "sib") /\ text' = text
         \/ Take(5, "imm") /\ text' = text + reg + (IF b % 8 = 5 THEN 79 ELSE 30)
         \/ Take(2, "imm") /\ text' = text + reg + 74
         \/ Take(5, "imm") /\ text' = text + reg + 75
         \/ Take(1, "imm") /\ text' = text + 2 * reg + 18
  BY Zenon DEF ModRM
<1>2. ModOf(b) \in 0..3
  <2>1. b \in 0..255
    BY ByteRange
  <2> QED
    BY <2>1 DEF ModOf
<1>3. Mark' = Mark /\ HasModRM' = HasModRM /\ Mark \in {1, 2}
  BY <1>1, <1>2, OpcodeStays
<1>4. /\ pos \in Nat /\ off \in Nat /\ text \in Nat /\ MaxPrefixes \in Nat
      /\ pos - off \in 1..(MaxPrefixes + Mark) /\ text <= 19
  BY <1>1, OperandReach
<1>5. reg \in {5, 9, 10}
  BY RegisterNames
<1> HIDE DEF reg
<1>6. ASSUME NEW n \in {1, 2, 5}, NEW next \in {"sib", "imm"}, Take(n, next),
             next = "sib" => n = 1, next = "sib" => text' <= 19, text' \in 0..108
      PROVE  XInv' /\ [DNext]_dvars
  <2>1. n \in Nat /\ pos + n - off \in 1..(MaxPrefixes + 11) /\ text' \in Nat
    BY <1>3, <1>4, <1>6
  <2>2. ASSUME xpc' = next, pos' = pos + n, UNCHANGED dvars
        PROVE  Reach' /\ TextReach'
    <3>1. off' = off
      BY <2>2 DEF dvars
    <3>2. pos' - off' = pos - off + n
      BY <1>4, <2>2, <3>1
    <3>3. CASE next = "sib"
      <4>1. pos' - off' \in 1..(MaxPrefixes + Mark + 1)
        BY <1>3, <1>4, <1>6, <3>2, <3>3
      <4>2. xpc' = "sib" /\ text' <= 19 /\ HasModRM'
        BY <1>1, <1>3, <1>6, <2>2, <3>3
      <4>3. Reach'
        BY <1>3, <4>1, <4>2 DEF Reach
      <4> QED
        BY <4>2, <4>3 DEF TextReach
    <3>4. CASE next = "imm"
      <4>1. pos' - off' \in 1..(MaxPrefixes + Mark + 6)
        BY <1>3, <1>4, <1>6, <3>2
      <4>2. xpc' = "imm" /\ text' <= 108 /\ HasModRM'
        BY <1>1, <1>3, <1>6, <2>2, <3>4
      <4>3. Reach'
        BY <1>3, <4>1, <4>2 DEF Reach
      <4> QED
        BY <4>2, <4>3 DEF TextReach
    <3> QED
      BY <3>3, <3>4
  <2> QED
    BY <1>1, <1>2, <1>6, <2>1, <2>2, OperandStep
<1>7. CASE Take(1, "sib") /\ text' = text
  BY <1>4, <1>6, <1>7
<1>8. CASE /\ Take(1, "imm") \/ Take(2, "imm") \/ Take(5, "imm")
           /\ text' \in {text + reg + 79, text + reg + 30, text + reg + 74, text + reg + 75,
                         text + 2 * reg + 18}
  <2>1. text' \in 0..108
    BY <1>4, <1>5, <1>8
  <2> QED
    BY <1>6, <1>8, <2>1
<1> QED
  BY <1>7, <1>8

LEMMA SibStep == XInv /\ Sib => XInv' /\ [DNext]_dvars
<1> SUFFICES ASSUME XInv, Sib PROVE XInv' /\ [DNext]_dvars
  OBVIOUS
<1>1. dpc = "loop" /\ xpc = "sib" /\ HasModRM /\ UNCHANGED <<inst, opcode, op_at>>
  BY DEF Sib, At, XInv, Parsing, Reach
<1>2. Mark' = Mark /\ HasModRM' = HasModRM /\ Mark \in {1, 2}
  BY <1>1, OpcodeStays
<1>3. /\ pos \in Nat /\ off \in Nat /\ text \in Nat /\ MaxPrefixes \in Nat
      /\ pos - off \in 1..(MaxPrefixes + Mark + 1) /\ text <= 19
  BY <1>1, OperandReach
<1> PICK disp \in {0, 1, 4}, base \in BOOLEAN, index \in BOOLEAN :
      /\ Take(1 + disp, "imm")
      /\ \/ text' = text + (decode_register(FALSE) + decode_register(base)) + 47
         \/ text' = text + (decode_register(FALSE) + decode_register(base))
                         + (52 + decode_register(index))
  <2> PICK b \in ByteAt(pos) :
        LET base  == (b % 8) + (IF "B" \in inst.rex THEN 8 ELSE 0)
            index == ((b \div 8) % 8) + (IF "X" \in inst.rex THEN 8 ELSE 0)
            disp  == CASE inst.mod = 2 \/ (inst.mod = 0 /\ base = 5) -> 4
                       [] inst.mod = 1                              -> 1
                       [] OTHER                                     -> 0
            shown == decode_register(FALSE) + decode_register(base > 7)
        IN  /\ Take(1 + disp, "imm")
            /\ text' = text + shown + (IF index = 4 THEN 47 ELSE 52 + decode_register(index > 7))
    BY Zenon DEF Sib
  <2> DEFINE base  == (b % 8) + (IF "B" \in inst.rex THEN 8 ELSE 0)
             index == ((b \div 8) % 8) + (IF "X" \in inst.rex THEN 8 ELSE 0)
             disp  == CASE inst.mod = 2 \/ (inst.mod = 0 /\ base = 5) -> 4
                        [] inst.mod = 1                              -> 1
                        [] OTHER                                     -> 0
  <2>1. /\ Take(1 + disp, "imm")
        /\ text' = text + (decode_register(FALSE) + decode_register(base > 7))
                        + (IF index = 4 THEN 47 ELSE 52 + decode_register(index > 7))
    OBVIOUS
  <2>2. disp \in {0, 1, 4}
    OBVIOUS
  <2>3. (base > 7) \in BOOLEAN /\ (index > 7) \in BOOLEAN
    OBVIOUS
  <2> HIDE DEF base, index, disp
  <2> DEFINE high == base > 7
             hindex == index > 7
  <2>4. high \in BOOLEAN /\ hindex \in BOOLEAN
    BY <2>3
  <2>5. \/ text' = text + (decode_register(FALSE) + decode_register(high)) + 47
        \/ text' = text + (decode_register(FALSE) + decode_register(high))
                        + (52 + decode_register(hindex))
    BY <2>1, Zenon
  <2> HIDE DEF high, hindex
  <2> QED
    BY <2>1, <2>2, <2>4, <2>5, Zenon
<1> DEFINE r1 == decode_register(FALSE)
           r2 == decode_register(base)
           r3 == decode_register(index)
<1>4. r1 \in {5, 9, 10} /\ r2 \in {5, 9, 10} /\ r3 \in {5, 9, 10}
  BY RegisterNames
<1>5. text' = text + (r1 + r2) + 47 \/ text' = text + (r1 + r2) + (52 + r3)
  OBVIOUS
<1> HIDE DEF r1, r2, r3
<1>6. text' \in 0..108
  BY <1>3, <1>4, <1>5
<1>7. 1 + disp \in Nat /\ pos + (1 + disp) - off \in 1..(MaxPrefixes + 11) /\ text' \in Nat
  BY <1>2, <1>3, <1>6
<1>8. ASSUME xpc' = "imm", pos' = pos + (1 + disp), UNCHANGED dvars
      PROVE  Reach' /\ TextReach'
  <2>1. off' = off
    BY <1>8 DEF dvars
  <2>2. pos' - off' \in 1..(MaxPrefixes + Mark + 6)
    BY <1>2, <1>3, <1>8, <2>1
  <2>3. Reach'
    BY <1>1, <1>2, <1>8, <2>2 DEF Reach
  <2> QED
    BY <1>6, <1>8, <2>3 DEF TextReach
<1> QED
  BY <1>1, <1>7, <1>8, OperandStep

LEMMA ImmediateOfInst ==
    ASSUME XInv
    PROVE  ImmediateFits(inst.opcode, "W" \in inst.rex, inst.b16_prefix, inst.opcode16, opcode)
<1>1. /\ inst.opcode \in Nat /\ opcode \in Nat /\ inst.opcode16 \in BOOLEAN
      /\ inst.b16_prefix \in BOOLEAN
  BY DEF XInv, XShape
<1>2. ("W" \in inst.rex) \in BOOLEAN
  OBVIOUS
<1> QED
  BY <1>1, <1>2, ImmediateFacts, Zenon

LEMMA ImmediateStep == XInv /\ Immediate => XInv' /\ [DNext]_dvars
<1> SUFFICES ASSUME XInv, Immediate PROVE XInv' /\ [DNext]_dvars
  OBVIOUS
<1> DEFINE n == opcode_needs_imm(inst.opcode, "W" \in inst.rex, inst.b16_prefix,
                                 inst.opcode16, opcode)
           name == IF opcode_register_extension(inst.opcode, inst.opcode16, opcode)
                   THEN 16 + decode_register("B" \in inst.rex) ELSE 0
<1>1. dpc = "loop" /\ xpc = "imm" /\ UNCHANGED <<inst, opcode, op_at>>
  BY DEF Immediate, At
<1>2. Take(n, "print") /\ text' = text + name + (IF n > 0 THEN 29 ELSE 0)
  BY DEF Immediate
<1>3. Mark' = Mark /\ HasModRM' = HasModRM /\ Mark \in {1, 2}
  BY <1>1, OpcodeStays
<1>4. /\ pos \in Nat /\ off \in Nat /\ text \in Nat /\ MaxPrefixes \in Nat /\ text <= 108
      /\ pos - off \in 1..(MaxPrefixes + Mark + (IF HasModRM THEN 6 ELSE 0))
  BY <1>1, OperandReach
<1>5. /\ inst.opcode \in 0..255 /\ opcode \in 0..255 /\ inst.opcode16 \in BOOLEAN
      /\ inst.b16_prefix \in BOOLEAN /\ ("W" \in inst.rex) \in BOOLEAN
  BY DEF XInv, XShape
<1>6. /\ n \in {0, 1, 2, 4, 8}
      /\ inst.opcode16 => n <= 4
      /\ inst.opcode16 /\ HasModRM => n = 0
      /\ ~inst.opcode16 /\ HasModRM => n <= 4
  BY ImmediateOfInst, Zenon DEF ImmediateFits, HasModRM
<1>7. name \in {0, 21, 25, 26}
  <2>1. decode_register("B" \in inst.rex) \in {5, 9, 10}
    BY RegisterNames
  <2> QED
    BY <2>1
<1> HIDE DEF n, name
<1>8. Mark = IF inst.opcode16 THEN 2 ELSE 1
  BY DEF Mark
<1>9. n \in Nat /\ pos + n - off \in 1..(MaxPrefixes + 11)
  <2>1. CASE HasModRM
    BY <1>4, <1>6, <1>8, <2>1
  <2>2. CASE ~HasModRM
    BY <1>4, <1>6, <1>8, <2>2
  <2> QED
    BY <2>1, <2>2
<1>10. text' \in 0..163 /\ text' \in Nat
  BY <1>2, <1>4, <1>6, <1>7
<1>11. ASSUME xpc' = "print", pos' = pos + n, UNCHANGED dvars
       PROVE  Reach' /\ TextReach'
  <2>1. off' = off
    BY <1>11 DEF dvars
  <2>2. pos' - off' \in 1..(MaxPrefixes + 11)
    <3>1. pos' - off' = pos + n - off
      BY <1>4, <1>9, <1>11, <2>1
    <3> QED
      BY <1>9, <3>1
  <2>3. Reach'
    BY <1>11, <2>2 DEF Reach
  <2> QED
    BY <1>10, <1>11, <2>3 DEF TextReach
<1> QED
  BY <1>1, <1>2, <1>9, <1>10, <1>11, OperandStep

LEMMA EnterStep == XInv /\ EnterX86 => XInv' /\ [DNext]_dvars
<1> SUFFICES ASSUME XInv, EnterX86 PROVE XInv' /\ [DNext]_dvars
  OBVIOUS
<1>1. /\ dpc = "loop" /\ InSection /\ arch \in X86Archs /\ xpc' = "prefix" /\ pos' = off
      /\ inst' = ZeroInst /\ opcode' = 0 /\ text' = 0 /\ op_at' = 0 /\ UNCHANGED dvars
  BY DEF EnterX86, InstClear
<1>2. off \in Nat
  BY DEF XInv, DInv, DTypeOK
<1>3. /\ DInv' /\ InSection' /\ off' = off /\ arch' = arch /\ dpc' = "loop"
  <2>1. DInv'
    BY <1>1, NextDInv DEF XInv
  <2> QED
    BY <1>1, <2>1 DEF dvars, args, InSection, End
<1>4. XShape' /\ InLoop' /\ LastText' /\ OwnPrefixes'
  BY <1>1, <1>2, <1>3 DEF XShape, XPlaces, ZeroInst, InLoop, LastText, OwnPrefixes
<1>5. pos' - off' = 0 /\ MaxPrefixes \in Nat
  BY <1>1, <1>2, <1>3, PrefixesAssumption
<1>6. InstructionBounded' /\ Reach' /\ TextReach'
  BY <1>1, <1>5 DEF InstructionBounded, Reach, TextReach
<1>7. Parsing'
  BY <1>1, <1>3, <1>6 DEF Parsing, ZeroInst
<1> QED
  BY <1>1, <1>3, <1>4, <1>6, <1>7 DEF XInv

\* The printed line is a step of PdasmDecode.
LEMMA ShowRefines ==
    ASSUME XInv, ShowX86
    PROVE  LineX86 /\ pos - off \in Nat \ {0}
<1>1. dpc = "loop" /\ xpc = "print" /\ PrintLine(pos - off, "empty")
      /\ UNCHANGED <<loader_at, differ>>
  BY DEF ShowX86, At
<1>2. arch \in X86Archs /\ InSection /\ pos - off \in 1..(MaxPrefixes + 11)
  BY <1>1 DEF XInv, XShape, Parsing, Reach
<1>3. pos - off \in X86Lengths
  BY <1>2, X86LengthsAssumption
<1> QED
  BY <1>1, <1>2, <1>3, LengthsAssumption DEF LineX86

LEMMA ShowStep == XInv /\ ShowX86 => XInv' /\ [DNext]_dvars
<1> SUFFICES ASSUME XInv, ShowX86 PROVE XInv' /\ [DNext]_dvars
  OBVIOUS
<1>1. /\ dpc = "loop" /\ xpc = "print" /\ xpc' = "idle" /\ text' = text + 13 + 4 * (pos - off)
      /\ PrintLine(pos - off, "empty") /\ UNCHANGED <<pos, inst, opcode, op_at>>
  BY DEF ShowX86, At
<1>2. /\ pos \in Nat /\ off \in Nat /\ text \in Nat /\ text <= 163 /\ pos - off \in Nat
      /\ arch \in X86Archs
  BY <1>1, ShowRefines DEF XInv, XShape, DInv, DTypeOK, Parsing, TextReach
<1>3. DInv' /\ [DNext]_dvars
  BY ShowRefines, NextDInv DEF DNext, DStep, XInv
<1>4. line'.at = off /\ arch' = arch
  BY <1>1 DEF PrintLine, args
<1>5. text' \in Nat /\ text' <= 176 + 4 * (pos' - line'.at)
  BY <1>1, <1>2, <1>4
<1>6. XShape'
  BY <1>1, <1>5 DEF XInv, XShape, XPlaces
<1>7. LastText'
  BY <1>1, <1>2, <1>4, <1>5 DEF LastText
<1> QED
  BY <1>1, <1>3, <1>6, <1>7 DEF XInv, InLoop, Parsing, InstructionBounded, OwnPrefixes

LEMMA OutsideStep == XInv /\ OutsideX86 => XInv' /\ [DNext]_dvars
<1> SUFFICES ASSUME XInv, OutsideX86 PROVE XInv' /\ [DNext]_dvars
  OBVIOUS
<1>1. DStep /\ UNCHANGED xvars
  BY DEF OutsideX86, DStep
<1>2. DInv'
  BY <1>1, NextDInv DEF DNext, XInv
<1>3. xpc = "idle"
  <2>1. dpc \in {"start", "loop"}
    BY DEF OutsideX86, Truncated, Unsupported, Supported, EndOfSection, LinePVCpu, OutsideBuffer,
           ReadFault
  <2>2. ASSUME dpc = "loop", xpc # "idle" PROVE FALSE
    <3>1. InSection /\ arch \in X86Archs /\ arch # "PVCpu"
      BY <2>2 DEF XInv, Parsing, XShape, X86Archs
    <3> QED
      BY <2>2, <3>1 DEF OutsideX86, Truncated, Unsupported, Supported, EndOfSection, LinePVCpu,
                        OutsideBuffer
  <2>3. ASSUME dpc = "start", xpc # "idle" PROVE FALSE
    BY <2>3 DEF XInv, InLoop
  <2> QED
    BY <2>1, <2>2, <2>3
<1>4. arch' = arch /\ (line' = line \/ arch \notin X86Archs)
  BY DEF OutsideX86, Truncated, Unsupported, Refuse, Supported, EndOfSection, LinePVCpu,
         PrintLine, OutsideBuffer, ReadFault, args, X86Archs
<1>5. LastText'
  <2>1. UNCHANGED <<xpc, pos, text>>
    BY <1>1 DEF xvars
  <2> QED
    BY <1>4, <2>1 DEF XInv, LastText
<1>6. XShape' /\ InLoop' /\ Parsing' /\ InstructionBounded' /\ OwnPrefixes'
  BY <1>1, <1>3 DEF XInv, XShape, InLoop, Parsing, InstructionBounded, OwnPrefixes, xvars
<1> QED
  BY <1>1, <1>2, <1>5, <1>6 DEF XInv, DNext

LEMMA NextXInv == XInv /\ [XNext]_dxvars => XInv' /\ [DNext]_dvars
<1> SUFFICES ASSUME XInv, [XNext]_dxvars PROVE XInv' /\ [DNext]_dvars
  OBVIOUS
<1>1. CASE UNCHANGED dxvars
  <2>1. UNCHANGED dvars /\ UNCHANGED xvars
    BY <1>1 DEF dxvars
  <2>2. DInv'
    BY <2>1, NextDInv DEF XInv
  <2>3. InSection' = InSection /\ Mark' = Mark /\ HasModRM' = HasModRM
    BY <2>1 DEF InSection, End, Mark, HasModRM, opcode_needs_modrm, dvars, args, xvars
  <2>4. Reach' = Reach /\ TextReach' = TextReach
    BY <2>1, <2>3 DEF Reach, TextReach, dvars, xvars
  <2>5. UNCHANGED <<xpc, pos, inst, opcode, text, op_at, dpc, arch, off, line>>
    BY <2>1 DEF dvars, args, xvars
  <2>6. XShape' /\ InLoop' /\ InstructionBounded' /\ OwnPrefixes' /\ LastText'
    BY <2>5 DEF XInv, XShape, InLoop, InstructionBounded, OwnPrefixes, LastText
  <2>7. Parsing'
    BY <2>3, <2>4, <2>5 DEF XInv, Parsing
  <2> QED
    BY <2>1, <2>2, <2>6, <2>7 DEF XInv
<1>2. CASE OutsideX86
  BY <1>2, OutsideStep
<1>3. CASE DecodeX86
  BY <1>3, EnterStep, PrefixStep, OpcodeStep, NoModRMStep, ModRMStep, SibStep, ImmediateStep,
     ShowStep DEF DecodeX86
<1> QED
  BY <1>1, <1>2, <1>3 DEF XNext, XStep

-----------------------------------------------------------------------------
\* The state of decode_x86 keeps its shape (decoder_x86.c:303-325).
THEOREM X86TypeCorrect == XSpec => []XTypeOK
<1>1. XInv => XTypeOK
  BY DEF XInv, XTypeOK, DInv
<1> QED
  BY InitXInv, NextXInv, <1>1, PTL DEF XSpec

\* decode_x86, read byte by byte, is the step PdasmDecode takes it for
\* (decoder_x86.c:303-478, main.c:193-200): all that is proved of DSpec holds
\* for the listing with the decoder in it.
THEOREM X86Implements == XSpec => Listing
<1>1. XInit => DInit
  BY DEF XInit
<1>2. XInv /\ [XNext]_dxvars => [DNext]_dvars
  BY NextXInv
<1> QED
  BY InitXInv, NextXInv, <1>1, <1>2, PTL DEF XSpec, Listing, DSpec

\* The length of an instruction is bounded by its prefixes and 11 bytes
\* (decoder_x86.c:330-463).
THEOREM X86Bounded == XSpec => []InstructionBounded
<1>1. XInv => InstructionBounded
  BY DEF XInv
<1> QED
  BY InitXInv, NextXInv, <1>1, PTL DEF XSpec

\* No instruction is read with the prefixes of the one before it
\* (decoder_x86.c:305).
THEOREM X86PrefixesReset == XSpec => []OwnPrefixes
<1>1. XInv => OwnPrefixes
  BY DEF XInv
<1> QED
  BY InitXInv, NextXInv, <1>1, PTL DEF XSpec

LEMMA LastTextFits == XInv => ShownWhole
<1> SUFFICES ASSUME XInv, xpc = "idle", pos - line.at <= 15 PROVE text < OutSize
  BY DEF ShownWhole
<1>1. pos \in Nat /\ line.at \in Nat /\ text \in Nat
  BY DEF XInv, XShape, DInv, DTypeOK, Line, NoLine
<1>2. CASE text = 0
  BY <1>2 DEF OutSize
<1>3. CASE text <= 176 + 4 * (pos - line.at)
  BY <1>1, <1>3 DEF OutSize
<1> QED
  BY <1>2, <1>3 DEF XInv, LastText

\* The line of an instruction of up to 15 bytes fits in the buffer of decode
\* (main.c:188, decoder_x86.c:471-475).
THEOREM X86ShownWhole == XSpec => []ShownWhole
BY InitXInv, NextXInv, LastTextFits, PTL DEF XSpec

-----------------------------------------------------------------------------
(* decode_x86 ends: it has only so many places, and at each of them it goes *)
(* on to a later one or reads a prefix.                                     *)

\* The steps that are left until the line of the instruction is printed.
XLeft == CASE xpc = "idle"   -> MaxPrefixes + 6
           [] xpc = "prefix" -> MaxPrefixes - (pos - off) + 5
           [] xpc = "modrm"  -> 4
           [] xpc = "sib"    -> 3
           [] xpc = "imm"    -> 2
           [] xpc = "print"  -> 1

LEMMA XLeftInNat == XInv /\ dpc = "loop" => XLeft \in Nat
<1> SUFFICES ASSUME XInv, dpc = "loop" PROVE XLeft \in Nat
  OBVIOUS
<1>1. xpc \in XPlaces /\ pos \in Nat /\ off \in Nat /\ MaxPrefixes \in Nat
  BY PrefixesAssumption DEF XInv, XShape, DInv, DTypeOK
<1>2. xpc = "prefix" => MaxPrefixes - (pos - off) \in Nat
  BY <1>1 DEF XInv, Parsing, Reach
<1> QED
  BY <1>1, <1>2 DEF XLeft, XPlaces

\* What the loop does not see brings the instruction nearer to its line.
LEMMA InsideLowersXLeft ==
    ASSUME XInv, DecodeX86, UNCHANGED dvars
    PROVE  dpc = "loop" /\ XLeft' < XLeft
<1>1. dpc = "loop" /\ dpc' = dpc /\ off' = off
  BY DEF DecodeX86, EnterX86, Prefix, OneByteOpcode, TwoByteOpcode, NoModRM, ModRM, Sib, Immediate,
         ShowX86, At, dvars
<1>2. MaxPrefixes \in Nat /\ pos \in Nat /\ off \in Nat
  BY PrefixesAssumption DEF XInv, XShape, DInv, DTypeOK
<1>3. CASE EnterX86
  <2>1. xpc = "idle" /\ xpc' = "prefix" /\ pos' = off
    BY <1>3 DEF EnterX86
  <2>2. XLeft = MaxPrefixes + 6 /\ XLeft' = MaxPrefixes - (pos' - off') + 5
    BY <2>1 DEF XLeft
  <2> QED
    BY <1>1, <1>2, <2>1, <2>2
<1>4. CASE Prefix
  <2>1. xpc = "prefix" /\ xpc' = "prefix" /\ pos' = pos + 1
    BY <1>1, <1>4 DEF Prefix, At, Take
  <2>2. XLeft = MaxPrefixes - (pos - off) + 5 /\ XLeft' = MaxPrefixes - (pos' - off') + 5
    BY <2>1 DEF XLeft
  <2> QED
    BY <1>1, <1>2, <2>1, <2>2
<1>5. CASE OneByteOpcode \/ TwoByteOpcode
  <2>1. xpc = "prefix" /\ xpc' = "modrm"
    BY <1>1, <1>5 DEF OneByteOpcode, TwoByteOpcode, At, Take
  <2>2. XLeft = MaxPrefixes - (pos - off) + 5 /\ XLeft' = 4
    BY <2>1 DEF XLeft
  <2>3. pos - off <= MaxPrefixes
    BY <1>1, <2>1 DEF XInv, Parsing, Reach
  <2> QED
    BY <1>1, <1>2, <2>2, <2>3
<1>6. CASE NoModRM
  BY <1>1, <1>6 DEF NoModRM, At, XLeft
<1>7. CASE ModRM
  <2>1. xpc = "modrm" /\ xpc' \in {"sib", "imm"}
    BY <1>1, <1>7 DEF ModRM, At, Take
  <2> QED
    BY <1>1, <2>1 DEF XLeft
<1>8. CASE Sib
  <2>1. xpc = "sib" /\ xpc' = "imm"
    BY <1>1, <1>8 DEF Sib, At, Take
  <2> QED
    BY <1>1, <2>1 DEF XLeft
<1>9. CASE Immediate
  <2>1. xpc = "imm" /\ xpc' = "print"
    BY <1>1, <1>9 DEF Immediate, At, Take
  <2> QED
    BY <1>1, <2>1 DEF XLeft
<1>10. CASE ShowX86
  <2>1. off' = off + (pos - off) /\ pos - off >= 1
    BY <1>1, <1>10 DEF ShowX86, At, PrintLine, NextOff, XInv, Parsing, Reach
  <2> QED
    BY <1>1, <1>2, <2>1
<1> QED
  BY <1>3, <1>4, <1>5, <1>6, <1>7, <1>8, <1>9, <1>10 DEF DecodeX86

LEMMA StepLowersXLeft ==
    XInv /\ XStep => DLeft' < DLeft \/ (DLeft' = DLeft /\ dpc = "loop" /\ XLeft' < XLeft)
<1> SUFFICES ASSUME XInv, XStep
             PROVE  DLeft' < DLeft \/ (DLeft' = DLeft /\ dpc = "loop" /\ XLeft' < XLeft)
  OBVIOUS
<1>1. CASE OutsideX86 \/ dvars' # dvars
  <2>1. DStep
    <3>1. CASE OutsideX86
      BY <3>1 DEF OutsideX86, DStep
    <3>2. CASE dvars' # dvars
      BY <3>2, NextXInv DEF DNext, XNext
    <3> QED
      BY <1>1, <3>1, <3>2
  <2> QED
    BY <2>1, NextLowersDLeft DEF XInv
<1>2. CASE DecodeX86 /\ UNCHANGED dvars
  <2>2. dpc = "loop" /\ XLeft' < XLeft
    BY <1>2, InsideLowersXLeft
  <2>3. DLeft' = DLeft
    BY <1>2 DEF DLeft, Unlisted, End, dvars, args
  <2> QED
    BY <2>2, <2>3
<1> QED
  BY <1>1, <1>2 DEF XStep

\* Whatever the bytes are, an instruction comes to its line and the listing to
\* its end (decoder_x86.c:303-478): a step of decode_x86 that leaves what the
\* listing has to go alone is one of the MaxPrefixes + 6 it can take for a line.
THEOREM X86ApproachesEnd ==
    XSpec => /\ [](DLeft \in Nat /\ (dpc = "loop" => XLeft \in Nat))
             /\ [][DLeft' < DLeft \/ (DLeft' = DLeft /\ dpc = "loop" /\ XLeft' < XLeft)]_dxvars
<1>1. XInv => DLeft \in Nat /\ (dpc = "loop" => XLeft \in Nat)
  BY DLeftInNat, XLeftInNat DEF XInv, DInv
<1>2. XInv /\ [XNext]_dxvars =>
          [DLeft' < DLeft \/ (DLeft' = DLeft /\ dpc = "loop" /\ XLeft' < XLeft)]_dxvars
  BY StepLowersXLeft DEF XNext
<1> QED
  BY InitXInv, NextXInv, <1>1, <1>2, PTL DEF XSpec
=============================================================================

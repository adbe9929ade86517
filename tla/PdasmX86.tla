------------------------------ MODULE PdasmX86 ------------------------------
(***************************************************************************)
(* decode_x86 (tools/PDASM/src/decoder_x86.c) inside the listing loop of   *)
(* PdasmDecode: what that module takes for one step, an instruction of     *)
(* some length, is here a run over its prefixes, opcode, ModRM byte, SIB   *)
(* byte, displacement and immediate.  The loop's `off` stays where the     *)
(* instruction starts until its line is printed; `pos` is *offset in       *)
(* between.                                                                *)
(*                                                                         *)
(* A byte is read for what it decides.  Its value is chosen when it is     *)
(* read, unless the byte at its offset is known.  Of the text, its length  *)
(* is kept, at its widest: the buffer of the caller is bounded.            *)
(***************************************************************************)
EXTENDS PdasmDecode

CONSTANTS
    Bytes,          \* the values a byte may have
    Known,          \* a function from offsets to the bytes known there
    MaxPrefixes     \* bound: the prefixes of one instruction

ASSUME BytesAssumption ==
    /\ Bytes \subseteq 0..255
    /\ \A p \in DOMAIN Known : Known[p] \in 0..255
ASSUME PrefixesAssumption == MaxPrefixes \in Nat
\* The lengths PdasmDecode allows are at least those that come about here.
ASSUME X86LengthsAssumption == 1..(MaxPrefixes + 11) \subseteq X86Lengths

ByteAt(p) == IF p \in DOMAIN Known THEN {Known[p]} ELSE Bytes

VARIABLES
    xpc,        \* where decode_x86 is, "idle" outside
    pos,        \* *offset
    inst,       \* the x64_inst: prefixes, two-byte mark, opcode, mod of ModRM
    opcode,     \* the local opcode, written only for a one-byte opcode
    text,       \* the length of the text for out
    op_at       \* history: where the opcode was found

xvars  == <<xpc, pos, inst, opcode, text, op_at>>
dxvars == <<dvars, xvars>>

\* rex holds the bits that were set and are looked at; rex_present is not.
ZeroInst == [rex |-> {}, b16_prefix |-> FALSE, opcode16 |-> FALSE, opcode |-> 0, mod |-> 0]

OutSizeHalf == 128
OutSize     == 256      \* of the buffer in decode

-----------------------------------------------------------------------------
(* What an opcode is followed by. *)

opcode_needs_modrm(op, is_0f_prefix, op_0f) ==
    IF is_0f_prefix THEN op_0f \in {1, 175, 182, 183, 186} \cup 32..35
    ELSE op \in (0..3) \cup (8..11) \cup (16..19) \cup (32..35) \cup (40..43)
                \cup (48..51) \cup (56..59) \cup (128..133) \cup (136..139)
                \cup {99, 105, 107, 141, 198, 199, 246, 247, 255}

\* The bytes of the immediate, 0 without one.
ImmSizeOfOperand(op, w, b16, is_0f_prefix, op_0f) ==
    CASE is_0f_prefix                                           -> 0
      [] op \in {128, 131, 198, 192, 193, 235, 106, 107}        -> 1
      [] op \in {232, 233, 104}                                 -> 4
      [] op \in {129, 105, 169, 199} \cup (184..191)            -> IF w THEN 8 ELSE IF b16 THEN 2 ELSE 4
      [] OTHER                                                  -> 0
opcode_needs_imm(op, w, b16, is_0f_prefix, op_0f) ==
    CASE is_0f_prefix /\ op_0f \in 128..143                     -> 4
      [] is_0f_prefix /\ op_0f \notin 128..143                  -> 0
      [] OTHER ->
    CASE op \in {128, 131, 198, 192, 193, 235, 106, 107}        -> 1
      [] op \in {232, 233, 104} \/ (op = 199 /\ w)              -> 4
      [] op \in {129, 105, 169} \/ (op = 199 /\ ~w)             -> IF b16 THEN 2 ELSE 4
      [] op \in 184..191                         -> IF w THEN 8 ELSE IF b16 THEN 2 ELSE 4
      [] OTHER                                                  -> 0

\* The register an opcode names in its low bits.
opcode_register_extension(op, is_0f_prefix, op_0f) ==
    IF is_0f_prefix THEN op_0f \in {175, 182, 183, 190, 191} \cup (64..79)
    ELSE op \in (64..71) \cup (80..87) \cup (144..151) \cup (184..191)

\* strlen of decode_register's answer, at most; extended says that the number
\* given to it is above 7.
decode_register(extended) ==
    CASE "W" \in inst.rex /\ inst.b16_prefix -> 10
      [] extended                            -> 9
      [] OTHER                               -> 5

-----------------------------------------------------------------------------
\* The next n bytes are read. Past the end of the file this may be the end.
Take(n, next) ==
    \/ xpc' = next /\ pos' = pos + n /\ UNCHANGED dvars
    \/ /\ pos + n > size /\ dpc' = "crashed"
       /\ UNCHANGED <<xpc, pos, args, off, last_off, vaddr, out, line, overread,
                      loader_at, differ, said>>

InstKept  == inst
InstClear == ZeroInst

EnterX86 ==
    /\ dpc = "loop" /\ InSection /\ arch \in X86Archs /\ xpc = "idle"
    /\ xpc' = "prefix" /\ pos' = off /\ inst' = InstClear
    /\ opcode' = 0 /\ text' = 0 /\ op_at' = 0
    /\ UNCHANGED dvars

At(p) == dpc = "loop" /\ xpc = p

\* Four bits of a REX prefix; a later one replaces them all.
Rex(b) == {bit \in {"W", "X", "B"} :
              (b \div [W |-> 8, X |-> 2, B |-> 1][bit]) % 2 = 1}

Prefix ==
    /\ At("prefix") /\ pos - off < MaxPrefixes
    /\ \E b \in ByteAt(pos) :
          \/ b \in 64..79 /\ inst' = [inst EXCEPT !.rex = Rex(b)]
          \/ b = 102 /\ inst' = [inst EXCEPT !.b16_prefix = TRUE]
    /\ Take(1, "prefix")
    /\ UNCHANGED <<opcode, text, op_at>>

\* In both tables the widest names are those of the operand and address sizes.
OneByteOpcode ==
    /\ At("prefix")
    /\ \E b \in ByteAt(pos) \ ((64..79) \cup {102, 15}) :
          opcode' = b /\ inst' = [inst EXCEPT !.opcode = b]
    /\ text' = 7 + 12 /\ op_at' = pos
    /\ Take(1, "modrm")

\* The second byte is kept in a variable of the block, which hides the opcode
\* that is used further down and holds whatever the stack held.
TwoByteOpcode ==
    /\ At("prefix") /\ 15 \in ByteAt(pos)
    /\ opcode' \in Bytes /\ inst' = [inst EXCEPT !.opcode16 = TRUE]
    /\ text' = 7 + 12 /\ op_at' = pos
    /\ Take(2, "modrm")

HasModRM == opcode_needs_modrm(inst.opcode, inst.opcode16, opcode)

NoModRM ==
    /\ At("modrm") /\ ~HasModRM
    /\ xpc' = "imm" /\ UNCHANGED <<pos, inst, opcode, text, op_at, dvars>>

ModUnshifted(b) == b - (b % 64)
ModOf(b)        == b \div 64

\* The register and the memory operand: with mod 0 always four bytes.
ModRM ==
    /\ At("modrm") /\ HasModRM
    /\ \E b \in ByteAt(pos) :
          LET mod == ModOf(b)  rm == b % 8  reg == decode_register(FALSE) IN
          /\ inst' = [inst EXCEPT !.mod = mod]
          /\ \/ rm = 4 /\ mod # 3 /\ Take(1, "sib") /\ text' = text
             \/ rm # 4 /\ mod = 0 /\ Take(5, "imm")
                /\ text' = text + reg + (IF rm = 5 THEN 79 ELSE 30)
             \/ rm # 4 /\ mod = 1 /\ Take(2, "imm") /\ text' = text + reg + 74
             \/ rm # 4 /\ mod = 2 /\ Take(5, "imm") /\ text' = text + reg + 75
             \/ mod = 3 /\ Take(1, "imm") /\ text' = text + 2 * reg + 18
    /\ UNCHANGED <<opcode, op_at>>

\* With REX.B a base of 5 is no longer 5.
Sib ==
    /\ At("sib")
    /\ \E b \in ByteAt(pos) :
          LET base  == (b % 8) + (IF "B" \in inst.rex THEN 8 ELSE 0)
              index == ((b \div 8) % 8) + (IF "X" \in inst.rex THEN 8 ELSE 0)
              disp  == CASE inst.mod = 2 \/ (inst.mod = 0 /\ base = 5) -> 4
                         [] inst.mod = 1                              -> 1
                         [] OTHER                                     -> 0
              shown == decode_register(FALSE) + decode_register(base > 7)
          IN  /\ Take(1 + disp, "imm")
              /\ text' = text + shown + (IF index = 4 THEN 47 ELSE 52 + decode_register(index > 7))
    /\ UNCHANGED <<inst, opcode, op_at>>

Immediate ==
    /\ At("imm")
    /\ LET immsize == opcode_needs_imm(inst.opcode, "W" \in inst.rex, inst.b16_prefix,
                                      inst.opcode16, opcode)
           named   == opcode_register_extension(inst.opcode, inst.opcode16, opcode)
       IN  /\ Take(immsize, "print")
           /\ text' = text + (IF named THEN 16 + decode_register("B" \in inst.rex) ELSE 0)
                           + (IF immsize > 0 THEN 29 ELSE 0)
    /\ UNCHANGED <<inst, opcode, op_at>>

\* Back in the loop: the bytes, then the end of its body.
ShowX86 ==
    /\ At("print")
    /\ xpc' = "idle" /\ text' = text + 13 + 4 * (pos - off)
    /\ PrintLine(pos - off, "empty")
    /\ UNCHANGED <<pos, inst, opcode, op_at, loader_at, differ>>

DecodeX86 == \/ EnterX86 \/ Prefix \/ OneByteOpcode \/ TwoByteOpcode
             \/ NoModRM \/ ModRM \/ Sib \/ Immediate \/ ShowX86

OutsideX86 ==
    /\ \/ Truncated \/ Unsupported \/ Supported \/ EndOfSection
       \/ LinePVCpu \/ OutsideBuffer \/ (arch = "PVCpu" /\ ReadFault)
    /\ UNCHANGED xvars

XEntry == xpc = "idle" /\ pos = 0 /\ inst = ZeroInst /\ opcode = 0 /\ text = 0 /\ op_at = 0
XInit == DInit /\ XEntry
XStep == DecodeX86 \/ OutsideX86
XNext == XStep \/ (dpc \in DFinal /\ UNCHANGED dxvars)

XSpec     == XInit /\ [][XNext]_dxvars
XFairSpec == XSpec /\ WF_dxvars(XStep)     \* one thread, never blocked

-----------------------------------------------------------------------------
(* What decode_x86 guarantees. *)

XPlaces == {"idle", "prefix", "modrm", "sib", "imm", "print"}

\* The decoder's part of the state; *offset never falls behind the loop's.
XShape ==
    /\ xpc \in XPlaces /\ pos \in Nat /\ text \in Nat /\ op_at \in Nat
    /\ inst \in [rex : SUBSET {"W", "X", "B"}, b16_prefix : BOOLEAN, opcode16 : BOOLEAN,
                 opcode : 0..255, mod : 0..3]
    /\ opcode \in 0..255
    /\ xpc # "idle" => arch \in X86Archs /\ pos >= off

\* The shape of the state, the listing loop's part of it included.
XTypeOK == DTypeOK /\ XShape

\* Seen from the loop (main.c:193-200), decode_x86 is a step that moves the
\* offset by the length of some instruction and dies only past the end of the
\* file: everything PdasmDecode says of a listing holds with the decoder in it.
Listing == DSpec

\* What follows the prefixes is never longer than 11 bytes: opcode, ModRM, SIB,
\* displacement and immediate (decoder_x86.c:330-463), whatever they are.
InstructionBounded == xpc # "idle" => pos - off <= MaxPrefixes + 11

\* An instruction is read with its own prefixes only (decoder_x86.c:305-325):
\* with none before its opcode there are none in effect, whatever the
\* instruction before it had.
OwnPrefixes ==
    xpc \notin {"idle", "prefix"} /\ op_at = off => inst.rex = {} /\ ~inst.b16_prefix

\* The line of an instruction of up to 15 bytes, the most a processor takes, is
\* never cut off: its text with its bytes fits in the buffer (main.c:188,
\* decoder_x86.c:471-475).
ShownWhole == xpc = "idle" /\ pos - line.at <= 15 => text < OutSize

-----------------------------------------------------------------------------
\* The listing of tools/PDASM/tests/x64.o, the assembled tests/x64.pasm: every
\* line shows one of the instructions of that program.
TestProgram == {0, 7, 17, 22, 27, 30, 40, 42, 45, 48, 53, 63, 73, 75}
ListsTestProgram ==
    arch \in X86Archs /\ line # NoLine => line.at - soff \in TestProgram
=============================================================================

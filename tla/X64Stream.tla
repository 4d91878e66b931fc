----------------------------- MODULE X64Stream -----------------------------
(***************************************************************************)
(* An Assembler that is given x86_64 statements one after the other        *)
(* (Assembler::x64()): the bytes it collects, its relocations and errors.  *)
(* The bytes are read back with the tables of the processor's manual, in   *)
(* X64Decode, which share nothing with the tables of the assembler.        *)
(*                                                                         *)
(* A statement is [kind, op, arg]: kind is "STMT_0" .. "STMT_3", "STMT_N"; *)
(* op is [name, cond]; arg is the operand of a STMT_1.                     *)
(***************************************************************************)
EXTENDS X64Asm, X64Decode

Seqs == INSTANCE SequencesExt

CONSTANTS Statements,     \* what may be assembled first
          Followers,      \* and what after that
          MaxStatements   \* bound on the statements that are assembled

VARIABLES buffer,        \* the bytes added so far
          relocations,   \* sequence of [at, label]
          errors,        \* the statements refused
          given          \* the statements assembled
vars == <<buffer, relocations, errors, given>>

(***************************************************************************)
(* The other instructions: inst0_vec and instn_vec.                        *)
(***************************************************************************)

Bytes0 == [
  clc |-> <<248>>, cld |-> <<252>>, cmc |-> <<245>>, int3 |-> <<204>>, lock |-> <<240>>,
  nop |-> <<144>>, pause |-> <<243, 144>>, popf |-> <<157>>, pushf |-> <<156>>,
  rep |-> <<243>>, repne |-> <<242>>, stc |-> <<249>>, std |-> <<253>>,
  syscall |-> <<15, 5>>, sysenter |-> <<15, 52>>, sysexit |-> <<15, 53>>,
  sysret |-> <<15, 7>>, ud2 |-> <<15, 11>>, xacquire |-> <<242>>, xrelease |-> <<243>>,
  lfence |-> <<15, 174, 232>>, mfence |-> <<15, 174, 240>>, sfence |-> <<15, 174, 248>>,
  xend |-> <<15, 1, 213>>, xtest |-> <<15, 1, 214>>]

BytesN == [call_ |-> <<15, 11>>, ret |-> <<195>>]

\* Asm0::emit() .. AsmN::emit(); no statement of two or three operands has an instruction yet.
EmitStmt(st) ==
  CASE st.kind = "STMT_0" -> Emitted(Bytes0[st.op.name])
    [] st.kind = "STMT_1" -> EmitStmt1(st.op, st.arg)
    [] st.kind = "STMT_N" -> Emitted(BytesN[st.op.name])
    [] OTHER -> Refused

(***************************************************************************)
(* What the constructors of statements and operands make.                  *)
(***************************************************************************)

Int32 == {v \in Int : -2147483647 - 1 <= v /\ v <= 2147483647}
Registers == {NoReg} \cup [id : Nat, bits : Nat \ {0}]
Mems == [type : {"MEM"}, bits : Nat, label : Nat, offset : Int32,
         base : Registers, index : Registers, scale : {0, 1, 2, 4, 8}]

IsOperand(arg) ==
  \/ arg \in [type : {"VAR"}, reg : Registers]
  \/ arg \in Mems /\ (arg.scale = 0 <=> ~IsReg(arg.index))
  \/ arg \in [type : {"CONST"}, bits : Nat, val : Int32]
  \/ arg \in [type : {"LABEL"}, label : Nat]

IsStatement(st) ==
  \/ st.kind = "STMT_0" /\ st.op \in [name : DOMAIN Bytes0, cond : {""}]
  \/ st.kind = "STMT_1" /\ st.op \in Ops /\ IsOperand(st.arg)
  \/ st.kind \in {"STMT_2", "STMT_3"}
  \/ st.kind = "STMT_N" /\ st.op \in [name : DOMAIN BytesN, cond : {""}]

ASSUME StatementsAssumption ==
  /\ MaxStatements \in Nat
  /\ \A st \in Statements \cup Followers : IsStatement(st)

(***************************************************************************)
(* The assembler.                                                          *)
(***************************************************************************)

Init == buffer = << >> /\ relocations = << >> /\ errors = << >> /\ given = << >>

Count == Len(given) + Len(errors)
Offered == IF Count = 0 THEN Statements ELSE Followers

\* Assembler::add(), and add_relocation() after the bytes of a label's instruction.
Assemble(st) ==
  /\ Count < MaxStatements
  /\ LET out == EmitStmt(st) IN
     /\ ~out.error
     /\ buffer' = buffer \o out.bytes
     /\ relocations' = IF out.label = NoLabel THEN relocations
                       ELSE Append(relocations, [at |-> Len(buffer'), label |-> out.label])
  /\ given' = Append(given, st)
  /\ UNCHANGED errors

\* Assembler::error(): nothing is added.
Refuse(st) ==
  /\ Count < MaxStatements
  /\ EmitStmt(st).error
  /\ errors' = Append(errors, st)
  /\ UNCHANGED <<buffer, relocations, given>>

Next == \E st \in Offered : Assemble(st) \/ Refuse(st)
Spec == Init /\ [][Next]_vars

(***************************************************************************)
(* What the bytes should mean.                                             *)
(***************************************************************************)

\* The registers of an address are 64 bit registers, %rip is no operand of its
\* own, and a number fits its instruction: outside of this the assembler emits
\* bytes of another instruction instead of an error.
Encodable(st) ==
  st.kind = "STMT_1" =>
    /\ st.arg.type = "VAR" => st.arg.reg.id # RIP /\ st.op.name # "cbw"
    /\ st.arg.type = "MEM" => st.arg.base.bits \in {0, 64} /\ st.arg.index.bits \in {0, 64}
    /\ st.arg.type = "CONST" => /\ st.op.name = "int" => st.arg.val \in -128 .. 127
                                /\ st.op.name # "xabort"

IdOf(reg) == IF IsReg(reg) THEN reg.id ELSE None

\* Synonyms and prefixes: what the processor calls the instructions of a statement.
Intended(st) ==
  CASE st.kind = "STMT_1" ->
         (CASE st.arg.type = "VAR" -> <<RegIns(st.op, st.arg.reg.bits, st.arg.reg.id)>>
            [] st.arg.type = "MEM" ->
                 <<MemIns(st.op, st.arg.bits, IdOf(st.arg.base), IdOf(st.arg.index),
                          IF st.arg.scale = 0 THEN 1 ELSE st.arg.scale, st.arg.offset)>>
            [] st.arg.type = "CONST" -> <<ImmIns(st.op, st.arg.val)>>
            [] OTHER -> <<ImmIns(st.op, 0)>>)
    [] st.op.name = "pause" -> <<PlainIns(Op("rep")), PlainIns(Op("nop"))>>
    [] st.op.name = "xacquire" -> <<PlainIns(Op("repne"))>>
    [] st.op.name = "xrelease" -> <<PlainIns(Op("rep"))>>
    [] st.op.name = "call_" -> <<PlainIns(Op("ud2"))>>
    [] OTHER -> <<PlainIns(st.op)>>

LabelOf(st) == IF st.kind = "STMT_1" /\ st.arg.type \in {"MEM", "LABEL"} THEN st.arg.label ELSE NoLabel

\* The instructions of all statements, each with the label to be filled in at its end.
Labelled(st) == [k \in DOMAIN Intended(st) |-> [ins |-> Intended(st)[k], label |-> LabelOf(st)]]
AllIntended == Seqs!FlattenSeq([i \in DOMAIN given |-> Labelled(given[i])])

\* The relocations of instructions that end where ends tells.
Relocations(wanted, ends) ==
  Seqs!FlattenSeq([i \in DOMAIN wanted |->
    IF wanted[i].label = NoLabel THEN << >> ELSE <<[at |-> ends[i], label |-> wanted[i].label]>>])

TypeOK ==
  /\ buffer \in Seq(0 .. 255)
  /\ \A r \in {relocations[i] : i \in DOMAIN relocations} :
       r.at \in 1 .. Len(buffer) /\ r.label # NoLabel

\* The processor that reads the bytes from the first one on finds the
\* instructions the assembler was given, in that order, with their operands and
\* sizes, and no others; and every label is filled in at the end of the
\* instruction it belongs to: prefixes, the lengths of offsets and numbers, and
\* the registers that need a byte more never shift what follows (asm1.cpp, util.cpp).
BytesDecodeBack ==
  (\A i \in DOMAIN given : Encodable(given[i])) =>
    LET found == Decoded(buffer) IN
    /\ Len(found) = Len(AllIntended)
    /\ \A i \in DOMAIN found : found[i].ins = AllIntended[i].ins
    /\ relocations = Relocations(AllIntended, [i \in DOMAIN found |-> found[i].end])

=============================================================================

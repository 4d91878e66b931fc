------------------------------ MODULE IrEnums ------------------------------
(***************************************************************************)
(* The enumerations an IR header is made of, as the numbers they are in    *)
(* the code: types, kinds and the operations the classes tell apart.       *)
(***************************************************************************)
EXTENDS Integers

STMT_0 == 0
STMT_1 == 1
STMT_2 == 2
STMT_3 == 3
STMT_4 == 4
STMT_N == 5
VAR == 6
MEM == 7
UNARY == 8
BINARY == 9
TUPLE == 10
LABEL == 11
CONST == 12
FTYPE == 13
NAME == 14

\* enum Type
Types == 0 .. 14

\* is_list(): types whose nodes store the number of their children.
IsList(t) == t \in {STMT_N, MEM, TUPLE, FTYPE}

\* to_children(): children of the types that are not lists.
FixedChildren(t) ==
  CASE t \in STMT_0 .. STMT_4 -> t
    [] t = UNARY -> 1
    [] t = BINARY -> 2
    [] OTHER -> 0

eBad == 0
eVoid == 1
eBool == 2
eInt8 == 3
eInt16 == 4
eInt32 == 5
eInt64 == 6
eUint8 == 7
eUint16 == 8
eUint32 == 9
eUint64 == 10
eFloat16 == 11
eFloat32 == 12
eFloat64 == 13
eFloat128 == 14
ePtr == 15

\* Kind: an eKind in the low four bits, the log2 of its repetitions above.
Simd(kind, log2) == (kind % 16) + 16 * log2
NoSimd(kind) == kind % 16

\* Kind::bits(), of one repetition and in all; 0 for Bad and Void.
LaneBits(kind) ==
  <<0, 0, 1, 8, 16, 32, 64, 8, 16, 32, 64, 16, 32, 64, 128, 64>>[1 + (kind % 16)]
KindBits(kind) == LaneBits(kind) * 2 ^ (kind \div 16)

\* The operations of each type of node, as far as a class names them.
BAD_OP == 0

BREAK == 1
CONTINUE == 2
FALLTHROUGH == 3

GOTO == 1
INC == 2
DEC == 3

ADD_ASSIGN == 1
SUB_ASSIGN == 2
MUL_ASSIGN == 3
QUO_ASSIGN == 4
REM_ASSIGN == 5
AND_ASSIGN == 6
OR_ASSIGN == 7
XOR_ASSIGN == 8
SHL_ASSIGN == 9
SHR_ASSIGN == 10
ASSIGN == 11
CASE_ == 12
DEFAULT == 13
JUMP_IF == 14

IF_ == 1
FOR == 1

ASSIGN_CALL == 1
BLOCK == 2
COND == 3
RETURN == 4
SWITCH == 5
MIR_RET == 9
X86_RET == 11

XOR1 == 1
NOT1 == 2
NEG1 == 3
CAST == 4
BITCOPY == 5

SUB == 1
QUO == 2
REM == 3
SHL == 4
SHR == 5
LAND == 6
LOR == 7
LSS == 8
LEQ == 9
NEQ == 10
EQL == 11
GTR == 12
GEQ == 13

ADD == 1
MUL == 2
AND == 3
OR == 4
XOR == 5
MAX == 6
MIN == 7
COMMA == 8
CALL == 9
MEM_OP == 10

\* No enumeration of operations has more members.
MaxOp == 511
=============================================================================

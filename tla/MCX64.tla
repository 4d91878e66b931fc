-------------------------------- MODULE MCX64 --------------------------------
\* Every operation with every kind of operand, every kind of address with one
\* operation of each shape, and after it instructions of all lengths.
EXTENDS X64Stream

Widths == {8, 16, 32, 64}
R64(id) == Reg(id, 64)
Bases == {NoReg} \cup {R64(id) : id \in {RAX, RBX, RSP, RBP, RDI, R12, R13, R15, RIP}}
Indexes == {NoReg} \cup {R64(id) : id \in {RAX, RBP, RSI, R12, R15}}
Offsets == {0, 1, 127, 128, -128, -129, 2147483647}

St(op, arg) == [kind |-> "STMT_1", op |-> op, arg |-> arg]
Var(reg) == [type |-> "VAR", reg |-> reg]
Const(bits, val) == [type |-> "CONST", bits |-> bits, val |-> val]
Label(l) == [type |-> "LABEL", label |-> l]

Regs == {Reg(id, bits) : id \in (RAX .. R15) \cup {RIP, XMM0}, bits \in Widths} \cup {Reg(RAX, 128)}
Consts == {Const(8, v) : v \in {0, 5, 127, 200, -128}} \cup {Const(16, 300)}
          \cup {Const(32, v) : v \in {0, 127, 128, -128, -129, 2147483647}}

\* One address of each form of the ModRM and SIB bytes, and some that are refused.
FewMems ==
  {MemOf(bits, 0, o, b, i, 2) : bits \in Widths, o \in {0, 128},
     b \in {NoReg, R64(R13), R64(RIP)}, i \in {NoReg, R64(R12)}}
  \cup {MemOf(bits, 1, 5, R64(RSP), NoReg, 0) : bits \in Widths}
  \cup {MemOf(64, 0, 0, b, i, 1) : b \in {R64(XMM0), Reg(RAX, 32)}, i \in {R64(RSP), R64(XMM0)}}
AnyMems(bits) ==
  {MemOf(bits, l, o, b, i, s) : l \in {0, 1}, o \in Offsets, b \in Bases, i \in Indexes, s \in {0, 1, 8}}

Statements1 ==
  {St(op, arg) : op \in Ops, arg \in {Var(r) : r \in Regs} \cup Consts \cup {Label(1)} \cup FewMems}
  \cup {St(Op("inc"), m) : m \in AnyMems(8) \cup AnyMems(64)}
  \cup {St(Op("push"), m) : m \in AnyMems(16)}
Statements0 == [kind : {"STMT_0"}, op : {Op(n) : n \in DOMAIN Bytes0}]
StatementsN == [kind : {"STMT_N"}, op : {Op(n) : n \in DOMAIN BytesN}]
MCStatements ==
  Statements1 \cup Statements0 \cup StatementsN \cup [kind : {"STMT_2", "STMT_3"}, op : {Op("none")}]

MCFollowers ==
  {[kind |-> "STMT_0", op |-> Op("nop")], St(Op("push"), Var(R64(R12))),
   St(Op("neg"), MemOf(16, 2, 3, R64(RBP), R64(R12), 4)), St([name |-> "j", cond |-> "ne"], Label(1))}

=============================================================================

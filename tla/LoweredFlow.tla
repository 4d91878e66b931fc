---------------------------- MODULE LoweredFlow ----------------------------
(***************************************************************************)
(* The flow graphs of lowered functions: x64::Compiler translates the code *)
(* of Compiler::compile(Func) node by node, and builds the FlowGraph of    *)
(* the result before it allocates registers (onejit/x64/compiler.cpp).     *)
(***************************************************************************)
EXTENDS FlowGraph, Lowering

\* compile(Node).  The X86_CMP before a conditional jump is not counted.
X86Node(instr) ==
  [kind |-> CASE instr.op = "jump_if" -> IF instr.jop = "JLE" THEN "unlisted" ELSE "cond"
              [] instr.op \in {"label", "goto", "return"} -> instr.op
              [] OTHER -> "other",
   l |-> IF instr.op \in {"label", "goto", "jump_if"} THEN instr.l ELSE None]

X86Code(code) == [p \in DOMAIN code |-> X86Node(code[p])]

\* compile_x64() stops if compile() reported an error.
X86Codes(bodies) ==
  LET compiled == {CompileFunc(body) : body \in bodies}
  IN  {X86Code(st.code) : st \in {c \in compiled : c.errors = 0}}
=============================================================================

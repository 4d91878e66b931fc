---------------------------- MODULE MCFlowGraph ----------------------------
(* All short codes whose labels are distinct, and those of the corpus.     *)
EXTENDS LoweredFlow, Corpus

CONSTANTS
  MaxNodes,   \* length of the short codes
  MaxLabel    \* labels are 0..MaxLabel; a jump may go to MaxLabel + 1

FlowNode(kind, l) == [kind |-> kind, l |-> l]

FlowNodes ==
  {FlowNode("label", l) : l \in 0 .. MaxLabel}
  \cup {FlowNode(kind, l) : kind \in {"goto", "cond"}, l \in 0 .. (MaxLabel + 1)}
  \cup {FlowNode(kind, 0) : kind \in {"return", "other"}}

DistinctLabels(code) ==
  \A p, q \in DOMAIN code : code[p].kind = "label" /\ code[p] = code[q] => p = q

ShortCodes ==
  {code \in UNION {[1 .. n -> FlowNodes] : n \in 0 .. MaxNodes} : DistinctLabels(code)}

CorpusCodes == X86Codes(Programs)

\* The codes whose conditional jumps is_cond_jump() knows.
ListedCodes == {code \in CorpusCodes : \A p \in DOMAIN code : code[p].kind # "unlisted"}

\* The code of if (a > b), signed, ends a block with a jump that is_cond_jump() does
\* not know.  EdgesAreJumps fails of it: replace ListedCodes by it to see how.
SignedGreaterCodes == X86Codes({If(Cmp("GTR", TRUE, 1), Do(1), Do(2))})

AllCodes == ShortCodes \cup ListedCodes

\* A graph that was built is built again for these.
Again == {<<FlowNode("other", 0)>>, <<FlowNode("cond", 0)>>,
          <<FlowNode("goto", 0), FlowNode("other", 0), FlowNode("label", 0)>>}

FirstOrAgain ==
  \/ Step
  \/ nodes = << >> /\ \E code \in Codes : Build(code)
  \/ nodes # << >> /\ \E code \in Again : Build(code)

FirstOrAgainSpec == Init /\ [][FirstOrAgain]_vars

-----------------------------------------------------------------------------
\* A function that compiled without errors has a flow graph: every label
\* Compiler::compile(Func) makes jumps to is in the code, build() does not fail.
GraphIsBuilt == nodes \in ListedCodes => phase # "failed"
=============================================================================

---------------------------- MODULE MCTypeGraph ----------------------------
(* Literals over two declared types and one predeclared type.              *)
(*                                                                         *)
(* There are no channels: chan.go:85 calls them not comparable, Go does    *)
(* not.  Interfaces that embed have other methods than those that do not   *)
(* (they are on another level): the key that NewInterface() interns        *)
(* interfaces by is made of methods only, see makeInterfaceKey().          *)
EXTENDS TypeGraph

Lit(k, parts, embeds, level) == [kind |-> k, parts |-> parts, embeds |-> embeds, level |-> level]
Flat(k, parts) == Lit(k, parts, {}, 1)
Nested(k, parts) == Lit(k, parts, {}, 2)

Simple == Named \cup Basic

Func(t) == Flat("func", <<t>>)

Literals ==
  {Flat(k, <<t>>) : k \in {"ptr", "slice", "array", "struct", "func"}, t \in Simple}
  \cup {Flat("map", <<t, b>>) : t \in Simple, b \in Basic}
  \cup {Flat("map", <<b, t>>) : t \in Simple, b \in Basic}
  \cup {Nested("struct", <<t, Flat("slice", <<u>>)>>) : t \in Named, u \in Named}
  \cup {Nested("struct", <<Flat("ptr", <<t>>)>>) : t \in Named}
  \cup {Nested("ptr", <<Flat(k, <<t>>)>>) : k \in {"array", "struct"}, t \in Named}
  \cup {Nested("interface", <<Func(t)>>) : t \in Simple}
  \cup {Lit("interface", << >>, {n}, 1) : n \in Named}
  \cup {Lit("interface", <<Func(t)>>, {n}, 2) : n \in Named, t \in Named}

Symmetry == Permutations(Named)
=============================================================================

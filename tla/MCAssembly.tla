---------------------------- MODULE MCAssembly ----------------------------
EXTENDS Assembly

Names == {"a", "b", "c", "d"}
Three == {"a", "b", "c"}

\* Each of four assemblies provides a service of its own and requires any of the
\* others; or two provide one service, which a third requires; or one is missing.
SomeSystems ==
  {[order |-> <<"a", "b", "c", "d">>, provides |-> [n \in Names |-> {n}], requires |-> r] :
     r \in {q \in [Names -> SUBSET Names] :
              (\A n \in Names : n \notin q[n]) /\ Cardinality(q["a"]) <= 2 /\ q["d"] \subseteq {"a", "b"}}}
  \union
  {[order |-> <<"a", "b", "c">>, provides |-> [n \in Three |-> IF n = "c" THEN {} ELSE {"s"}],
    requires |-> [n \in Three |-> IF n = "c" THEN {"s"} ELSE r[n]]] :
     r \in [Three -> {{}, {"s"}, {"missing"}}]}

NoField == [a \in Three |-> {}]

\* Any dependencies between three activities, itself and an unknown one included;
\* any outputs and requirements of one field.
SomeDefinitions ==
  {[type |-> "dispose", dependsOn |-> d, outputs |-> NoField, required |-> NoField, mistyped |-> NoField] :
     d \in {e \in [Three -> SUBSET (Three \union {"x"})] : "x" \notin e["a"] \union e["b"]}}
  \union
  {[type |-> "deploy", dependsOn |-> d, outputs |-> o, required |-> r, mistyped |-> m] :
     d \in {e \in [Three -> SUBSET Three] : \A a \in Three : a \notin e[a]},
     o \in [Three -> {{}, {"f"}}], r \in [Three -> {{}, {"f"}}],
     m \in {NoField, [NoField EXCEPT !["a"] = {"f"}]}}
=============================================================================

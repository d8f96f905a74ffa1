---------------------------- MODULE ControlFlow -----------------------------
(***************************************************************************)
(* The control flow graph the tree walker executes: the constructor        *)
(* ControlFlowGraph( const AbstractSyntaxTree& ) in                        *)
(* src/project/interpreters/tree-walking-interpreter/src/                  *)
(* control_flow_graph.cpp.                                                 *)
(*                                                                         *)
(* The constructor copies the tree and rewrites the copy from the leaves   *)
(* upwards.  Here the graph is the sequence of the nodes of the rewritten  *)
(* copy, children before parents; a node names its children by their       *)
(* places, so the children two nodes share are one node.                   *)
(***************************************************************************)
EXTENDS SyntaxTree, SequencesExt

(* condition is what conditional_expression() of an if returns, and target *)
(* the loop a goto leads back to; 0 in every other node.                   *)
GraphNode(class, str, int, children) ==
  [class |-> class, str |-> str, int |-> int, children |-> children,
   condition |-> 0, target |-> 0]

IfNode(condition, scopes) ==
  [GraphNode("IfStatment", "", 0, scopes) EXCEPT !.condition = condition]

GotoNode(target) == [GraphNode("Goto", "", 0, <<>>) EXCEPT !.target = target]

(* A graph under construction: its nodes, and the places of those that     *)
(* become children of the node that is built next.                         *)
With(graph, node) ==
  [nodes |-> Append(graph.nodes, node), ids |-> <<Len(graph.nodes) + 1>>]

Copied(tree, graph) ==
  With(graph, GraphNode(tree.class, tree.str, tree.int, graph.ids))

(* The condition of an if is moved before the if, into its parent.         *)
RewriteIf(graph) ==
  LET condition == Head(graph.ids)
      if        == With(graph, IfNode(condition, Tail(graph.ids)))
  IN  [if EXCEPT !.ids = <<condition>> \o if.ids]

(* while (c) s  becomes  while: c, if { s goto while }. *)
RewriteWhile(graph) ==
  LET condition == graph.ids[1]
      n         == Len(graph.nodes)
  IN  [nodes |-> graph.nodes \o
                 << GotoNode(n + 4),
                    GraphNode("Scope", "", 0, <<graph.ids[2], n + 1>>),
                    IfNode(condition, <<n + 2>>),
                    GraphNode("WhileStatment", "", 0, <<condition, n + 3>>) >>,
       ids   |-> <<n + 4>>]

(* The body becomes a function scope: the parameters, the last one first,  *)
(* each an assignment without a source, and then the body.                 *)
RewriteFunction(tree, graph) ==
  LET params == SubSeq(graph.ids, 2, Len(graph.ids) - 1)
      n      == Len(graph.nodes)
      count  == Len(params)
      assignments ==
        [i \in 1..count |->
           GraphNode("VaribleAssigmentStatment", "LOCAL", 0, <<params[count + 1 - i]>>)]
      scope  == GraphNode("FunctionScope", tree.str, 0,
                          [i \in 1..count |-> n + i] \o <<Last(graph.ids)>>)
  IN  [nodes |-> graph.nodes \o assignments \o
                 << scope,
                    GraphNode("FunctionStatment", tree.str, 0,
                              Front(graph.ids) \o <<n + count + 1>>) >>,
       ids   |-> <<n + count + 2>>]

(* Graphs side by side, the second numbered after the first. *)
Moved(node, by) ==
  LET there(id) == IF id = 0 THEN 0 ELSE id + by
  IN  [node EXCEPT !.children  = [i \in DOMAIN @ |-> there(@[i])],
                   !.condition = there(@),
                   !.target    = there(@)]

Beside(left, right) ==
  LET n == Len(left.nodes)
  IN  [nodes |-> left.nodes \o [i \in DOMAIN right.nodes |-> Moved(right.nodes[i], n)],
       ids   |-> left.ids \o [i \in DOMAIN right.ids |-> right.ids[i] + n]]

RECURSIVE Rewrite(_)
Rewrite(tree) ==
  LET children == [i \in DOMAIN tree.children |-> Rewrite(tree.children[i])]
      graph    == FoldLeft(Beside, [nodes |-> <<>>, ids |-> <<>>], children)
  IN  CASE tree.class = "IfStatment"       -> RewriteIf(graph)
        [] tree.class = "WhileStatment"    -> RewriteWhile(graph)
        [] tree.class = "FunctionStatment" -> RewriteFunction(tree, graph)
        [] OTHER                           -> Copied(tree, graph)

(* The graph of a tree; its last node is the root. *)
ControlFlowGraph(tree) == Rewrite(tree).nodes
=============================================================================

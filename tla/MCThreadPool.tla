---------------------------- MODULE MCThreadPool ----------------------------
(* Two workers; the owner submits a1 and b1, whose tasks submit a2 and b2, *)
(* and c, which submits nothing.                                           *)
EXTENDS ThreadPool

MCWorkers == {"w1", "w2"}
MCRoots == {"a1", "b1", "c"}
MCChildren == {"a2", "b2"}
MCchild ==
  [t \in MCRoots \cup MCChildren |->
     CASE t = "a1" -> "a2" [] t = "b1" -> "b2" [] OTHER -> "none"]
=============================================================================

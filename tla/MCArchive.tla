------------------------------ MODULE MCArchive ------------------------------
(* Archive on small instances.  Addresses are interchangeable: the code never *)
(* compares them but for equality.  So are node identifiers, in a model that  *)
(* leaves out the order in which nodes are stored.  The runs take both up to  *)
(* permutation; document identifiers are ordered, and are not.                *)
EXTENDS Archive

InterchangeableNames ==
    Permutations(TitleBuffers) \cup Permutations(PageAddresses)
        \cup Permutations(NodeAddresses) \cup Permutations(NodeIds)
=============================================================================

----------------------------- MODULE MCReports -----------------------------
(* Reports on a small instance.  Titles, bodies, pages and node values are   *)
(* few numbers that meet each other and the identifiers, so that rows weigh  *)
(* the same and walks go on.                                                 *)
EXTENDS Reports

\* Titles, bodies and pages are their sizes.
MCSizeOf(text) == text

MCLinkTables == { <<1>>, <<2, 1>> }

MCVectorPlans == { <<2, 2, 1>>, <<2, 3, 1>> }

MCLabels == { <<1, 1>>, <<3, 3>> }

MCWalks == { <<0, 2>>, <<1, 3>> }

MCDigestKinds == { <<"doc", 1>>, <<"page", 1>>, <<"links", 0>>, <<"nodes", 0>>,
                   <<"events", 0>>, <<"mystery", 0>> }
=============================================================================

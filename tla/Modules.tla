------------------------------ MODULE Modules -------------------------------
(***************************************************************************)
(* What the parts outside CACHE and the core promise together: those that  *)
(* choose what to replace, and those that bring the program in.            *)
(***************************************************************************)
EXTENDS LRUBlocks, RRIPPolicies, IPStride, TraceReader, CVPConverter

\* Whoever keeps times of use or re-reference values replaces what was used longest
\* ago: lru's victim is the way filled or read first (lru.cc:10-36), srrip, drrip and
\* ship spare the lines hit since the last aging (srrip.cc:34-44), and the blocks of
\* an lru_table are the list of its entries by use (lru_table.h:114-166).
VictimsAreOldest == VictimIsLeastRecent /\ RecentlyHitSurvives /\ BlocksAreEntries

\* The program reaches the core as it ran: instructions in their order with the
\* targets of taken branches (tracereader.h:102-139), and those of a converted trace
\* with their kind of branch (cvp2champsim.cc:421) and data apart from code (:321).
TracesKeepTheProgram == TraceInOrder /\ BranchesAreRecognized /\ DataStaysApart
=============================================================================

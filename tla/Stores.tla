------------------------------- MODULE Stores -------------------------------
(***************************************************************************)
(* What the kernel gives out and has to get back, for TLC: pages, by the   *)
(* list of kalloc.c (KallocBestFit) or the tree of kalloc_bestfit.c        *)
(* (KallocBST); buffers of disk blocks (Bio); and the space of the log     *)
(* (Log).  They share no state; a behaviour is one of one of them, as      *)
(* store says.                                                             *)
(***************************************************************************)
EXTENDS KallocBestFit, Bio, Log

CONSTANTS TreePages, TreeLow, POOL

ASSUME BSTAssumption ==
  TreePages \in Nat \ {0} /\ TreeLow \in 0 .. TreePages /\ POOL \in Nat \ {0}

VARIABLES store, t, next_node_idx, total_free, num_blocks, treeTodo, treeUsed

treeVars == <<t, next_node_idx, total_free, num_blocks, treeTodo, treeUsed>>

T == INSTANCE KallocBST WITH
       NPAGE <- TreePages, NLOW <- TreeLow, todo <- treeTodo, used <- treeUsed

\* What is on the disk matters to the store that is looked at.
StoresInit == /\ Init /\ T!Init /\ BioInit /\ LogInit
              /\ store \in {"list", "tree", "buffers", "log"}
              /\ store # "buffers" => \A b \in Sector : disk[b] = Zero
              /\ store # "log" => \A b \in Block : home[b] = CHOOSE w \in Val : TRUE

StoresNext ==
  /\ \/ store = "list" /\ Next /\ UNCHANGED <<treeVars, bioVars, logVars>>
     \/ store = "tree" /\ T!Next /\ UNCHANGED <<vars, bioVars, logVars>>
     \/ store = "buffers" /\ BioNext /\ UNCHANGED <<vars, treeVars, logVars>>
     \/ store = "log" /\ LogNext /\ UNCHANGED <<vars, treeVars, bioVars>>
  /\ UNCHANGED store

StoresSpec == StoresInit /\ [][StoresNext]_<<vars, treeVars, bioVars, logVars, store>>

-----------------------------------------------------------------------------
\* The tree of kalloc_bestfit.c holds exactly the pages nobody has, each once,
\* linked so that every search ends, and bst_find_best_fit() still finds the
\* smallest block when splits in place have broken the order of the tree.
TreeServesBest == T!TreeExact /\ T!BestIsSmallest
=============================================================================

-------------------------- MODULE MCDiscussionGraph --------------------------
(* DiscussionGraph on small instances.                                     *)
EXTENDS DiscussionGraph

\* Slots of the same pool are interchangeable.
SlotSymmetry ==
    Permutations(Thread) \cup Permutations(Tag) \cup Permutations(Category)

\* Every command but the merging of tags on three categories; the merging of
\* tags on three tags and a single category; totals under deletions, and on trees
\* that only grow: with messages on a chain of categories, without on all trees of
\* three (with siblings the total message counts need not be bounded, nor with
\* deletions from such a tree the reference counts).
MCPolicies ==
    {[commands |-> {"mergeThreads", "changeParent", "deleteCategory"},
      tags |-> 2, categories |-> 3, messages |-> 1],
     [commands |-> {"mergeThreads", "mergeTags", "deleteCategory"},
      tags |-> 3, categories |-> 1, messages |-> 2],
     [commands |-> {"mergeThreads", "deleteCategory"},
      tags |-> 2, categories |-> 2, messages |-> 0],
     [commands |-> {}, tags |-> 2, categories |-> 2, messages |-> 2],
     [commands |-> {}, tags |-> 2, categories |-> 3, messages |-> 0]}

MCMergedTag ==
    {[commands |-> {"mergeTags"}, tags |-> 2, categories |-> 1, messages |-> 0]}

\* The totals only tell states apart under the policies that TotalsCounted and
\* TotalsKeepSubtree are about: no command reads them except to update them, so two states that
\* differ in nothing else have the same future but for the totals.
TotalsWhereChecked ==
    <<policy, threadVars, tagVars, treeVars, categoryTags,
      IF policy.commands \subseteq {"mergeThreads", "deleteCategory"} THEN listing
      ELSE [threads |-> listing.threads, of |-> listing.of,
            messages |-> listing.messages]>>
=============================================================================

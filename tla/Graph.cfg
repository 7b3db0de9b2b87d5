\* Three groups of commands; the totals are told apart where they are checked.
SPECIFICATION Spec
CONSTANTS
    Thread = {t1, t2}
    Tag = {g1, g2, g3}
    Category = {c1, c2, c3}
    NoCategory = none
    Policies <- MCPolicies
SYMMETRY SlotSymmetry
VIEW TotalsWhereChecked
INVARIANTS
    TagsAndThreadsAgree
    CategoriesAndThreadsAgree
    CategoryForest
    TagsAndCategoriesAgree
    CategoryListsTaggedThreads
    MessagesCounted
    TotalsCounted
    TotalsKeepSubtree

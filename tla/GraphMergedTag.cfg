\* DiscussionCategoryTests.cpp: deleting a tag detaches it from categories.
SPECIFICATION Spec
CONSTANTS
    Thread = {t1}
    Tag = {g1, g2}
    Category = {c1}
    NoCategory = none
    Policies <- MCMergedTag
SYMMETRY SlotSymmetry
INVARIANTS
    CategoriesHaveLiveTags

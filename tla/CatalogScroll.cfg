\* A list and a second one that overtakes its pages, one change of the catalogue; three pages at most.
SPECIFICATION FairSpec
CONSTANTS
    Products = 5
    PageSize = 2
    Sizes = {"S", "M"}
    None = None
    Catalogues <- MCCatalogues
    Queries <- MCQueries
    MaxLists = 2
    MaxChanges = 1
INVARIANTS
    TypeOK
    PagesJoinUp
    StockFirst
PROPERTY
    EndReached
CHECK_DEADLOCK FALSE

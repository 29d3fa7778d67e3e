SPECIFICATION Spec
CONSTANTS
    Chats <- MCChats
    Orders <- MCOrders
    MaxLoads <- MCMaxLoads
INVARIANTS
    TypeOK
    IndexMapExact
    Sorted
    RowsAreListed
PROPERTIES
    ImplementsView

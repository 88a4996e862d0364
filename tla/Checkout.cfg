\* two checkouts and two cancellations or jobs at a time
SPECIFICATION FairSpec
CONSTANTS
    NRequests = 2
    NUndos = 2
    Customers = {"al", "bo"}
    Cod = {"bo"}
    Cart <- MCCart
    ShopOf <- MCShopOf
    SlotOf <- MCSlotOf
    MaxOrders <- MCMaxOrders
    Written = {"CONFIRMED"}
    Entered = {"a2"}
    MaxStock = 1
    MaxUpdates = 1
INVARIANTS IInv StockConserved  
PROPERTY CallsAnswer
CHECK_DEADLOCK FALSE

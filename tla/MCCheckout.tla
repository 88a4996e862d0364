----------------------------- MODULE MCCheckout -----------------------------
(* Two customers with the same rows of two shops in opposite orders, the    *)
(* one pays online, the other on delivery.                                  *)
EXTENDS Checkout, TLC

MCCart == "al" :> <<"a1", "a2", "b1">> @@ "bo" :> <<"b1", "a2", "a1">>
MCShopOf == "a1" :> 1 @@ "a2" :> 1 @@ "b1" :> 2

MCSlotOf == "al" :> "al" @@ "bo" :> "bo"
MCMaxOrders == "al" :> 3 @@ "bo" :> 1

=============================================================================

---------------------------- MODULE DemoMessages ----------------------------
(***************************************************************************)
(* The messages and services of the shop as the frontend's protocol code   *)
(* knows them (src/frontend/protos/demo.ts).  The code repeats, for every  *)
(* message, the same seven functions (a blank message, encode, decode,     *)
(* fromJSON, toJSON, create and fromPartial), which differ only in the     *)
(* fields they treat, the number and the wire type each has on the wire,   *)
(* whether it repeats and what is inside it.  That table is here; what the *)
(* functions do with it is in MessageLayer.                                *)
(***************************************************************************)
EXTENDS Naturals, Sequences, TLC

(***************************************************************************)
(* A field: its number, the kind of value, the message inside it if it has *)
(* one, and whether it is an array.                                        *)
(***************************************************************************)
Field(no, kind, of) == [no |-> no, kind |-> kind, of |-> of, many |-> FALSE]
Str(no) == Field(no, "string", "")
Int32(no) == Field(no, "int32", "")
Int64(no) == Field(no, "int64", "")
Bool(no) == Field(no, "bool", "")
Msg(no, name) == Field(no, "message", name)
Many(field) == [field EXCEPT !.many = TRUE]
NoFields == [f \in {} |-> Str(0)]
-----------------------------------------------------------------------------
CartItem == [productId |-> Str(1), quantity |-> Int32(2)]
AddItemRequest == [userId |-> Str(1), item |-> Msg(2, "CartItem")]
EmptyCartRequest == [userId |-> Str(1)]
GetCartRequest == [userId |-> Str(1)]
Cart == [userId |-> Str(1), items |-> Many(Msg(2, "CartItem"))]
Empty == NoFields
ListRecommendationsRequest == [userId |-> Str(1), productIds |-> Many(Str(2))]
ListRecommendationsResponse == [productIds |-> Many(Str(1))]
Product == [id |-> Str(1), name |-> Str(2), description |-> Str(3),
            picture |-> Str(4), priceUsd |-> Msg(5, "Money"),
            categories |-> Many(Str(6))]
ListProductsResponse == [products |-> Many(Msg(1, "Product"))]
GetProductRequest == [id |-> Str(1)]
SearchProductsRequest == [query |-> Str(1)]
SearchProductsResponse == [results |-> Many(Msg(1, "Product"))]
GetQuoteRequest == [address |-> Msg(1, "Address"),
                    items |-> Many(Msg(2, "CartItem"))]
GetQuoteResponse == [costUsd |-> Msg(1, "Money")]
ShipOrderRequest == [address |-> Msg(1, "Address"),
                     items |-> Many(Msg(2, "CartItem"))]
ShipOrderResponse == [trackingId |-> Str(1)]
Address == [streetAddress |-> Str(1), city |-> Str(2), state |-> Str(3),
            country |-> Str(4), zipCode |-> Str(5)]
Money == [currencyCode |-> Str(1), units |-> Int64(2), nanos |-> Int32(3)]
GetSupportedCurrenciesResponse == [currencyCodes |-> Many(Str(1))]
CurrencyConversionRequest == [from |-> Msg(1, "Money"), toCode |-> Str(2)]
CreditCardInfo == [creditCardNumber |-> Str(1), creditCardCvv |-> Int32(2),
                   creditCardExpirationYear |-> Int32(3),
                   creditCardExpirationMonth |-> Int32(4)]
ChargeRequest == [amount |-> Msg(1, "Money"),
                  creditCard |-> Msg(2, "CreditCardInfo")]
ChargeResponse == [transactionId |-> Str(1)]
OrderItem == [item |-> Msg(1, "CartItem"), cost |-> Msg(2, "Money")]
OrderResult == [orderId |-> Str(1), shippingTrackingId |-> Str(2),
                shippingCost |-> Msg(3, "Money"),
                shippingAddress |-> Msg(4, "Address"),
                items |-> Many(Msg(5, "OrderItem"))]
SendOrderConfirmationRequest == [email |-> Str(1),
                                 order |-> Msg(2, "OrderResult")]
PlaceOrderRequest == [userId |-> Str(1), userCurrency |-> Str(2),
                      address |-> Msg(3, "Address"), email |-> Str(5),
                      creditCard |-> Msg(6, "CreditCardInfo")]
PlaceOrderResponse == [order |-> Msg(1, "OrderResult")]
AdRequest == [contextKeys |-> Many(Str(1))]
AdResponse == [ads |-> Many(Msg(1, "Ad"))]
Ad == [redirectUrl |-> Str(1), text |-> Str(2)]
Flag == [name |-> Str(1), description |-> Str(2), enabled |-> Bool(3)]
GetFlagRequest == [name |-> Str(1)]
GetFlagResponse == [flag |-> Msg(1, "Flag")]
CreateFlagRequest == [name |-> Str(1), description |-> Str(2),
                      enabled |-> Bool(3)]
CreateFlagResponse == [flag |-> Msg(1, "Flag")]
UpdateFlagRequest == [name |-> Str(1), enabled |-> Bool(2)]
UpdateFlagResponse == NoFields
ListFlagsRequest == NoFields
ListFlagsResponse == [flag |-> Many(Msg(1, "Flag"))]
DeleteFlagRequest == [name |-> Str(1)]
DeleteFlagResponse == NoFields

MessageTable == [CartItem |-> CartItem, AddItemRequest |-> AddItemRequest,
             EmptyCartRequest |-> EmptyCartRequest,
             GetCartRequest |-> GetCartRequest, Cart |-> Cart,
             Empty |-> Empty,
             ListRecommendationsRequest |-> ListRecommendationsRequest,
             ListRecommendationsResponse |-> ListRecommendationsResponse,
             Product |-> Product,
             ListProductsResponse |-> ListProductsResponse,
             GetProductRequest |-> GetProductRequest,
             SearchProductsRequest |-> SearchProductsRequest,
             SearchProductsResponse |-> SearchProductsResponse,
             GetQuoteRequest |-> GetQuoteRequest,
             GetQuoteResponse |-> GetQuoteResponse,
             ShipOrderRequest |-> ShipOrderRequest,
             ShipOrderResponse |-> ShipOrderResponse, Address |-> Address,
             Money |-> Money,
             GetSupportedCurrenciesResponse |-> GetSupportedCurrenciesResponse,
             CurrencyConversionRequest |-> CurrencyConversionRequest,
             CreditCardInfo |-> CreditCardInfo,
             ChargeRequest |-> ChargeRequest,
             ChargeResponse |-> ChargeResponse, OrderItem |-> OrderItem,
             OrderResult |-> OrderResult,
             SendOrderConfirmationRequest |-> SendOrderConfirmationRequest,
             PlaceOrderRequest |-> PlaceOrderRequest,
             PlaceOrderResponse |-> PlaceOrderResponse,
             AdRequest |-> AdRequest, AdResponse |-> AdResponse, Ad |-> Ad,
             Flag |-> Flag, GetFlagRequest |-> GetFlagRequest,
             GetFlagResponse |-> GetFlagResponse,
             CreateFlagRequest |-> CreateFlagRequest,
             CreateFlagResponse |-> CreateFlagResponse,
             UpdateFlagRequest |-> UpdateFlagRequest,
             UpdateFlagResponse |-> UpdateFlagResponse,
             ListFlagsRequest |-> ListFlagsRequest,
             ListFlagsResponse |-> ListFlagsResponse,
             DeleteFlagRequest |-> DeleteFlagRequest,
             DeleteFlagResponse |-> DeleteFlagResponse]
-----------------------------------------------------------------------------
(***************************************************************************)
(* A method of a service: one request message, one answer.                 *)
(***************************************************************************)
Unary(request, response) == [request |-> request, response |-> response]

CartService == [addItem |-> Unary("AddItemRequest", "Empty"),
                getCart |-> Unary("GetCartRequest", "Cart"),
                emptyCart |-> Unary("EmptyCartRequest", "Empty")]
RecommendationService == [listRecommendations |-> Unary("ListRecommendationsRequest",
                                                        "ListRecommendationsResponse")]
ProductCatalogService == [listProducts |-> Unary("Empty",
                                                 "ListProductsResponse"),
                          getProduct |-> Unary("GetProductRequest", "Product"),
                          searchProducts |-> Unary("SearchProductsRequest",
                                                   "SearchProductsResponse")]
ShippingService == [getQuote |-> Unary("GetQuoteRequest", "GetQuoteResponse"),
                    shipOrder |-> Unary("ShipOrderRequest",
                                        "ShipOrderResponse")]
CurrencyService == [getSupportedCurrencies |-> Unary("Empty",
                                                     "GetSupportedCurrenciesResponse"),
                    convert |-> Unary("CurrencyConversionRequest", "Money")]
PaymentService == [charge |-> Unary("ChargeRequest", "ChargeResponse")]
EmailService == [sendOrderConfirmation |-> Unary("SendOrderConfirmationRequest",
                                                 "Empty")]
CheckoutService == [placeOrder |-> Unary("PlaceOrderRequest",
                                         "PlaceOrderResponse")]
AdService == [getAds |-> Unary("AdRequest", "AdResponse")]
FeatureFlagService == [getFlag |-> Unary("GetFlagRequest", "GetFlagResponse"),
                       createFlag |-> Unary("CreateFlagRequest",
                                            "CreateFlagResponse"),
                       updateFlag |-> Unary("UpdateFlagRequest",
                                            "UpdateFlagResponse"),
                       listFlags |-> Unary("ListFlagsRequest",
                                           "ListFlagsResponse"),
                       deleteFlag |-> Unary("DeleteFlagRequest",
                                            "DeleteFlagResponse")]

MethodTable ==
  CartService @@ RecommendationService @@ ProductCatalogService @@
  ShippingService @@ CurrencyService @@ PaymentService @@ EmailService @@
  CheckoutService @@ AdService @@ FeatureFlagService
=============================================================================

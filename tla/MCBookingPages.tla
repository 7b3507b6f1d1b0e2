--------------------------- MODULE MCBookingPages ---------------------------
EXTENDS BookingPages, TLC

CONSTANTS s1, s2, d1, d2
OneDay == s1 :> d1
TwoDays == s1 :> d1 @@ s2 :> d2
LinksFew == {<<"book", "vendor">>, <<"callback", "bookings">>}
LinksMore == LinksFew \cup {<<"vendor", "book">>, <<"payment", "vendor">>}
=============================================================================

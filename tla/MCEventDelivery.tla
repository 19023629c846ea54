--------------------------- MODULE MCEventDelivery ---------------------------
EXTENDS EventDelivery

\* The change of a review, which both handlers ask for, the change of a hotel, which
\* one of them asks for, and a row that cannot be read.
Review == CHOOSE e \in Events \ Poison : TRUE
MCTypeOf == [e \in Events |-> IF e = Review THEN "ReviewCreated"
                              ELSE IF e \in Poison THEN "ReviewDeleted" ELSE "HotelUpdated"]
MCHandlers == {"analytics", "cache"}
MCSubscribed == [t \in Types |-> IF t = "HotelUpdated" THEN <<"cache">>
                                 ELSE <<"analytics", "cache">>]
==============================================================================

--------------------------- MODULE MCVSControllers ---------------------------
EXTENDS VSControllers

\* Services are 11 and 12, copied Services 21 and 22: numbers, so that a
\* VSConfig name (1, 2) used as a Service name is a wrong value, not an error
Spec1(h, v, t) == [host |-> h, headerName |-> "x", headerValue |-> v, service |-> t]

\* one VSConfig routing header x: v of Service 11 to 21
MCInitConfigs == 1 :> Spec1(11, "v", 21)

\* the user moves VSConfig 1 to Service 12, or adds a second VSConfig for 11, with
\* or without a header value
MCConfigVersions ==
    { <<1, Spec1(12, "v", 21)>>,
      <<2, Spec1(11, "v", 22)>>,
      <<2, Spec1(11, "", 22)>> }

=============================================================================

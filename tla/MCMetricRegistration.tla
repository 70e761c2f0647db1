------------------------ MODULE MCMetricRegistration ------------------------
(***************************************************************************)
(* MetricRegistration for TLC: two labels in either order.                 *)
(***************************************************************************)
EXTENDS MetricRegistration

Orders == {<<"code", "zone">>, <<"zone", "code">>}

=============================================================================

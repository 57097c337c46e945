------------------------- MODULE MC_IoTHubClientLL -------------------------
(* Model-checking instance of IoTHubClientLL: option values that keep      *)
(* now + timeout below 2^Width, so no expiry wraps.                         *)
EXTENDS IoTHubClientLL

MCTimeouts == {0, 1}

\* The largest value a Width-bit "messageTimeout" can hold, as an
\* application passes UINT64_MAX to mean "never".
MCWideTimeouts == {0, 2^Width - 1}
=============================================================================

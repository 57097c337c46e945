-------------------- MODULE MC_IoTHubClientLLReentrant --------------------
EXTENDS IoTHubClientLLReentrant

MCTimeouts == {0, 1}
=============================================================================

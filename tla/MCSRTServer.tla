----------------------------- MODULE MCSRTServer -----------------------------
EXTENDS SRTServer
=============================================================================

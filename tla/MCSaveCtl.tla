----------------------------- MODULE MCSaveCtl -----------------------------
EXTENDS SaveCtl
=============================================================================

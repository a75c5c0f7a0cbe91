----------------------------- MODULE MCSessions -----------------------------
EXTENDS Sessions

=============================================================================

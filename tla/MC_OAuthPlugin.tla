--------------------------- MODULE MC_OAuthPlugin ---------------------------
EXTENDS OAuthPlugin

CONSTANTS p1, p2

\* Two proxy settings, so that a request can find another request's proxy.
MCProxies == {p1, p2}
=============================================================================

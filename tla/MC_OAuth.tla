------------------------------ MODULE MC_OAuth ------------------------------
EXTENDS OAuthSignature

\* "get" and "POST" as bytes: one verb to upper-case, one already upper.
MCMethods == {<<103, 101, 116>>, <<80, 79, 83, 84>>}
\* "h" and "h?a": a URL without and with a query.
MCUrls == {<<104>>, <<104, 63, 97>>}
\* "", "a", "&" and "=": the empty string, an unreserved byte and the two
\* separators of the parameter string.
MCRawStrings == {<<>>, <<97>>, <<38>>, <<61>>}
=============================================================================

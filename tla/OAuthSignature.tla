--------------------------- MODULE OAuthSignature ---------------------------
(***************************************************************************)
(* The OAuth 1.0 signature base string of the OAuth plugin                *)
(* (src/src/plugins/oauth/oauth-util.c).  The functions there are pure:   *)
(* strings are sequences of byte values, and each C function is an        *)
(* operator.  g_array_sort (libc qsort) is not stable, so the sort is     *)
(* modelled as the SET of orders that paramCompare accepts, and           *)
(* createSignatureBaseString yields a set of strings: {} for NULL, and    *)
(* more than one element if the result depends on how qsort breaks ties. *)
(*                                                                         *)
(* The state machine only picks one input (method, URL, header fields,    *)
(* request parameters) from bounded sets; the invariants compare the      *)
(* result with the reading of it that a verifying server makes.           *)
(***************************************************************************)
EXTENDS Naturals, Sequences, FiniteSets, SequencesExt

CONSTANTS
    Methods,      \* HTTP verbs given to createSignatureBaseString
    Urls,         \* request URLs
    RawStrings,   \* unencoded parameter names and values
    MaxParams,    \* bound on the number of request parameters
    MaxHeaders    \* bound on the number of OAuth header fields

VARIABLES method, url, headers, params
vars == <<method, url, headers, params>>

\* Byte values that the code tests for.
PERCENT == 37
AMP     == 38
EQ      == 61
QMARK   == 63

\* UNRESERVED_BYTES: ALPHA DIGIT "-._~" (oauth-util.c:38-40).
UNRESERVED_BYTES == (65..90) \cup (97..122) \cup (48..57) \cup {45, 46, 95, 126}

\* g_uri_escape_string writes upper-case hex digits.
HexDigit(n) == IF n < 10 THEN 48 + n ELSE 55 + n
HexValue(d) == IF d <= 57 THEN d - 48 ELSE IF d <= 70 THEN d - 55 ELSE d - 87

\* encodeParam: g_uri_escape_string(input, UNRESERVED_BYTES, FALSE).
EscapeByteKeepingSeparators(c) ==
    IF c \in UNRESERVED_BYTES \cup {AMP, EQ} THEN <<c>>
    ELSE <<PERCENT, HexDigit(c \div 16), HexDigit(c % 16)>>
EscapeByte(c) ==
    IF c \in UNRESERVED_BYTES THEN <<c>>
    ELSE <<PERCENT, HexDigit(c \div 16), HexDigit(c % 16)>>
encodeParam(s) == FlattenSeq([i \in 1..Len(s) |-> EscapeByte(s[i])])

\* decodeParam: g_uri_unescape_string(input, NULL).
RECURSIVE decodeParam(_)
decodeParam(s) ==
    IF s = <<>> THEN <<>>
    ELSE IF Head(s) = PERCENT /\ Len(s) >= 3
         THEN <<16 * HexValue(s[2]) + HexValue(s[3])>> \o decodeParam(SubSeq(s, 4, Len(s)))
         ELSE <<Head(s)>> \o decodeParam(Tail(s))

\* normalizeUrl is not implemented: it returns g_strdup(url).
normalizeUrl(u) == u

\* getQuery returns non-NULL exactly when the URL contains a '?'.
HasQuery(u) == \E i \in 1..Len(u) : u[i] = QMARK

\* g_ascii_strup.
AsciiUp(s) == [i \in 1..Len(s) |-> IF s[i] \in 97..122 THEN s[i] - 32 ELSE s[i]]

\* strcmp on NUL-terminated strings: the sign of the first differing
\* byte, and a proper prefix compares lower.
RECURSIVE strcmp(_, _)
strcmp(a, b) ==
    CASE a = <<>> /\ b = <<>> -> 0
      [] a = <<>>             -> -1
      [] b = <<>>             -> 1
      [] Head(a) < Head(b)    -> -1
      [] Head(a) > Head(b)    -> 1
      [] OTHER                -> strcmp(Tail(a), Tail(b))

\* paramCompare: first by name, then by value.
ParamCompareByName(a, b) == strcmp(a.param, b.param)
paramCompare(a, b) ==
    LET ret == strcmp(a.param, b.param)
    IN  IF ret # 0 THEN ret ELSE strcmp(a.value, b.value)

\* The request parameters are parameter-encoded, the header fields are
\* copied as they are (the caller must have encoded them), in that order.
RequestParametersUnencoded(hs, ps) == ps \o hs
RequestParameters(hs, ps) ==
    [i \in 1..Len(ps) |-> [param |-> encodeParam(ps[i].param),
                           value |-> encodeParam(ps[i].value)]] \o hs

\* g_array_sort(requestParameters, paramCompare): qsort may leave elements
\* that compare equal in any order.
Arrangements(s) == {[i \in 1..Len(s) |-> s[p[i]]] : p \in Permutations(1..Len(s))}
SortedByParamCompare(s) ==
    {t \in Arrangements(s) :
        \A i \in 1..Len(t) - 1 : paramCompare(t[i], t[i + 1]) <= 0}

\* The loop that joins the sorted parameters: the first as name=value,
\* each further one appended after '&'.  No parameter leaves paramString
\* NULL, which g_strconcat treats as the end of its argument list, so the
\* result then ends with the second '&' just as with an empty string.
Pair(p) == p.param \o <<EQ>> \o p.value
RECURSIVE ParamString(_)
ParamString(s) ==
    IF s = <<>> THEN <<>>
    ELSE IF Len(s) = 1 THEN Pair(s[1])
    ELSE ParamString(Front(s)) \o <<AMP>> \o Pair(Last(s))

\* createSignatureBaseString: NULL ({}) if the URL has a query, else
\* METHOD&enc(url)&enc(paramString) for every order qsort may produce.
createSignatureBaseString(m, u, hs, ps) ==
    IF HasQuery(u) THEN {}
    ELSE {AsciiUp(m) \o <<AMP>> \o encodeParam(normalizeUrl(u)) \o <<AMP>>
            \o encodeParam(ParamString(t))
            : t \in SortedByParamCompare(RequestParameters(hs, ps))}

-----------------------------------------------------------------------------
(* The inputs the plugin may pass: header fields already encoded.         *)
RawPairs     == [param : RawStrings, value : RawStrings]
EncodedPairs == {[param |-> encodeParam(p.param), value |-> encodeParam(p.value)] : p \in RawPairs}
ParamSeqs    == UNION {[1..n -> RawPairs] : n \in 0..MaxParams}
HeaderSeqs   == UNION {[1..n -> EncodedPairs] : n \in 0..MaxHeaders}

Init ==
    /\ method \in Methods
    /\ url \in Urls
    /\ headers \in HeaderSeqs
    /\ params \in ParamSeqs

Next == UNCHANGED vars

Spec == Init /\ [][Next]_vars

-----------------------------------------------------------------------------
(* The reading a verifying server makes (RFC 5849, 3.4.1): split on '&',  *)
(* decode, split the parameter string on '&' and each pair on '='.        *)
RECURSIVE SplitOn(_, _)
SplitOn(s, sep) ==
    IF \A i \in 1..Len(s) : s[i] # sep THEN <<s>>
    ELSE LET k == SelectInSeq(s, LAMBDA c : c = sep)
         IN  <<SubSeq(s, 1, k - 1)>> \o SplitOn(SubSeq(s, k + 1, Len(s)), sep)

ReadPair(s) ==
    LET f == SplitOn(s, EQ)
    IN  IF Len(f) = 2 THEN [param |-> decodeParam(f[1]), value |-> decodeParam(f[2])]
        ELSE [bad |-> s]

ReadBaseString(b) ==
    LET parts == SplitOn(b, AMP)
        ps    == decodeParam(parts[3])
        pairs == IF ps = <<>> THEN <<>> ELSE SplitOn(ps, AMP)
    IN  IF Len(parts) # 3 THEN [bad |-> b]
        ELSE [method |-> parts[1], url |-> decodeParam(parts[2]),
              params |-> ToBag([i \in 1..Len(pairs) |-> ReadPair(pairs[i])])]

\* What the request means: every parameter and header field, unencoded.
Meaning(hs, ps) ==
    ToBag(ps \o [i \in 1..Len(hs) |-> [param |-> decodeParam(hs[i].param),
                                       value |-> decodeParam(hs[i].value)]])

-----------------------------------------------------------------------------
\* Type invariant.  The inputs stay in their sets, and a base string built
\* by createSignatureBaseString holds only unreserved bytes, '%' from
\* encodeParam and the two '&' separators: no raw '=' or '&' of a value.
TypeOK ==
    /\ method \in Methods
    /\ url \in Urls
    /\ headers \in HeaderSeqs
    /\ params \in ParamSeqs
    /\ \A b \in createSignatureBaseString(method, url, headers, params) :
          b \in Seq(UNRESERVED_BYTES \cup {PERCENT, AMP})

\* The signature base string does not depend on how qsort orders the
\* parameters that paramCompare cannot tell apart: client and server
\* sign the same string whatever order the parameters were given in.
BaseStringDeterministic ==
    Cardinality(createSignatureBaseString(method, url, headers, params))
        = IF HasQuery(url) THEN 0 ELSE 1

\* The base string is read back as the method, the URL and exactly the
\* multiset of parameters that were signed: a '&' or '=' inside a name or
\* value cannot make two different requests share one signature.
BaseStringReadsBack ==
    \A b \in createSignatureBaseString(method, url, headers, params) :
        ReadBaseString(b) = [method |-> AsciiUp(method), url |-> url,
                             params |-> Meaning(headers, params)]
=============================================================================

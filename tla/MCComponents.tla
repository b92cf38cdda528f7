---------------------------- MODULE MCComponents ----------------------------
EXTENDS Components
CONSTANTS p1, p2, p3, r1, r2
MCPathSeq == <<p1, p2, p3>>
MCPriority == [p \in {p1, p2, p3} |-> IF p = p3 THEN 1 ELSE 0]
MCPreference == [r \in {r1, r2} |-> IF r = r1 THEN 1 ELSE 0]
\* Enough for files that every command accepts, with two paths, for wrong values
\* of server alone and of resume, and for names that are given twice.
MCFileLines ==
  {Header("server"), Header("resume"), PathHeader("paths"),
   Pair("schema_version", Value("int", "positive")), Pair("name", Value("string", "text")),
   Pair("name", Value("string", "other")),
   Pair("listen", Value("string", "text")), Pair("connect", Value("string", "text")),
   Pair("http_path", Value("string", "text")), Pair("timeout", Value("string", "zero")),
   Pair("endpoint", Value("string", "ws url")), Pair("enabled", Value("bool", "false"))}
=============================================================================

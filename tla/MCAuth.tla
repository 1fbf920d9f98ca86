------------------------------- MODULE MCAuth -------------------------------
(***************************************************************************)
(* Auth for TLC: one access key with two secrets, one API token, one       *)
(* issuer with two keys of which one may come and go.                      *)
(***************************************************************************)
EXTENDS Auth

CONSTANTS ak1, tok1, sec1, sec2, kid1, kid2

Issuer1 == [preset |-> "generic", given |-> {"issuer", "jwks_url", "principal_format"},
            audience |-> TRUE, format |-> TRUE, https |-> TRUE]

\* One scheme at a time: the three verifiers share no state.
Sigv4Only == [keys |-> {"env"}, loads |-> TRUE, sigv4 |-> TRUE,
              api_token |-> FALSE, accept_test_tokens |-> FALSE,
              permissive |-> FALSE, issuers |-> {}, loopback |-> FALSE,
              sentinel |-> FALSE]
JwtOnly == [Sigv4Only EXCEPT !.keys = {}, !.sigv4 = FALSE, !.issuers = {Issuer1}]

\* A developer's set-up: permissive beside API tokens that include test ones.
Dev == [Sigv4Only EXCEPT !.sigv4 = FALSE, !.api_token = TRUE,
                         !.accept_test_tokens = TRUE,
                         !.permissive = TRUE, !.sentinel = TRUE]

\* Set-ups that never start: two key sources, a parameter left out, an issuer
\* over http, permissive alone on a public address.
Refused ==
  {[Sigv4Only EXCEPT !.keys = {"env", "file"}],
   [JwtOnly EXCEPT !.issuers = {[Issuer1 EXCEPT !.given = {"issuer", "jwks_url"}]}],
   [JwtOnly EXCEPT !.issuers = {[Issuer1 EXCEPT !.https = FALSE]}],
   [Dev EXCEPT !.api_token = FALSE]}

MCConfigs == {Sigv4Only, JwtOnly, Dev} \cup Refused

MCRequests ==
  {[route |-> "sigv4", id |-> ak1, secret |-> sec1, fit |-> "ok"],
   [route |-> "sigv4", id |-> ak1, secret |-> sec1, fit |-> "bad"],
   [route |-> "opaque", id |-> tok1, secret |-> NoOne, fit |-> "test"],
   [route |-> "jwt", id |-> kid1, secret |-> NoOne, fit |-> "ok"],
   [route |-> "jwt", id |-> kid2, secret |-> NoOne, fit |-> "late"],
   [route |-> "missing", id |-> NoOne, secret |-> NoOne, fit |-> "ok"],
   [route |-> "unknown", id |-> NoOne, secret |-> NoOne, fit |-> "ok"]}
=============================================================================

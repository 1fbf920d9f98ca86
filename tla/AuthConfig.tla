----------------------------- MODULE AuthConfig -----------------------------
(***************************************************************************)
(* The [auth] block of the configuration file: what the loader of          *)
(* rekt-config accepts, what the wiring of the rektifier binary then        *)
(* builds from it, and where the wiring relies on the loader.  A            *)
(* configuration is a record of what the operator wrote; wording and        *)
(* parameter values are abstracted to whether they are given.              *)
(***************************************************************************)
EXTENDS Integers, FiniteSets

\* Where the operator can say the master key comes from.
MasterKey == {"env", "file", "kms"}

Preset == {"gcp", "azure", "snowflake", "databricks", "neon", "aws-cognito",
           "generic"}

\* The per-preset parameters of an issuer entry.
Field == {"tenant_id", "account", "workspace_url", "project_id", "region",
          "user_pool_id", "issuer", "jwks_url", "principal_format"}

\* An issuer entry: `given` holds the parameters present, `format` says
\* whether principal_format, when given, is one of the recognised forms.
Issuer == [preset : Preset \cup {"other"}, given : SUBSET Field,
           audience : BOOLEAN, format : BOOLEAN, https : BOOLEAN]

\* The resolved block; `loads` says whether the named key source holds a key,
\* `loopback` and `sentinel` are the listen address and the environment.
Config == [keys : SUBSET MasterKey, loads : BOOLEAN,
           sigv4 : BOOLEAN, api_token : BOOLEAN, accept_test_tokens : BOOLEAN,
           permissive : BOOLEAN, issuers : SUBSET Issuer,
           loopback : BOOLEAN, sentinel : BOOLEAN]

\* The parameters each preset must come with.
Required(preset) ==
  CASE preset = "azure"       -> {"tenant_id"}
    [] preset = "snowflake"   -> {"account"}
    [] preset = "databricks"  -> {"workspace_url"}
    [] preset = "neon"        -> {"project_id", "region"}
    [] preset = "aws-cognito" -> {"user_pool_id", "region"}
    [] preset = "generic"     -> {"issuer", "jwks_url", "principal_format"}
    [] OTHER                  -> {}

resolve_principal_format(i) == "principal_format" \in i.given => i.format

\* Mutant: the loader leaves the presets' parameters unchecked.
resolve_jwt_issuer_lenient(i) ==
  /\ i.preset \in Preset
  /\ i.audience
  /\ resolve_principal_format(i)

resolve_jwt_issuer(i) ==
  /\ i.preset \in Preset
  /\ i.audience
  /\ Required(i.preset) \subseteq i.given
  /\ resolve_principal_format(i)

resolve_auth(c) ==
  /\ Cardinality(c.keys) <= 1
  /\ \A i \in c.issuers : resolve_jwt_issuer(i)
  /\ c.sigv4 \/ c.api_token => c.keys # {}

-----------------------------------------------------------------------------
(* The wiring.                                                             *)

\* The parameters inflate_issuer unwraps with expect(): absent, it panics.
Unwrapped(preset) ==
  CASE preset = "azure"       -> {"tenant_id"}
    [] preset = "snowflake"   -> {"account"}
    [] preset = "databricks"  -> {"workspace_url"}
    [] preset = "neon"        -> {"project_id", "region"}
    [] preset = "aws-cognito" -> {"user_pool_id", "region"}
    [] preset = "generic"     -> {"issuer", "jwks_url", "principal_format"}
    [] OTHER                  -> {}

inflate_panics(c) == \E i \in c.issuers : ~ (Unwrapped(i.preset) \subseteq i.given)

\* The issuer configurations of the presets: their key-set URL is https, but
\* for the two whose address the operator writes.  All allow RS256 only.
UrlIsHttps(i) == i.preset \in {"generic", "databricks"} => i.https

\* JwtIssuerConfig::validate; inflate_issuer copies the audience.
validate(i) == UrlIsHttps(i) /\ i.audience

any_strict_enabled(c) == c.sigv4 \/ c.api_token \/ c.issuers # {}

enforce_dev_mode_guardrails(c) ==
  /\ c.permissive /\ ~ any_strict_enabled(c) => c.loopback
  /\ c.permissive => c.sentinel

\* A named source is loaded whether or not a verifier needs the key.
resolve_master_key(c) == c.keys # {} => "kms" \notin c.keys /\ c.loads

\* The verifiers build_auth registers.
Registered(c) ==
  {v \in {"sigv4", "api_token", "permissive"} : c[v]}
    \cup (IF c.issuers # {} THEN {"jwt"} ELSE {})

\* Everything build_auth demands before it asks PostgreSQL or an issuer.
build_auth(c) ==
  /\ enforce_dev_mode_guardrails(c)
  /\ resolve_master_key(c)
  /\ \A i \in c.issuers : validate(i)
  /\ Registered(c) # {}
=============================================================================

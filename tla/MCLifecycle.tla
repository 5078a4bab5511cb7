---------------------------- MODULE MCLifecycle ----------------------------
(* Lifecycle on a small instance.  The unit of time is 5 s, so the defaults *)
(* of the configuration are 2, 1, 3 and 3.  The run checks liveness, so it  *)
(* uses no symmetry.                                                        *)
EXTENDS Lifecycle, TLC

DefaultOutbound == 2
DefaultInternal == 1
DefaultWrite    == 3
DefaultShutdown == 3

\* The environment of deploy/k8s: a secret for each key without a default.
Deployed == <<"INTERNAL_", "api_key">> :> "key" @@
            <<"PROVIDERS_GITHUB_", "client_id">> :> "id" @@
            <<"PROVIDERS_GITHUB_", "client_secret">> :> "secret"

Variable(v, value) == (v :> value) @@ Deployed
File(k, value)     == (k :> value)

Host(first, second, env) == [files |-> <<first, second>>, env |-> env]
Bare(env)                == Host(Absent, Absent, env)

\* Each of these hosts starts: what differs is where a setting comes from.
Starting ==
  {Bare(Deployed),
   Bare(Variable(<<"CACHE_", "driver">>, "")),
   Host(File(InternalURL, "first"), File(InternalURL, "second"), Deployed),
   Host(File(APIKey, "in file"), Broken, Variable(<<"SERVER_", "base_url">>, "env")),
   Host(File(APIKey, "in file") @@ File(ClientSecret, "in file"), Absent,
        <<"PROVIDERS_GITHUB_", "client_id">> :> "id"),
   Host(Absent, File(BaseURL, "second"), Variable(<<"SERVICE_", "base_url">>, "env")),
   Host(File(CookieSecure, "true"), Absent, Variable(<<"AUTH_", "cookie_secure">>, "")),
   Host(File(Driver, "redis"), Absent, Variable(<<"CACHE_", "driver">>, "memory"))}

\* Each of these fails, in Load or in Provide.
Failing ==
  {Bare(<<>>),
   Host(Broken, File(BaseURL, "second"), Deployed),
   Host(Absent, Broken, Deployed),
   Bare(Variable(<<"SERVER_", "base_url">>, "")),
   Host(File(ClientSecret, "in file"), Absent,
        Variable(<<"PROVIDERS_GITHUB_", "client_secret">>, "")),
   Host(File(WriteLimit, "soon"), Absent, Deployed),
   Bare(Variable(<<"SERVER_", "write_timeout">>, "")),
   Host(File(CookieSecure, "true"), Absent, Variable(<<"AUTH_", "cookie_secure">>, "yes")),
   Bare(Variable(<<"INTERNAL_", "base_url">>, "")),
   Host(File(InternalURL, ":"), Absent, Deployed),
   Bare(Variable(<<"CACHE_", "driver">>, "redis"))}

AllHosts == Starting \cup Failing

AllStrings ==
  {"", "memory", "redis", "15s", "soon", "true", "false", "yes", "http://localhost:8080",
   "http://internal-service:8081", ":", "key", "id", "secret", "env", "in file",
   "first", "second"}

Unparsable == {"", "soon"}
Undecodable == {"yes"}
Unaddressable == {":"}
=============================================================================

------------------------------- MODULE Config -------------------------------
(***************************************************************************)
(* config.Load, as a function of the host it runs on: defaults, then the   *)
(* first YAML file there is, then the environment; decoded and validated.  *)
(* And what the constructors that Provide calls demand of the result.      *)
(*                                                                         *)
(* A layer is a partial function from keys to Strings.  A key is a section *)
(* and a name; a variable of the environment is an OAUTH_MS_ section       *)
(* prefix and a name (its upper case is left out).  The keys are those     *)
(* that can stop the process from starting, with one duration for all.  A  *)
(* value is a string, as in a variable; a bool is the string that says it. *)
(***************************************************************************)
EXTENDS Naturals, Sequences

CONSTANTS Strings,       \* the values a setting can have
          Absent,        \* a file that does not exist
          Broken,        \* a file that cannot be read or is not YAML
          NoSettings,    \* the result of a Load that fails
          BadDurations,  \* what time.ParseDuration rejects
          BadBools,      \* what cannot be decoded as a bool
          BadURLs        \* what url.Parse rejects

BaseURL      == <<"server", "base_url">>
WriteLimit   == <<"server", "write_timeout">>
Driver       == <<"cache", "driver">>
CookieSecure == <<"auth", "cookie_secure">>
InternalURL  == <<"internal", "base_url">>
APIKey       == <<"internal", "api_key">>
ClientID     == <<"providers.github", "client_id">>
ClientSecret == <<"providers.github", "client_secret">>

DurationKeys == {WriteLimit}
Keys      == {BaseURL, Driver, CookieSecure, InternalURL, APIKey, ClientID, ClientSecret}
               \cup DurationKeys

EnvSections ==
  [PROVIDERS_GITHUB_ |-> "providers.github", SERVER_ |-> "server", CACHE_ |-> "cache",
   AUTH_ |-> "auth", INTERNAL_ |-> "internal", LOGGING_ |-> "logging"]

ASSUME DurationsOK == "" \in BadDurations

\* An empty string is decoded as false.
ASSUME BoolsOK == {"", "false"} \cap BadBools = {}

\* A host is its YAML files, in the order they are looked for, and its
\* environment.
IsLayer(f) == \A k \in DOMAIN f : f[k] \in Strings
IsHost(h)  ==
  /\ \A i \in DOMAIN h.files :
       i \in Nat /\ (h.files[i] \in {Absent, Broken} \/ IsLayer(h.files[i]))
  /\ IsLayer(h.env) /\ \A v \in DOMAIN h.env : v = <<v[1], v[2]>>

-----------------------------------------------------------------------------
(* Load                                                                    *)

\* The keys without a default are the secrets and the client id.
Defaults ==
  [k \in Keys \ {APIKey, ClientID, ClientSecret} |->
     CASE k = Driver           -> "memory"
       [] k = CookieSecure     -> "false"
       [] k \in DurationKeys   -> "15s"
       [] k = BaseURL          -> "http://localhost:8080"
       [] k = InternalURL      -> "http://internal-service:8081"]

ASSUME StringsOK ==
  {"", "memory", "false", "15s", "http://localhost:8080", "http://internal-service:8081"}
    \subseteq Strings

\* Mutant: a layer is loaded below those that are there.
LowerWins(lo, hi) ==
  [k \in DOMAIN lo \cup DOMAIN hi |-> IF k \in DOMAIN lo THEN lo[k] ELSE hi[k]]

\* koanf's Load of one more layer.
Merge(lo, hi) ==
  [k \in DOMAIN lo \cup DOMAIN hi |-> IF k \in DOMAIN hi THEN hi[k] ELSE lo[k]]

\* The first file that exists, and no other.
Read(files) ==
  {i \in DOMAIN files : /\ files[i] # Absent
                        /\ \A j \in DOMAIN files : j < i => files[j] = Absent}

FirstFile(files) ==
  IF Read(files) = {} THEN <<>> ELSE files[CHOOSE i \in Read(files) : TRUE]

\* A variable of an unknown section is dropped.
Recognised(env)  == {v \in DOMAIN env : v[1] \in DOMAIN EnvSections}
EnvTransform(v)  == <<EnvSections[v[1]], v[2]>>

EnvLayer(env) ==
  [k \in {EnvTransform(v) : v \in Recognised(env)} |->
     env[CHOOSE v \in Recognised(env) : EnvTransform(v) = k]]

Decodes(layer) ==
  /\ \A k \in DurationKeys \cap DOMAIN layer : layer[k] \notin BadDurations
  /\ CookieSecure \in DOMAIN layer => layer[CookieSecure] \notin BadBools

\* A string field of the Config that no layer sets is empty.
Unmarshal(layer) == [k \in Keys |-> IF k \in DOMAIN layer THEN layer[k] ELSE ""]

\* Mutant: only the URL is validated.
ValidateURL(s) == s[BaseURL] # ""

Validate(s) == \A k \in {BaseURL, APIKey, ClientID, ClientSecret} : s[k] # ""

LoadConfig(host) ==
  LET file   == FirstFile(host.files)
      merged == Merge(Merge(Defaults, file), EnvLayer(host.env))
  IN IF file # Broken /\ Decodes(merged) /\ Validate(Unmarshal(merged))
     THEN Unmarshal(merged)
     ELSE NoSettings

-----------------------------------------------------------------------------
(* The constructors                                                        *)

\* Mutant: a driver that is not implemented falls back to memory.
AnyDriver(s) == TRUE

CacheBuilds(s)  == s[Driver] \in {"memory", ""}
ClientBuilds(s) == s[InternalURL] \notin BadURLs \cup {""} /\ s[APIKey] # ""
GithubBuilds(s) == s[ClientID] # "" /\ s[ClientSecret] # ""

\* registry.New on the names of the providers it is given.
RegistryBuilds(names) ==
  /\ \A i \in DOMAIN names : names[i] # ""
  /\ \A i, j \in DOMAIN names : names[i] = names[j] => i = j

\* All that Provide builds; GitHub is the one provider.
Builds(s) ==
  CacheBuilds(s) /\ ClientBuilds(s) /\ GithubBuilds(s) /\ RegistryBuilds(<<"github">>)
=============================================================================
